SPECIFICATION Spec
CONSTANTS
  Chunks = 3
INVARIANTS
  TypeOK
  HandlerOwnsParsed
  
  AnswerReachesCaller
PROPERTIES
  GoroutinesEnd
  
