SPECIFICATION Spec
CONSTANTS
  Goroutines = {g1, g2, g3}
  RequestTypes <- SharedTypes
INVARIANTS
  TypeOK
  CompilesOnce
PROPERTIES
  CallsEnd
  ImplementsTagCache
