SPECIFICATION Spec
CONSTANTS
  Chunks = 3
PROPERTIES
  CallerReturns
