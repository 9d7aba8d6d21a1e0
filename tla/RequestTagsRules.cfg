SPECIFICATION Spec
CONSTANTS
  Goroutines = {g1}
  RequestTypes <- SmallTypes
INVARIANTS
  TagsMatchDeclaration
