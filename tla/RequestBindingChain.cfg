SPECIFICATION Spec
CONSTANTS
  NumLayers = 3
  Layers <- SomeLayers
  Requests <- SomeRequests
  MaxCalls = 4
INVARIANTS
  TypeOK
  TypedCodeSeesSources
  BytesReachOneBinding
  BindingsCoverContract
PROPERTIES
  StrayBinderAlone
