SPECIFICATION Spec
CONSTANTS
  NumLayers = 2
  Layers <- SomeLayers
  Requests <- SomeRequests
  MaxCalls = 2
INVARIANTS
  SecondConsumerFails
