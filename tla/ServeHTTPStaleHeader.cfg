SPECIFICATION Spec
CONSTANTS
  NumMiddlewares = 1
  StatusArgs <- BoundaryStatuses
  StreamStatuses <- LateStatuses
  MaxOps = 4
PROPERTIES
  HeaderNeedsLiveHandle
