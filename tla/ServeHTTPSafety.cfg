SPECIFICATION Spec
CONSTANTS
  NumMiddlewares = 2
  StatusArgs <- BoundaryStatuses
  StreamStatuses <- LateStatuses
  MaxOps = 7
INVARIANTS
  TypeOK
  ResponseOrTakeover
  LiveHandleHasResponse
  AccountingMatchesWire
  CommitsOnce
  TakeoverClosesOnce
  LogTellsOutcome
  WriteFindsCase
PROPERTIES
  RepliesWithFinalResponse
  HijackedIsSilent
  ImplementsExchange
