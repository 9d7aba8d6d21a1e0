SPECIFICATION Spec
CONSTANTS
  Conns = {c1, c2}
  Cleaners = {k1}
  Kinds = {"works", "waits", "hangs"}
  ShutdownOnError = TRUE
INVARIANTS
  TypeOK
  AlarmsAreReal
  CleanMeansClosed
PROPERTIES
  RunnerReturns
  CleanersReturn
  WaitersEnd
