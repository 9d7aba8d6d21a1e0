SPECIFICATION Spec
CONSTANTS
  Middlewares = {m1, m2}
  Resolvable = {m1}
  Patterns = {p1}
  Requests = {q1}
  MaxArgs = 1
  MaxRoom = 1
  MaxRouters = 4
  MaxChain = 2
INVARIANTS
  TypeOK
  LogTellsChain
PROPERTIES
  ChainsNeverChange
  ImplementsRouting
