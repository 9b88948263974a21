CONSTANTS
  a = a
  b = b
  d = d
  s = s
  v = v
  e = e
  NoCall = NoCall
  Cells = {a, b}
  Viewers = {v}
  Syncs = {}
  Evals = {}
  MaxSpawn = 3
  Slow = {}
  Sequential = FALSE

SPECIFICATION Spec
INVARIANTS
  TypeOK
  OneLiveBridge
  NoAbandonedWork
  ResetHandedOut
  GenerationNamesKernel
  LostIsRejected
PROPERTY
  ServiceSpec

\* Calls are made once, so the system really comes to rest.
CHECK_DEADLOCK FALSE
