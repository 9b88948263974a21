CONSTANTS
  a = a
  b = b
  d = d
  s = s
  v = v
  e = e
  NoCall = NoCall
  Cells = {a}
  Viewers = {v}
  Syncs = {s}
  Evals = {e}
  MaxSpawn = 2
  Slow = {1, 2}
  Sequential = TRUE

SPECIFICATION FairSpec
PROPERTIES
  CancelledSettles
  ShutdownSettles

\* Calls are made once, so the system really comes to rest.
CHECK_DEADLOCK FALSE
