CONSTANTS
  a = a
  b = b
  d = d
  s = s
  v = v
  e = e
  NoCall = NoCall
  Cells = {a}
  Viewers = {}
  Syncs = {s, b}
  Evals = {}
  MaxSpawn = 2
  Slow = {}
  Sequential = TRUE

SPECIFICATION Spec
INVARIANT StoppedForGood

\* Calls are made once, so the system really comes to rest.
CHECK_DEADLOCK FALSE
