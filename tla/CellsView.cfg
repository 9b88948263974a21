CONSTANTS
  c1 = c1
  c2 = c2
  NoPane = NoPane
  NoConnection = NoConnection
  Connections = {c1, c2}
  MaxPanes = 4
  MaxFaults = 3

SPECIFICATION FairSpec
INVARIANTS
  TypeOK
  OwnsPanes
PROPERTY
  ShutdownSettles

\* After shutdown() nothing is left to do.
CHECK_DEADLOCK FALSE
