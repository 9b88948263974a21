CONSTANTS
  k1 = k1
  v1 = v1
  Missing = Missing
  MaxRows = 4
  Unit = 10
  MaxBytes = 12000

SPECIFICATION RequestsSpec
INVARIANTS
  RequestsTypeOK
  GateHolds
  HostLeavesNone
  VerbsAgree
PROPERTIES
  OwnerDeathReaps
  OwnerGone
  InterruptSpares
  QueriesCancelled
  HiddenWasShown

\* The bridge ends, and nothing follows.
CHECK_DEADLOCK FALSE
