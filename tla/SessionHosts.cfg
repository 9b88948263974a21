CONSTANTS
  i1 = i1
  i2 = i2
  i3 = i3
  NoId = NoId
  Partial = Partial
  Ids = {i1, i2, i3}
  Attempts = 2
  MaxKillers = 1
  MaxFaults = 2
  PiCells = 2

SPECIFICATION HostsSpec
INVARIANTS
  HostsTypeOK
  Forwarded
  CloseHolds
  
PROPERTIES
  KeepsLive
  
  CallsSettle
  
