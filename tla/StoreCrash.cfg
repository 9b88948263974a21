CONSTANTS
  k1 = k1
  k2 = k2
  i1 = i1
  i2 = i2
  i3 = i3
  u = u
  v = v
  w = w
  NoId = NoId
  Partial = Partial
  NoKernel = NoKernel
  NoValue = NoValue
  Kernels = {k1}
  Ids = {i1, i2, i3}
  Values = {u, v}
  Poison = {v}
  Baselines = {{}, {u}}
  StoreLimit = 3
  MaxBranch = 1
  MaxKills = 1

SYMMETRY AlikeIds
SPECIFICATION Spec
INVARIANTS
  TypeOK
  BlobsKept
  RestoreAccounts
  CancelledRunsAgain
PROPERTY
  SavesAreTidy
