CONSTANTS
  k1 = k1
  k2 = k2
  i1 = i1
  i2 = i2
  i3 = i3
  u = u
  v = v
  w = w
  NoId = NoId
  Partial = Partial
  NoKernel = NoKernel
  NoValue = NoValue
  Kernels = {k1}
  Ids = {i1}
  Values = {u}
  Poison = {}
  Baselines = {{}}
  StoreLimit = 3
  MaxBranch = 1
  MaxKills = 1

SPECIFICATION Spec
INVARIANT OnlyPoisonDeleted
