SPECIFICATION Spec
CONSTANTS
  Users = {u1}
  Instances = {i1, i2}
  Jobs = {j1, j2}
  AutoProvisioning = TRUE
  MaxRebinds = 0
  NoUser = NoUser
  NoInst = NoInst
INVARIANT ProcessedOnce
