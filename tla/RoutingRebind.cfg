SPECIFICATION Spec
CONSTANTS
  Users = {u1}
  Instances = {i1, i2}
  Jobs = {j1, j2}
  AutoProvisioning = TRUE
  MaxRebinds = 1
  NoUser = NoUser
  NoInst = NoInst
PROPERTY RebindSeen
