SPECIFICATION SpecWithScript
CONSTANTS
  r1 = r1
  r2 = r2
  Home <- Together
  Replicas = {r1}
  Kinds <- BothCaches
  Users = {u1}
  Instances = {i1, i2}
  Infos = {a, b}
  Readers = {t1}
  Binders = {b1}
  NoInst = NoInst
  NoInfo = NoInfo
  MaxCacheEntries = 2
  MaxVersion = 4
PROPERTY ReloadBusts
