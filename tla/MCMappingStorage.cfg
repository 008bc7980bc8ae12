SPECIFICATION Spec
CONSTANTS
  r1 = r1
  r2 = r2
  Home <- Apart
  Replicas = {r1, r2}
  Kinds <- IdentityCache
  Users = {u1}
  Instances = {i1}
  Infos = {a, b}
  Readers = {t1, t2}
  Binders = {b1}
  NoInst = NoInst
  NoInfo = NoInfo
  MaxCacheEntries = 1
  MaxVersion = 3
SYMMETRY Symmetry
INVARIANTS TypeOK CacheCoherent LookupCurrent
PROPERTY RefinesRegister
