SPECIFICATION Spec
CONSTANTS
  r1 = r1
  r2 = r2
  Home <- Together
  Replicas = {r1}
  Kinds <- IdentityCache
  Users = {u1, u2}
  Instances = {i1, i2, i3}
  Infos = {a}
  Readers = {t1}
  Binders = {b1, b2}
  NoInst = NoInst
  NoInfo = NoInfo
  MaxCacheEntries = 1
  MaxVersion = 5
SYMMETRY Symmetry
INVARIANTS OneToOne CacheBounded
CONSTRAINT LookupsAfterBinds
