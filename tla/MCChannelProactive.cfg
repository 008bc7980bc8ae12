SPECIFICATION Spec
CONSTANTS
  r1 = r1 r2 = r2 mattermost = mattermost telegram = telegram
  u1 = u1 a = a b = b j1 = j1 j2 = j2
  Replicas = {r1}
  Providers = {mattermost, telegram}
  Default = mattermost
  Users = {u1}
  Rooms = {a, b}
  Jobs = {j1}
  MayFail = FALSE
  None = None
SYMMETRY Symmetry
INVARIANTS ProactiveKept
