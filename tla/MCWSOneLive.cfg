SPECIFICATION Spec
CONSTANTS
  s1 = s1 s2 = s2 s3 = s3 c1 = c1 c2 = c2 c3 = c3 c4 = c4 c5 = c5 c6 = c6 c7 = c7 g1 = g1 g2 = g2 g3 = g3
  Senders = {s1, s2}
  Clients = {c1, c2, c3, c4}
  Guardians = {g1, g2}
  LockObjects = 5
  Cleanup = TRUE
  Shutdown = FALSE
  Closer = Closer
  None = None
INVARIANTS OneLive
