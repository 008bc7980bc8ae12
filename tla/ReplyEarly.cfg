SPECIFICATION Spec
CONSTANTS
  MayFail = TRUE
  AutoProvision = {FALSE}
  HasDify = {FALSE}
  Mapped = TRUE
  MaxFiles = 2
  Interval = 2
  MaxChunks = 1
  MaxTime = 2
CHECK_DEADLOCK FALSE
INVARIANTS NeverSilentEarly
