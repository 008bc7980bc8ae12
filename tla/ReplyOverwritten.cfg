SPECIFICATION Spec
CONSTANTS
  MayFail = FALSE
  AutoProvision = {FALSE}
  HasDify = {FALSE}
  Mapped = TRUE
  MaxFiles = 0
  Interval = 2
  MaxChunks = 4
  MaxTime = 6
CHECK_DEADLOCK FALSE
INVARIANTS AnswerShown
