SPECIFICATION Spec
CONSTANTS
  MayFail = TRUE
  AutoProvision = {TRUE, FALSE}
  HasDify = {TRUE, FALSE}
  Mapped = TRUE
  MaxFiles = 2
  Interval = 2
  MaxChunks = 4
  MaxTime = 5
CHECK_DEADLOCK FALSE
INVARIANTS TypeOK DifyAnswerShown NeverSilent
PROPERTIES StreamInOrder
