SPECIFICATION Spec
CONSTANTS
  Requests = {m1, m2}
  ProRuns = {}
  ProEvents = {}
  FinalTexts <- RealOnly
  MaxCallers = 1
  MaxBuffer = 1
  Late = TRUE
  Proactive = Proactive
  None = None
INVARIANT NoStaleAnswer
CHECK_DEADLOCK FALSE
