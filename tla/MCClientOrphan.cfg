SPECIFICATION Spec
CONSTANTS
  Requests = {m1, m2}
  ProRuns = {}
  ProEvents = {}
  FinalTexts <- RealOnly
  MaxCallers = 2
  MaxBuffer = 1
  Late = TRUE
  Proactive = Proactive
  None = None
INVARIANT WaiterReachable
CHECK_DEADLOCK FALSE
