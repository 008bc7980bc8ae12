SPECIFICATION Spec
CONSTANTS
  Requests = {m1, m2}
  ProRuns = {p}
  ProEvents = {"cron"}
  FinalTexts <- RealOnly
  MaxCallers = 2
  MaxBuffer = 1
  Late = FALSE
  Proactive = Proactive
  None = None
INVARIANTS OwnAnswer ActiveHoldsLock
PROPERTY SendReturns
CHECK_DEADLOCK FALSE
