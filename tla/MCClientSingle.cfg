SPECIFICATION Spec
CONSTANTS
  Requests = {m1, m2}
  ProRuns = {}
  ProEvents = {}
  FinalTexts <- RealOrBlank
  MaxCallers = 1
  MaxBuffer = 2
  Late = TRUE
  Proactive = Proactive
  None = None
SYMMETRY Symmetry
INVARIANTS TypeOK WaiterReachable FallbackFresh
PROPERTY ResolvedOnce
CHECK_DEADLOCK FALSE
