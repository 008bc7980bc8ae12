SPECIFICATION Spec
CONSTANTS
  Kinds = {"poll", "ack", "push"}
  MaxUpdates = 3
  MaxRestarts = 1
  MaxRedelivered = 1
INVARIANTS TypeOK InOrder NothingSkipped LostInRestartOnly
PROPERTY EveryMessageDispatched
CHECK_DEADLOCK FALSE
