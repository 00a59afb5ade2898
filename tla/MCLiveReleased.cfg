CONSTANTS
  Orders = {o1, o2, o3}
  InitNum = 3
  MaxRefunds = 0
  CommitRetries = 1
  Faults = {}
  Tasks = {"reserved"}
  MaxMishaps = 0
SPECIFICATION ReconcileSpec
INVARIANT LiveNotReleased
CHECK_DEADLOCK FALSE
