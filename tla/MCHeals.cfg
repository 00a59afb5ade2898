CONSTANTS
  o1 = o1
  Orders = {o1, o2}
  InitNum = 1
  MaxRefunds = 0
  CommitRetries = 1
  Faults = {"crash", "redis_error"}
  Tasks = {"reserved"}
  MaxMishaps = 1
SPECIFICATION AloneSpec
PROPERTY EachHeals
CHECK_DEADLOCK FALSE
