CONSTANTS
  Orders = {o1}
  InitNum = 1
  MaxRefunds = 0
  CommitRetries = 1
  Faults = {"lost_reply"}
  Tasks = {"available", "reserved"}
  MaxMishaps = 1
SPECIFICATION FairSpec
PROPERTY BothHeal
CHECK_DEADLOCK FALSE
