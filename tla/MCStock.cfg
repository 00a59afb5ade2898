CONSTANTS
  Orders = {o1, o2}
  InitNum = 1
  MaxRefunds = 2
  CommitRetries = 1
  Faults = {"crash", "redis_error"}
SPECIFICATION Spec
SYMMETRY Symmetry
INVARIANTS
  TypeOK
  NoOversell
  ReservedExact
  StockConservation
  UnpaidCovered
CHECK_DEADLOCK FALSE
