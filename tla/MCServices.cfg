CONSTANTS
  x1 = x1
  x2 = x2
  MaxAttempts = 1
  MaxRivals = 1
  PayFaults = {"db_error", "redis_error", "death"}
  Hooks = {x1, x2}
  Wallets = {x1, x2}
  Takers = {x1, x2}
  Web3Tries = 1
  Cents = 7
  CentsPerToken = 2
  UnitsPerToken = 3
  ToleranceBps = 1000
  Amounts = {8, 9}
  Desks = {x1, x2}
  RequireAML = TRUE
  Events = {e1}
  MaxRows = 1
  Funds = {e1}
  Publishers = {x1, x2}
  BatchSize = 2
  OutboxMaxAttempts = 1
  Levels = 2
  MaxDeliveryAttempts = 3
  MaxCopies = 2
  MaxHead = 4
  Contents <- MCContents
  ConfirmDepth = 1
  MaxBlockRange = 2
  Calls = {x1, x2, x3}
  FailureThreshold = 2
  HalfOpenMaxReq = 2
  MaxGeneration = 2
  Sends = {x1, x2, x3}
  CommitTries = 2
  MaxEffects = 2
  MaxTick = 3
  MaxBurst = 2
  MaxSkew = 1
  WindowTicks = 3
  WindowLimit = 2
  Refill = 1
  BucketSize = 1
  IdleTicks = 1
  MaxSetbacks = 1
  Links = {x1, x2}
  Uses = {x1, x2}
  Requests = {x3}
  Shoppers = {x1, x2}
  Editors = {x1, x2}
  MaxText = 3
  Indexers = {x1, x2}
  MaxEdits = 3
  Guests = {x1, x2}
  PacketTotal = 2
  PacketCount = 2
  MaxTakes = 2
  PacketSweeps = {x3}
  Fans = {x1, x2, x3}
  TargetCount = 2
  Clerks = {x1, x2}
  Shelf = 3
  StockCommitRetries = 3
  Presales = {o1, o2}
  SelfBought = {o2}
  Errands = {x1, x2}
  DepositCents = 1
  FinalCents = 2
  Savings = 3
  PresaleNum = 2
  Carts = {x1, x2}
  NumRules = 2
  DailyBudget = 2
  MaxDay = 2
  Holders = {x1, x2}
  Claimers = {x1, x2}
  Baskets = {}
  CouponTotal = 2
  PerUser = 1
SPECIFICATION ServicesSpec
SYMMETRY Symmetry
INVARIANTS
  ServicesTypeOK
  AcknowledgedIsBooked
  IntentMatchesBooks
  EventsKept
  AnnouncedOnce
  GatesHold
  CatalogueFollows
  PacketMoney
  GroupBooks
  PresaleBooks
  BudgetMatchesOrders
  CouponsInBounds
CHECK_DEADLOCK FALSE
