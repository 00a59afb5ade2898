CONSTANTS
  MaxAttempts = 1
  MaxRivals = 1
  PayFaults = {}
  Hooks = {h1}
  Wallets = {w1}
  Takers = {k1}
  Web3Tries = 1
  Cents = 7
  CentsPerToken = 2
  UnitsPerToken = 3
  ToleranceBps = 1000
  Amounts = {8, 9}
  Desks = {d1}
  RequireAML = TRUE
  Events = {e1, e2}
  MaxRows = 1
  Funds = {e1}
  Publishers = {p1}
  BatchSize = 2
  OutboxMaxAttempts = 1
  Levels = 2
  MaxDeliveryAttempts = 3
  MaxCopies = 1
  MaxHead = 4
  Contents <- MCContents
  ConfirmDepth = 2
  MaxBlockRange = 2
  Calls = {1, 2}
  FailureThreshold = 2
  HalfOpenMaxReq = 2
  MaxGeneration = 2
  MaxSetbacks = 1
  Guests = {u1}
  PacketTotal = 3
  PacketCount = 2
  MaxTakes = 1
  PacketSweeps = {s1}
  Fans = {f1, f2}
  TargetCount = 2
  Clerks = {c1, c2}
  Shelf = 3
  StockCommitRetries = 1
  Presales = {o1, o2}
  SelfBought = {o2}
  Errands = {x1, x2}
  DepositCents = 1
  FinalCents = 2
  Savings = 3
  PresaleNum = 2
  Holders = {u1}
  Claimers = {q1}
  Baskets = {b1, b2}
  CouponTotal = 2
  PerUser = 2
SPECIFICATION ProgressSpec
INVARIANT CouponsInBounds
PROPERTIES
  MoneyArrives
  CampaignsEnd
CHECK_DEADLOCK FALSE
