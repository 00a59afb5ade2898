CONSTANTS
  o1 = o1
  o2 = o2
  u1 = u1
  u2 = u2
  Orders <- TwoOrders
  Users <- TwoUsers
  Buyer <- MCBuyer
  Seller <- MCSeller
  MaxRefunds = 1
  InitWallet = 0
  MaxOutside = 0
SPECIFICATION FundsSpec
INVARIANTS
  FundsTypeOK
  MoneyInOnePlace
  WalletMatchesLedger
PROPERTY ImplementsEscrow
CHECK_DEADLOCK FALSE
