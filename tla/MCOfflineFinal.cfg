CONSTANTS
  o1 = o1
  o2 = o2
  u1 = u1
  u2 = u2
  Orders <- OneOrder
  Users <- TwoUsers
  Buyer <- MCBuyer
  Seller <- MCSeller
  MaxRefunds = 1
  InitWallet = 0
  MaxOutside = 1
SPECIFICATION FundsSpec
PROPERTY OfflineIsFinal
CHECK_DEADLOCK FALSE
