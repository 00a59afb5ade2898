CONSTANTS
  o1 = o1
  o2 = o2
  u1 = u1
  u2 = u2
  Orders <- OneOrder
  Users <- TwoUsers
  Buyer <- MCBuyer
  Seller <- MCSeller
  MaxRefunds = 2
  InitWallet = 0
  MaxOutside = 1
SPECIFICATION FundsFairSpec
INVARIANTS
  MoneyFollowsOrder
  NoFulfilmentSkipped
  DeletedAtRest
PROPERTIES
  ImplementsStateTable
  SellerIsPaid
  RefundIsHandled
CHECK_DEADLOCK FALSE
