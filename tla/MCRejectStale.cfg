CONSTANTS
  Orders = {o1}
  MaxRefunds = 3
SPECIFICATION LifeSpec
PROPERTY RejectRestoresRefundFrom
CHECK_DEADLOCK FALSE
