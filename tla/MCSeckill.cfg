CONSTANTS
  t1 = t1
  t2 = t2
  a = a
  b = b
  Tickets = {t1, t2}
  Workers = {w1}
  Pieces = 2
  Users <- MCUsers
  UserOf <- MCUserOf
  Causes <- MCCauses
  Num = 1
  Limit = 1
  Attempts = 1
  MaxMishaps = 1
  FaultSets = {
    {"crash", "lost_reply", "message_lost"},
    {"redelivery", "publish_unknown", "db_error", "keys_lost", "no_cron"}}
SPECIFICATION SeckillSpec
SYMMETRY Symmetry
INVARIANTS
  QuotaExact
  QueuedKeepsQuota
  TicketsCovered
  QueuedNotLeaked
  SeckillTypeOK
  DBGuards
CHECK_DEADLOCK FALSE
