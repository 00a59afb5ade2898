CONSTANTS
  t1 = t1
  t2 = t2
  a = a
  b = b
  Tickets = {t1}
  Workers = {w1}
  Pieces = 1
  Users <- MCUsers
  UserOf <- MCUserOf
  Causes <- MCCauses
  Num = 1
  Limit = 1
  Attempts = 1
  MaxMishaps = 1
  FaultSets = {{"redelivery", "redis_error", "keys_lost", "cron_stopped"}}
SPECIFICATION FairSeckillSpec
PROPERTIES
  QuotaHeals
  FlightsEnd
CHECK_DEADLOCK FALSE
