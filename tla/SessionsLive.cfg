SPECIFICATION MCExpiredSpec
CONSTANTS
  Tokens = {t1, t2}
  Requests = {}
  Logouts = {l1, l2, l3}
  Lifetime = 1
  LastTick = 2
  None = None
PROPERTIES
  LogoutsAnswered
