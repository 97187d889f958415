SPECIFICATION FairSpec
CONSTANTS
  None = None
  Threads = {t1, t2}
  Conns = {c1, c2, c3}
  MaxConn = 2
  IdleLimit = 1
  MaxClock = 0
  ConnectMayFail = TRUE
  SpuriousWakeups = FALSE
PROPERTIES GrowsWhenRoom
CHECK_DEADLOCK FALSE
