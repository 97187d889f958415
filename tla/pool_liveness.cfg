SPECIFICATION FairSpec
CONSTANTS
  None = None
  Threads = {t1, t2}
  Conns = {c1, c2}
  MaxConn = 2
  IdleLimit = 1
  MaxClock = 1
  ConnectMayFail = FALSE
  SpuriousWakeups = FALSE
INVARIANTS NeverWaits
PROPERTIES GetReturns IdleIsReaped JoinReturns
