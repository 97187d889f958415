SPECIFICATION Spec
CONSTANTS
  None = None
  Threads = {t1, t2}
  Conns = {c1, c2, c3}
  MaxConn = 2
  IdleLimit = 1
  MaxClock = 3
  ConnectMayFail = FALSE
  SpuriousWakeups = FALSE
INVARIANTS ReapedAfterFiveMinutes
