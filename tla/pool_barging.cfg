SPECIFICATION Spec
CONSTANTS
  None = None
  Threads = {t1, t2}
  Conns = {c1, c2, c3}
  MaxConn = 1
  IdleLimit = 1
  MaxClock = 2
  ConnectMayFail = FALSE
  SpuriousWakeups = FALSE
INVARIANTS WaitEndsWithConnection
