SPECIFICATION Spec
CONSTANTS
  Threads = {t1, t2, t3, t4}
  Conns = {c1, c2, c3}
  None = None
  MaxConn = 2
  IdleLimit = 1
  MaxClock = 2
  ConnectMayFail = TRUE
  SpuriousWakeups = TRUE
SYMMETRY Symmetry
INVARIANTS TypeOK LeaseSafe CountersAgree OpenWithinLimit NothingLeaks OldestFirst ReapsOnlyIdle NoStrandedWaiter
PROPERTIES LeaseSpec
