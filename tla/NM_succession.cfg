SPECIFICATION FairSpec
CONSTANTS
  Thread = {t1, t2, t3}
  NULL = NULL
  LBIT = LBIT
  THREADPTR = THREADPTR
  NativeMonitorFlags = {}
  NativeMonitorTimeout = FALSE
  Ops = {"lock", "try_lock", "quiesce"}
INVARIANTS MutualExclusion NoStranding NeverOwnSuccessor
PROPERTIES EveryoneServed OnDeckStable
CHECK_DEADLOCK FALSE
