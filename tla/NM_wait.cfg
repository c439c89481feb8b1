SPECIFICATION FairSpec
CONSTANTS
  Thread = {t1, t2}
  NULL = NULL
  LBIT = LBIT
  THREADPTR = THREADPTR
  NativeMonitorFlags = {1, 16}
  NativeMonitorTimeout = TRUE
  Ops = {"lock", "try_lock", "jvm_raw_lock", "wait", "timed_wait", "notify", "notify_all", "suspend", "quiesce"}
INVARIANTS AtMostOneList NotificationsKept
PROPERTIES ImplementsMonitor EveryoneServed
CHECK_DEADLOCK FALSE
