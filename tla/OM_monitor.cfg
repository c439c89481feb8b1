SPECIFICATION FairSpec
CONSTANTS
  t1 = t1
  t2 = t2
  t3 = t3
  Thread = {t1, t2, t3}
  NULL = NULL
  Settings <- MonitorSettings
INVARIANTS MutualExclusion OnTheListTStateNames Assertions BusyWhileUsed
PROPERTIES ImplementsMonitor EveryoneServed
CHECK_DEADLOCK FALSE
