SPECIFICATION FairSpec
CONSTANTS
  t1 = t1
  t2 = t2
  t3 = t3
  Thread = {t1, t2, t3}
  Monitor = {m1, m2, m3}
  Hash = {1, 2}
  NULL = NULL
  Ops <- MCOps
  MaxDepth = 2
  MaxCalls <- MCCalls
INVARIANTS HashStable Accounted Guarantees
PROPERTIES ImplementsMonitor EveryoneServed
CHECK_DEADLOCK FALSE
