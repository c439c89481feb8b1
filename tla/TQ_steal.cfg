SPECIFICATION FairSpec
CONSTANTS
  NWorkers = 2
  N = 4
  TagSize = 16
  Start = {3}
  MaxTasks = 4
  MaxSteals = 1
  MaxTries = 2
  ParGCDesiredObjsFromOverflowList = 20
INVARIANTS NoEarlyTermination Assertions
PROPERTIES ImplementsPool Terminates
CHECK_DEADLOCK FALSE
