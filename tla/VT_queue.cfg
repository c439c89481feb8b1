SPECIFICATION FairSpec
CONSTANTS
  JavaThread = {j1}
  OtherThread = {g1}
  Op = {o1, o2}
  Modes = {"safepoint", "no_safepoint", "async_safepoint", "concurrent"}
  NULL = null
  StarvationLimit = 1
  MaxOtherCalls = 1
  TraceLongCompiles = FALSE
  Exits = TRUE
INVARIANTS NoUseAfterFree AllScanned EvaluatedOnce
PROPERTIES EveryoneServed ExitIsSeen
CHECK_DEADLOCK FALSE
