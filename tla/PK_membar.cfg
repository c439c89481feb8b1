SPECIFICATION FairSpec
CONSTANTS
  Unparker = {u1, u2}
  NONE = none
  UseMembar = TRUE
  WorkAroundNPTLTimedWaitHang = FALSE
INVARIANTS NoSleepOverPermit
PROPERTIES BlockedReturns
