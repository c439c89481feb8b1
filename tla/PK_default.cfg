SPECIFICATION Spec
CONSTANTS
  Unparker = {u1, u2}
  NONE = none
  UseMembar = FALSE
  WorkAroundNPTLTimedWaitHang = TRUE
INVARIANT NoSleepOverPermit
