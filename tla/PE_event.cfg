SPECIFICATION FairSpec
CONSTANTS
  Unparker = {u1, u2, u3}
  Self = self
  NONE = none
  WorkAroundNPTLTimedWaitHang = FALSE
  FilterSpuriousWakeups = TRUE
PROPERTIES ParkReturns ImplementsPermit
