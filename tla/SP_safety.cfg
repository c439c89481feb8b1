SPECIFICATION FairSpec
CONSTANTS
  JavaThread = {t1, t2}
  Initial = {t1}
  VMThread = vmthread
  NONE = none
  UseMembar = FALSE
  Dynamic = TRUE
  BufferSize = 1

INVARIANTS Stopped CountsAgree BlockAssertions NoSelfDeadlock
PROPERTIES SafepointReached ThreadsResume
