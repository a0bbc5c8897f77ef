SPECIFICATION FairSpec
CONSTANTS
  p1 = p1
  p2 = p2
  a = a
  b = b
  Proc <- MCProc
  None = None
  Byte <- MCByte
  PIPESIZE = 2
  Wrap = 4
  Sizes = {3}
  Ends <- Shared
  Faults = TRUE
INVARIANT NoLostWakeup
INVARIANT NoUseAfterFree
PROPERTY IsStream
PROPERTY CallsReturn
CHECK_DEADLOCK FALSE
