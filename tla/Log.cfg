SPECIFICATION FairSpec
CONSTANTS
  Proc = {p1, p2}
  Block = {b1, b2, b3}
  Val = {v1, v2}
  Torn = Torn
  None = None
  MAXOPBLOCKS = 2
  LOGSIZE = 4
  NLog = 4
  OpBlocks = 1
  CanCrash = TRUE
INVARIANT LogInv
INVARIANT QuiescentDurable
INVARIANT NoPanic
PROPERTY RefinesAtomicDisk
PROPERTY CallReturns
