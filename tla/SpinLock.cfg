SPECIFICATION FairSpec
CONSTANTS
  c1 = c1
  c2 = c2
  CPU <- MCCPU
  None = None
  NLocks = 3
  Zig <- Mixed
INVARIANT NoPanic
INVARIANT LockInv
PROPERTY LocksReleased
