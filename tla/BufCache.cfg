SPECIFICATION Spec
CONSTANTS
  p1 = p1
  p2 = p2
  p3 = p3
  k1 = k1
  k2 = k2
  k3 = k3
  k4 = k4
  v1 = v1
  v2 = v2
  None = None
  Proc <- MCProc
  Block <- MCBlock
  Value <- MCValue
  NBUF = 3
  MaxPins = 1
  NUM = 8
  Workloads <- MCWorkloads
SYMMETRY Symmetry
INVARIANT Coherent
INVARIANT CacheInv
INVARIANT NoLostWakeup
INVARIANT DiskWakeups
INVARIANT DescOwned
