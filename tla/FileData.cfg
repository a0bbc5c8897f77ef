CONSTANTS
  p1 = p1
  p2 = p2
  fa = fa
  fb = fb
  fc = fc
  None = None
  Proc = {p1, p2}
  File = {fa, fb, fc}
  IpOf <- MCIpOf
  NDIRECT = 1
  NINDIRECT = 2
  BSIZE = 2
  NBLOCKS = 8
  MaxChunk = 4
  Lens = {5}
  Reach <- MCReach
  MayCall <- MCMayCall
  Image <- MCImage
SPECIFICATION Spec
INVARIANT BlocksOwned
INVARIANT Content
