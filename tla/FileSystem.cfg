CONSTANTS
  p1 = p1
  p2 = p2
  Proc = {p1, p2}
  Name = {"d", "f"}
  None = None
  NINODES = 3
  NFILE = 2
  NOFILE = 2
  Calls <- MCCalls
  Zig = FALSE
SPECIFICATION Spec
INVARIANT NoPanic
INVARIANT RefsExact
INVARIANT LinksCounted
INVARIANT NoCircularWait
