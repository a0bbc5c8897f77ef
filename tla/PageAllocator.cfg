SPECIFICATION Spec
CONSTANTS
  NPages = 5
  MaxPages = 3
  Junk <- MCJunk
INVARIANT RefusalJustified
INVARIANT ListInv
