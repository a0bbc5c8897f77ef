SPECIFICATION FairSpec
CONSTANTS
  c1 = c1
  c2 = c2
  CPU <- MCCPU
  None = None
  NPROC = 3
  MaxPid = 3
  Targets = {2}
  Calls <- AllCalls
  Zig = FALSE
  Preempted = {"adopt", "relock"}
  NoMemory = TRUE
INVARIANT UserUnlocked
INVARIANT NoLostWakeup
INVARIANT NoOrphans
INVARIANT TableInv
PROPERTY ZombiesReaped
PROPERTY ReadyRuns
