SPECIFICATION Spec
CONSTANTS
  NPROC = 7
  NOFILE = 6
  NFILE = 6
  PIPESIZE = 1
  MAXARGS = 4
  MaxTokens = 3
  Words = {"echo", "cat", "f", "g"}
  Inputs <- MCInputs
  Files <- MCFiles
INVARIANT ParsedRight
INVARIANT LineDone
PROPERTY LinesEnd
CHECK_DEADLOCK FALSE
