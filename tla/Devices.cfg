SPECIFICATION Spec
CONSTANTS
  p1 = p1
  p2 = p2
  Proc = {p1, p2}
  None = None
  Intr = Intr
  UART_TX_BUF_SIZE = 2
  FIFO = 3
  UINT = 4
  INPUT_BUF_SIZE = 2
  ReadSize = 2
  WriteSize = 2
  SleepTicks = 2
  Workloads <- MCWorkloads
VIEW MCView
INVARIANT OutputInOrder
INVARIANT LinesKept
INVARIANT SleepersWait
INVARIANT OutputGoesOn
