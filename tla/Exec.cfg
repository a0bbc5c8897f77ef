SPECIFICATION Spec
CONSTANTS
  NPAGE = 21
  FAN = 3
  PGSIZE = 4
  NPROC = 2
  MAXARG = 2
  ALIGN = 2
  WORD = 1024
  Programs <- MCPrograms
  Increments <- MCIncrements
  Stores <- MCStores
  Argvs <- MCArgvs
  Calls <- MCCalls
VIEW MCView
INVARIANT PagesOwned
INVARIANT MemoryPrivate
