SPECIFICATION Spec
CONSTANTS
  p1 = p1
  p2 = p2
  r1 = r1
  r2 = r2
  w1 = w1
  Procs = {p1, p2}
  NFRAMES = 14
  FAN = 3
  LEVELS = 2
  PGSIZE = 2
  Grows <- MCGrows
  Addrs = {5, 7, 11}
  MaxCalls = 6
  Readers = {r1, r2}
  Writers = {w1}
  INPUT_BUF_SIZE = 2
  UINT = 4
  RXFIFO = 1
  WRITE_BUF = 2
  MaxRead = 2
  MaxWrite = 3
  NUNITS = 12
  NALLOC = 5
  Sizes = {1, 2, 4}
  MAXARGS = 3
  BUFSIZE = 5
  MAX_LEN = 4
  MAX_LINES = 5
SYMMETRY Sym
INVARIANTS
  VmTypeOK
  FramesOwnedOnce
  InputInOrder
  ConsoleSleepsForCause
  HeapSound
  ShellRunsAsWritten
  FilesNotLost
  TextAsSpecified
PROPERTIES
  IsPrivateMemory
CHECK_DEADLOCK FALSE
