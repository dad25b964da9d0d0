SPECIFICATION FairSpec
CONSTANTS
  p1 = p1
  p2 = p2
  Procs = {p1, p2}
  Killable = {p1}
  Bytes = {0, 1}
  PIPESIZE = 2
  UINT = 4
  MaxN = 2
INVARIANTS
  TypeOK
  SleepsForCause
  FreedOnce
PROPERTIES
  IsFifo
  CloseUnblocks
CHECK_DEADLOCK FALSE
