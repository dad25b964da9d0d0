SPECIFICATION Spec
CONSTANTS
  c1 = c1
  c2 = c2
  CPUs = {c1, c2}
  NPROC = 3
  MaxPid = 4
  KillPids = {2, 3, 4}
  Signals = {1, 2, 3}
  StopRunning = FALSE
SYMMETRY Harts
INVARIANTS
  TypeOK
  RunsOnOneCpu
  WaitMissesNoExit
  NoOrphans
PROPERTIES
  NewProcessIsNotKilled
