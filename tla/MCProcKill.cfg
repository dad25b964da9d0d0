SPECIFICATION Spec
CONSTANTS
  c1 = c1
  c2 = c2
  CPUs = {c1, c2}
  NPROC = 3
  MaxPid = 3
  KillPids = {0, 2, 3}
  Signals = {1}
  StopRunning = FALSE
PROPERTIES
  NewProcessIsNotKilled
