SPECIFICATION Spec
CONSTANTS
  c1 = c1
  c2 = c2
  CPUs = {c1, c2}
  NPROC = 3
  MaxPid = 3
  KillPids = {2, 3}
  Signals = {2, 3}
  StopRunning = TRUE
INVARIANTS
  NeverOnTwoCpus
