SPECIFICATION FairSpec
CONSTANTS
  p1 = p1 p2 = p2 b1 = b1 b2 = b2 b3 = b3 b4 = b4
  Procs = {p1, p2}
  Blocks = {b1, b2, b3, b4}
  Vals = {0, 1}
  MAXOPBLOCKS = 2
  LOGBLOCKS = 4
  OpWrites = 1
INVARIANTS
  TypeOK
  NoPanic
  SleeperHasWaker
  CommittedIsInstalled
PROPERTIES
  AtomicGroups
  SleeperWakes
