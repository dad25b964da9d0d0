SPECIFICATION Spec
CONSTANTS
  p1 = p1
  p2 = p2
  Procs = {p1, p2}
  NINODES = 3
  NBLOCKS = 4
  NDIRECT = 1
  NINDIRECT = 1
  NFILE = 1
  NOFILE = 2
  Names = {"a", "b"}
  Programs <- MCMkdirRmdir
SYMMETRY Users
INVARIANT
  UnlinkedFreed
