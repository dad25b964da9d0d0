SPECIFICATION Spec
CONSTANTS
  p1 = p1 p2 = p2 p3 = p3 b1 = b1 b2 = b2 b3 = b3 k1 = k1 k2 = k2 k3 = k3 k4 = k4 v1 = v1 v2 = v2
  Procs = {p1,p2,p3}
  Bufs = {b1,b2,b3}
  Blocks = {k1,k2,k3,k4}
  Written = {k1}
  Vals = {v1, v2}
  NUM = 7
  MaxPins = 1
SYMMETRY Symmetry
INVARIANTS
  TypeOK
  RefsCounted
  OneBufferPerBlock
  DescriptorsOwned
  SleepsForCause
PROPERTIES
  IsBlockStore
