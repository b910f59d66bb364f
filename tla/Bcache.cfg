SPECIFICATION Spec
CONSTANTS
  None = None
  Procs = {p, q}
  Blocks = {l, i, y, z}
  LogBlocks = {l}
  Indirect = {i}
  Vals = {u, v}
  NBUF = 2
  MaxPins = 1
SYMMETRY Symmetry
INVARIANTS BufferStays ReadsLatest NobodyStuck
