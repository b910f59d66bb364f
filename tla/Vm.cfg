SPECIFICATION Spec
CONSTANTS
  Procs = {p, q, r}
  init = p
  NPAGES = 20
  PGSIZE = 2
  FAN = 2
  MaxSz = 8
  Progs <- MCProgs
INVARIANTS PagesCounted NoPanic SpaceRight
SYMMETRY Symmetry
