SPECIFICATION Spec
CONSTANTS
  None = None
  Procs = {p, q}
  Names = {"a", "b"}
  Inums = 3
  MaxLink = 2
  Paths <- MCPaths
  NewPaths <- MCNewPaths
INVARIANTS LinksExact TreeShape NoLockCycle
SYMMETRY Symmetry
