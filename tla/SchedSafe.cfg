SPECIFICATION Spec
CONSTANTS
  c1 = c1
  c2 = c2
  None = None
  Cpus = {c1, c2}
  NPROC = 2
SYMMETRY Symmetry
INVARIANTS OneCpuPerStack HoldingRight
  IntenaFollowsThread NoLostWakeup
