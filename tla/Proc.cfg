SPECIFICATION LiveSpec
CONSTANTS
  None = None
  NPROC = 3
  MaxPid = 5
  KillPids = {2}
INVARIANTS NoOrphans StackNotReused
PROPERTIES ZombiesReaped
