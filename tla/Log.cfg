SPECIFICATION LiveSpec
CONSTANTS
  Procs = {p1, p2}
  Blocks = {b1, b2, b3}
  Vals = {v1, v2}
  Torn = torn
  None = none
  OpBlocks = 1
  MAXOPBLOCKS = 2
  LOGSIZE = 4
  size = 4
INVARIANTS IInv NoPanic
PROPERTIES CrashSafe CommitsEventually SleepersWake
