SPECIFICATION Spec
CONSTANTS
  None = None
  Procs = {p, q}
  Names = {"a"}
  Boot <- BootNames
  Sizes <- OneFile
  Crashes = TRUE
  Inums = 3
  NDIRECT = 1
  MAXFILE = 2
  DPB = 4
  Blocks = 4
  NINODE = 2
  NFILE = 1
  NOFILE = 2
INVARIANTS RefsRight OpenFilesLive PutNeverBlocks CrashConsistent
SYMMETRY Symmetry
