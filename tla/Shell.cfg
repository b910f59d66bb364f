SPECIFICATION LiveSpec
CONSTANTS
  None = None
  Commands <- MCCommands
  Lines <- MCLines
  MAXARGS = 3
  NOFILE = 6
  Failures = {"fork", "pipe", "open", "exec"}
INVARIANTS ParsesWhatIsMeant StdioRight ForegroundWaited
PROPERTIES LineEnds
