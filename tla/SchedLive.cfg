SPECIFICATION LiveSpec
CONSTANTS
  c1 = c1
  None = None
  Cpus = {c1}
  NPROC = 2
PROPERTIES RequestsReturn
