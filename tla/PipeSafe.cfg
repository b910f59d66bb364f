SPECIFICATION Spec
CONSTANTS
  None = None
  Procs = {r, s, w}
  Readers = {r, s}
  Writers = {w}
  Killable = {r, s, w}
  Byte = {x, y}
  PIPESIZE = 2
  Counter = 4
  MaxN = 3
SYMMETRY Symmetry
INVARIANTS NoUseAfterFree NoLostWakeup
PROPERTIES IsFifo
