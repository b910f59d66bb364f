SPECIFICATION Spec
CONSTANTS
  None = None
  Readers = {p, q}
  Writers = {u, v}
  INPUT_BUF_SIZE = 2
  UINT = 4
  UART_TX_BUF_SIZE = 1
  MaxRead = 2
SYMMETRY Symmetry
INVARIANTS NoLostWakeup OutputMoves
PROPERTIES IsTerminal
