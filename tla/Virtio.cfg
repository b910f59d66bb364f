SPECIFICATION LiveSpec
CONSTANTS
  None = None
  Procs = {p, q, r}
  NUM = 8
  Index = 16
INVARIANTS ChainsApart DeviceHasLiveChains ReturnsAfterTransfer
PROPERTIES RequestsReturn
