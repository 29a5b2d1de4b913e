CONSTANTS
  WORD = 40
  HDR = 1
  PAGE = 4
  HEAP_START = 24
  TablePages = 2
  Frames = 5
  Requests = {1, 3, 4, 13, 39}
  LateCalls = 2
SPECIFICATION FairSpec
INVARIANTS LiveIntact Tiled Coalesced PagesReturned
PROPERTY CallReturns
CHECK_DEADLOCK FALSE
