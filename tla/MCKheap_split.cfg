CONSTANTS
  WORD = 40
  HDR = 1
  PAGE = 4
  HEAP_START = 24
  TablePages = 2
  Frames = 5
  Requests = {1, 4}
  LateCalls = 3
SPECIFICATION Spec
INVARIANT LiveDisjoint
CHECK_DEADLOCK FALSE
