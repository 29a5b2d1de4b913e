CONSTANTS
  AddrSpace = 13
  Entries = 3
  PageBytes = 4
  MemUpper = 3
  Regions <- PlainMap
  Image = {6}
SPECIFICATION ImageSpec
INVARIANT StackIntegrity
CHECK_DEADLOCK FALSE
