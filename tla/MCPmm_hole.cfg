CONSTANTS
  AddrSpace = 13
  Entries = 3
  PageBytes = 4
  MemUpper = 3
  Regions <- HoleMap
  Image = {7}
SPECIFICATION ImageSpec
INVARIANTS StackIntegrity StackMapped FramesAccounted ImageKept
PROPERTY Implements
CHECK_DEADLOCK FALSE
