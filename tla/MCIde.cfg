CONSTANTS
  Byte = 3
  Nibble = 2
  Heads = 2
  Spt = 2
  Drives <- ThreeDrives
  Lbas <- Edges
  Counts = {0, 1, 2}
  MaxCalls = 3
SPECIFICATION FairSpec
INVARIANTS Addressed ReadFaithful WriteExact LeftQuiet Durable
PROPERTY CallReturns
CHECK_DEADLOCK FALSE
