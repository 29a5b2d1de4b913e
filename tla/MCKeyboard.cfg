CONSTANTS
  Size = 3
  Control = {"CONTROL", "CAPSLOCK"}
  MaxKeys = 4
  MaxStart = 3
SPECIFICATION FairSpec
INVARIANT Accounted
PROPERTIES InOrder RightMap Answered Emptied
CHECK_DEADLOCK FALSE
