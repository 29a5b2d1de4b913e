CONSTANTS
  Size = 2
  Control = {"LSHIFT"}
  MaxKeys = 2
  MaxStart = 3
SPECIFICATION Spec
INVARIANT OnlyTyped
CHECK_DEADLOCK FALSE
