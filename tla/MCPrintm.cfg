CONSTANTS
  Bits = 6
  Before = {1, 3, 20}
  Width = 4
  Height = 2
  Tab = 2
  BufSize = 9
  Header <- OneDash
  Formats <- Lines
  Numerals <- Numbers
  Echoed <- Typed
  Garbage <- Found
  MaxCalls = 3
SPECIFICATION Spec
INVARIANTS Shown Faithful NumbersRead
CHECK_DEADLOCK FALSE
