CONSTANTS
  Block = 4
  Radix = 2
  Places = 3
  MaxHeaders = 3
  Cbuf = 3
  Mapped = 48
  Locs = {4, 20}
  Archives <- Small
SPECIFICATION Spec
INVARIANTS Walked Listed
CHECK_DEADLOCK FALSE
