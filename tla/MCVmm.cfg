CONSTANTS
  Entries = 11
  Frames = 11
  Early = 1
  Available = {6, 7, 8, 9, 10}
  LowFrames = 8
  StackDir = 8
  HeapStart = 75
  HeapPages = 4
  Data <- Words
SPECIFICATION Spec
INVARIANTS Windows Mapped Faults
PROPERTY Isolated
CHECK_DEADLOCK FALSE
