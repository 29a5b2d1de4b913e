CONSTANTS
  Line = {0, 8}
  Drivers = {0}
  Faults = {0, 14}
  Codes = {2}
  Deadlines = 4
  Half = 4
  Sleeps = {2, 3}
  MaxFrames = 2
SPECIFICATION FairSpec
INVARIANTS Dispatched Quiet
PROPERTIES PanicFinal WakesLate SleepEnds Served
CHECK_DEADLOCK FALSE
