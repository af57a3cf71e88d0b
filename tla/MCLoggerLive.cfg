CONSTANTS
  Sinks = {a, b}
  control = control
  Names = {x}
  None = None
  RingCap = 1
  BufLines = 1
  MaxLogs = 1
  MaxDrops = 1
  MaxPending = 2
  Worker = FALSE
SPECIFICATION LiveSpec
 
PROPERTIES CallsReturn DestructorReturns DueFlushHappens
CHECK_DEADLOCK FALSE
