CONSTANTS
  Sinks = {a}
  control = control
  Names = {x}
  None = None
  RingCap = 2
  BufLines = 1
  MaxLogs = 2
  MaxDrops = 1
  MaxPending = 2
  Worker = TRUE
SPECIFICATION LiveSpec
PROPERTY DropsReported
CHECK_DEADLOCK FALSE
