CONSTANTS
  Sinks = {a, b}
  control = control
  Names = {x, y}
  None = None
  RingCap = 2
  BufLines = 1
  MaxLogs = 2
  MaxDrops = 0
  MaxPending = 2
  Worker = TRUE
SPECIFICATION Spec
SYMMETRY Symmetry
INVARIANTS NoMessageLost SyncIsComplete TouchesOpenSinks OneHandle CommandsReachSinks PrintedName GoneIsComplete
CHECK_DEADLOCK FALSE
