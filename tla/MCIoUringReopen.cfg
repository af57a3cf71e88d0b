CONSTANTS
  queue_size = 3
  batch_size = 2
  buffer_capacity = 1
  None = None
  Rotated = {FALSE}
  MaxBytes = 3
  MaxFaults = 0
  MaxRefused = 0
  MaxReopens = 1
SPECIFICATION Spec
INVARIANT ReopenAppends
CHECK_DEADLOCK FALSE
