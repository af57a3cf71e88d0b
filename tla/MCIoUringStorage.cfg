CONSTANTS
  queue_size = 3
  batch_size = 2
  buffer_capacity = 2
  None = None
  Rotated = {TRUE}
  MaxBytes = 5
  MaxFaults = 2
  MaxRefused = 1
  MaxReopens = 1
SPECIFICATION LiveSpec
INVARIANTS BuffersConserved PendingExact BytesInPlace DrainedIsWritten NoHoles
PROPERTY CallsReturn
CHECK_DEADLOCK FALSE
