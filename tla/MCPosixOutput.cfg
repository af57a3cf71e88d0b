CONSTANTS
  buffer_capacity = 3
  MaxLine = 4
  MaxBytes = 7
  MaxFailures = 2
  MaxOps = 1
SPECIFICATION Spec
INVARIANTS AllocatesAfterSubmit ExactlyOnce AtLeastOnce NoHoleAfterTruncate
CHECK_DEADLOCK FALSE
