CONSTANTS
  Threads = {t1, t2, t3}
  None = None
  Syncers = {t3}
  Overlap = FALSE
  Capacity = 2
  MaxCalls = 2
SPECIFICATION Spec
INVARIANT RecordsRunOnce
PROPERTY CallsReturn
CHECK_DEADLOCK FALSE
