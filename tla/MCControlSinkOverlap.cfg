CONSTANTS
  Threads = {t1, t2}
  None = None
  Syncers = {t1}
  Overlap = TRUE
  Capacity = 2
  MaxCalls = 1
SPECIFICATION Spec
INVARIANT ThreadSafe
CHECK_DEADLOCK FALSE
