CONSTANTS
  Lambdas <- MCLambdas
  Arguments <- MCArguments
  Ptr = 2
  Capacity = 16
  MaxArgs = 2
  MaxPosts = 2
  Threads = {s}
  owner = s
  App = App
  None = None
  Regions = 3
  MaxRings = 2
SPECIFICATION RingSpec
INVARIANTS ReaderAgreesWithWriter NeverOverwritesUnread TruncatesOnlyTooLong
           OwnersKeepMemory NothingLeaked RecordsInOwnMemory
CHECK_DEADLOCK FALSE
