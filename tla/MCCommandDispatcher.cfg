CONSTANTS
  Clients = {a, b}
  Paths = {p, q}
  None = None
  Fds = {f1, f2}
  Room = 1
  MaxReplies = 2
  MaxSends = 2
  MaxSets = 2
  MaxFaults = 1
SPECIFICATION LiveSpec
INVARIANTS RepliesReachTheirClient ConnectionsTracked NoReadyEntryMissed EofMeansAnswered NoStaleSocketFile
PROPERTY CommandsAreAnswered
CHECK_DEADLOCK FALSE
