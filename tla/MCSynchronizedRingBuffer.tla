---------------------- MODULE MCSynchronizedRingBuffer ----------------------
EXTENDS SynchronizedRingBuffer

Rec(kind, id, len, vlen, vcopy) ==
  [kind |-> kind, id |-> id, len |-> len, vlen |-> vlen, vcopy |-> vcopy]

\* A record without arguments, one with a lambda, a string that fits in an
\* empty ring, a string and a vcopy that never fit, and close.
MCRecords ==
  { Rec("log", 1, 1, 0, FALSE), Rec("log", 2, 2, 0, FALSE),
    Rec("log", 3, 2, 1, FALSE), Rec("log", 4, 2, 3, FALSE),
    Rec("log", 5, 2, 3, TRUE), Rec("close", 6, 2, 0, FALSE) }
=============================================================================
