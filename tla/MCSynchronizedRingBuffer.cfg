CONSTANTS
  Capacity = 4
  Modulus = 8
  Records <- MCRecords
SPECIFICATION LiveSpec
INVARIANTS SpanIsFree ReadIntact
PROPERTIES ClosedIsUntouched ImplementsQueue PostReturns
