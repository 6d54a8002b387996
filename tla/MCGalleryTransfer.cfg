CONSTANTS
  N = 2
  Plans <- AllPlans
  MaxSends = 3
SPECIFICATION TransferLiveSpec
INVARIANTS
  ReceiptsKept
  OrderHolds
  StopIsHeard
PROPERTIES
  KeepsPromise
  NeverStuckRunning
CHECK_DEADLOCK FALSE
