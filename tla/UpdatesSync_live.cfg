SPECIFICATION FairSpec
CONSTANTS
  MaxUpdates = 3
  Kinds = {"short", "combined", "own"}
  Strangers = {2}
  Faults = {"lose", "crash"}
  MaxFaults = 1
  MaxWrites = 1
INVARIANT DiskNothingLost
PROPERTY EveryUpdateArrives
CHECK_DEADLOCK FALSE
