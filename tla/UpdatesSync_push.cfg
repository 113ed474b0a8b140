SPECIFICATION Spec
CONSTANTS
  MaxUpdates = 3
  Kinds = {"short", "full", "combined", "own"}
  Strangers = {2}
  Faults = {"repeat", "error", "tooLong"}
  MaxFaults = 1
  MaxWrites = 2
INVARIANTS NothingLost QueueWatched
CHECK_DEADLOCK FALSE
