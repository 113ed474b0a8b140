SPECIFICATION EitherSpec
CONSTANTS
  Files = {1, 2}
  MaxUploads = 4
  MaxCancels = 1
  MaxPending = 1
  Size = 3
  Estimates = {0, 2, 3, 5}
  WideFrom = 2
  BigFrom = 2
  MaxErrors = 1
  MaxOps = 2
  MaxCrashes = 1
INVARIANTS UploadLaneSafe 
PROPERTY EveryUploadHeard
CHECK_DEADLOCK FALSE
