SPECIFICATION EitherSpec
CONSTANTS
  Files = {1, 2, 3}
  Forced = 2
  MaxLoads = 3
  MaxCancels = 1
  MaxReports = 2
  MaxPending = 1
  Size = 5
  Chunk = 2
  MaxRequests = 3
  Faults = {"error", "throw", "crash", "cancel"}
  MaxFaults = 2
  MaxStarts = 3
INVARIANTS LaneSafe DownloadSafe
PROPERTIES LaneMoves DownloadEnds
CHECK_DEADLOCK FALSE
