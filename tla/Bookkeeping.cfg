SPECIFICATION AnySpec
CONSTANTS
  t1 = t1
  r1 = r1
  Threads = {t1, t2}
  Runnables = {r1, r2}
  Delay = 1
  MaxCalls = 3
  MaxTime = 0
  MaxSpurious = 1
  Requests = {1, 2, 3}
  Screens = {"chat", "profile"}
  Screen <- OfScreen
  Names = {m, n}
  Observers = {a, b}
  MaxDepth = 3
  MaxChanges = 4
INVARIANTS WaitsOnlyInCrowd QueueSafe GuidsAreSafe ObserversAreSafe
 
CHECK_DEADLOCK FALSE
