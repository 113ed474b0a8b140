SPECIFICATION SomeSpec
CONSTANTS
  g1 = g1
  g2 = g2
  d1 = d1
  Requests = {g1, g2, d1}
  Classes = {"generic", "download"}
  Class <- OneDownload
  Limit <- OneSlotEach
  RetryMax = 2
  MaxStage = 2
  MaxId = 2
  MaxChannel = 3
  MaxReset = 1
  MaxCancel = 1
INVARIANTS SlotsRespected   CompletedIsRemoved CompletesOnce
PROPERTY KeepsPromise
CHECK_DEADLOCK FALSE
