SPECIFICATION LiveSpec
CONSTANTS
  g1 = g1
  g2 = g2
  d1 = d1
  Requests = {g1, g2}
  Classes = {"generic"}
  Class <- OneDownload
  Limit <- OneSlotEach
  RetryMax = 1
  MaxStage = 1
  MaxId = 2
  MaxChannel = 2
  MaxReset = 1
  MaxCancel = 0
PROPERTY EverySettled
CHECK_DEADLOCK FALSE
