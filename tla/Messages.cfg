SPECIFICATION EitherSpec
CONSTANTS
  MaxMessages = 1
  Files <- OneFile
  Blocked = {}
  MaxObjects = 2
  MaxRandom = 2
  MaxRefusals = 1
  MaxCancels = 1
  MaxRetries = 1
  MaxAcks = 1
  MaxTold = 1
  MaxCrash = 1
  MaxEvents = 3
  Secrets = {m1, m2}
  MaxTime = 2
  MaxKills = 1
INVARIANTS  TimersSafe
PROPERTIES EveryMessageEndsHere TimersRunOut
CHECK_DEADLOCK FALSE
