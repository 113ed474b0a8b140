SPECIFICATION SomeSpec
CONSTANTS
  MaxSends = 3
  MaxChannel = 2
  MaxRetry = 1
  MaxLost = 1
INVARIANT ChainSafe
PROPERTY EverySendEnds
CHECK_DEADLOCK FALSE
