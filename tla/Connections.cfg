SPECIFICATION EitherSpec
CONSTANTS
  Conns = {g, d}
  Generic = {g}
  Addresses = 2
  Good = {1}
  MaxTasks = 1
  MaxDrops = 2
  MaxSuspends = 1
  MaxOffline = 1
  Actions = {h1, h2}
  First = h1
  MaxAttempts = 5
  MaxCuts = 2
  MaxRefusals = 1
  MaxItems = 3
  Streams <- ItemStreams
  Classes = {6, 12}
  Scrap = 6
  MaxTaken = 1
INVARIANTS  KeySafe StreamIsSafe
PROPERTIES ConnectionKept KeyComes
CHECK_DEADLOCK FALSE
