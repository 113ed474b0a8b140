SPECIFICATION EitherSpec
CONSTANTS
  main = main
  push = push
  other = other
  dc1 = dc1
  dc2 = dc2
  r = r
  s = s
  f = f
  Conns = {main, push, other}
  Push = {push}
  Dc <- OfDc
  Requests = {r, s, f}
  On <- OnTheir
  GetFutureSalts = {f}
  Skews <- Off
  Slots = 16
  Behind = 2
  Ahead = 1
  Period = 3
  Life = 2
  MaxTime = 6
  MaxFlight = 2
  MaxPings = 2
  MaxChanges = 1
  MaxPacked = 1
  MaxDrops = 1
  MaxMessages = 2
  Answers = {2}
  Unreadable = {}
  Kept = 1
  Forgotten = 1
  MaxPackets = 2
  MaxId = 2
  MaxLosses = 1
  MaxSessions = 2
INVARIANTS ClockIsSafe 
PROPERTIES  MessagesConfirmed
CHECK_DEADLOCK FALSE
