SPECIFICATION SomeSpec
CONSTANTS
  u = u
  f = f
  Dcs <- Three
  Users = {u}
  Medias = {f}
  MediaDc <- AtTwo
  Saved <- SavedBefore
  MaxRedirects = 2
  MaxFaults = 2
  MaxUpdates = 1
  MaxLogouts = 1
INVARIANT MoveSafe
 
CHECK_DEADLOCK FALSE
