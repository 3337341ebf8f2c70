CONSTANTS
  a = a
  b = b
  k1 = k1
  p1 = p1
  p2 = p2
  v1 = v1
  d1 = d1
  NoData = NoData
  NoSession = NoSession
  Sessions = {a, b}
  RootSessions = {a}
  Keys = {k1}
  Patterns = {}
  Matches = {}
  Data = {d1}
  Dates = {d1}
  Kinds = {"port", "fd", "signal"}
  MaxRefs = 0
  Allow = {"WatchUnderLock", "RecreateSessionKey", "RegisterTwice", "NoPortNotification"}
SPECIFICATION Spec
\* a fault ends the server
CHECK_DEADLOCK FALSE
INVARIANTS LockOwner NothingLeftOver
