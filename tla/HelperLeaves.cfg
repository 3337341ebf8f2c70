CONSTANTS
  a = a
  b = b
  k1 = k1
  Partial = Partial
  Sessions = {a, b}
  Clients = {a}
  Keys = {k1}
  Settings <- Leaving
SPECIFICATION HelperFairSpec
PROPERTIES HelperLeaves LockEnds
