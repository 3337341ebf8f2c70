CONSTANTS
  a = a
  b = b
  k1 = k1
  Partial = Partial
  Sessions = {a, b}
  Clients = {a}
  Keys = {k1}
  Settings <- Circumstances
SPECIFICATION HelperSpec
INVARIANTS HelperInv LocksAgree
PROPERTY ClientLosesNothing
