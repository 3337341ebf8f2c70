CONSTANTS
  a = a
  b = b
  k1 = k1
  p1 = p1
  p2 = p2
  v1 = v1
  d1 = d1
  NoData = NoData
  NoSession = NoSession
  Sessions = {a, b}
  RootSessions = {a, b}
  Keys = {k1}
  Patterns = {p1, p2}
  Matches <- TwoPatterns
  Data = {v1, d1}
  Dates = {d1}
  Kinds = {}
  MaxRefs = 3
  Allow = {}
SPECIFICATION Spec
INVARIANTS TypeOK SessionKeyOwners PatternLists WatcherRefs ClosedLeavesNoTrace NoFault
PROPERTIES RollbackRestores ImplementsPubSub
SYMMETRY SessionSymmetry
