CONSTANTS
  en0 = en0
  en1 = en1
  p1 = p1
  p2 = p2
  full = full
  jumbo = jumbo
  Default = Default
  Unset = Unset
  Nothing = Nothing
  Interfaces = {en0, en1}
  Pids = {p1, p2}
  Media = {Default, full}
  MTUs = {Default, jumbo}
  Faults = {"media", "mtu", "fork", "ifconfig"}
  Options <- MCOptions
  MaxChanges = 4
SPECIFICATION Spec
INVARIANTS LinkInv MTUSettles
SYMMETRY Symmetry
\* the changes are bounded
CHECK_DEADLOCK FALSE
