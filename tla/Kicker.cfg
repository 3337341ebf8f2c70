CONSTANTS
  script = script
  both = both
  none = none
  k1 = k1
  k2 = k2
  p1 = p1
  p2 = p2
  NoTarget = NoTarget
  Targets = {script, both, none}
  Posts = {both}
  Execs = {script, both}
  Keys = {k1, k2}
  Pids = {p1, p2}
  Faults = {"post", "argument", "fork"}
  MaxChanges = 5
SPECIFICATION FairSpec
INVARIANTS KickerInv OneScript
PROPERTY KicksHappen
\* every target may be released
CHECK_DEADLOCK FALSE
