CONSTANTS
  namer = namer
  prefs = prefs
  monitor = monitor
  Missing = Missing
  NULL = NULL
  Bundles = {namer, prefs, monitor}
  Requirements <- SomeRequires
  Entries = {{"load", "start", "prime", "stop"}}
  MaxLocks = 1
  MaxTerms = 2
SPECIFICATION FairSpec
INVARIANTS LoaderInv RequiredFirst
PROPERTY TermExits
\* the process ends, or is never asked to
CHECK_DEADLOCK FALSE
