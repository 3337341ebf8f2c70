CONSTANTS
  en0 = en0
  en1 = en1
  off0 = off0
  off1 = off1
  Fresh = Fresh
  Down = Down
  Configs = {en0, en1}
  Offs = {off0, off1}
  Pids = {1, 2}
  RETRY_LIMIT = 3
  Faults = {"fail", "killed", "fork", "ioctl", "convert"}
  MayStop = TRUE
  MaxChanges = 3
SPECIFICATION FairSpec
INVARIANTS ATInv Settled SignIsRight
PROPERTY RetriesEnd
\* the changes are bounded
CHECK_DEADLOCK FALSE
