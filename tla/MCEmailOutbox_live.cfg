SPECIFICATION FairSpec
CONSTANTS
  r1 = r1
  r2 = r2
  k1 = k1
  NoKey = NoKey
  NoRow = NoRow
  Rows = {r1, r2}
  Workers = {w1}
  DedupKey <- NoKeys
  MaxSendAttempts = 2
  SweepLimit = 1
  MaxCopies = 1
  FaultBudget = 2
  AmbiguousProvider = TRUE
PROPERTIES
  EventuallySettled
