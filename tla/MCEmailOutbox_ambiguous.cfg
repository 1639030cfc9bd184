SPECIFICATION Spec
CONSTANTS
  r1 = r1
  r2 = r2
  k1 = k1
  NoKey = NoKey
  NoRow = NoRow
  Rows = {r1}
  Workers = {w1, w2}
  DedupKey <- NoKeys
  MaxSendAttempts = 2
  SweepLimit = 1
  MaxCopies = 2
  FaultBudget = 1
  AmbiguousProvider = TRUE
INVARIANTS
  AtMostOnce
