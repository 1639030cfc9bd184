SPECIFICATION Spec
CONSTANTS
  r1 = r1
  r2 = r2
  k1 = k1
  NoKey = NoKey
  NoRow = NoRow
  Rows = {r1, r2}
  Workers = {w1, w2}
  DedupKey <- SharedKeys
  MaxSendAttempts = 3
  SweepLimit = 2
  MaxCopies = 2
  FaultBudget = 4
  AmbiguousProvider = FALSE
SYMMETRY WorkerSymmetry
INVARIANTS
  TypeOK
  AtMostOnce
  AtMostOncePerKey
  AttemptsBounded
  TerminalIsTruthful
  OrphanHasCause
  ExclusiveSend
  QuotaCountsSent
  MessageNamesCommittedRow
PROPERTIES
  ImplementsPromise
