SPECIFICATION PartsSpec
CONSTANTS
  Requests = {q1, q2}
  Tokens = {t1, t2, t3}
  Links = {l1}
  Nil = Nil
  MaxFailed = 2
  Signups = {u1, u2}
  Mails = {t1, t2, t3}
  Callers = {q1, q2}
  Nobody = Nobody
  Keys = {t1, t2, t3}
  Apps = {b1}
  Workers = {q1, q2}
  NoFile = NoFile
  Zips = {e1, e2}
  Hands = {q1, q2}
  NoZip = NoZip
  MaxOrders = 2
SYMMETRY PartsSymmetry
INVARIANTS
  PartsTypeOK
  SingleUse
  SurvivorHasCause
  LockHolds
  ActivationSound
  TombstoneHasCause
  MissingHasCause
  ExportsSound
PROPERTIES
  NobodyPurgedInError
CHECK_DEADLOCK FALSE
