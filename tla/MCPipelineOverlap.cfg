SPECIFICATION OverlapSpec
CONSTANTS
  Sessions = {s1, s2, s3}
  Jobs = {j1}
  Candidates = {c1, c2}
  Applications = {a1, a2}
  Null = Null
  AdminTargets = {"APPROVED_BY_ADMIN"}
  CompanyTargets = {"HIRED"}
SYMMETRY OverlapSymmetry
CHECK_DEADLOCK FALSE
INVARIANTS
  TypeOK
  OneOpenApplicationPerPair
  ClosedHasAnchor
  StrandedHasCause
  ToldOnce
PROPERTIES
  PurgePreservesIfAlone
