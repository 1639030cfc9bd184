SPECIFICATION SessionsSpec
CONSTANTS
  Requests = {q1, q2}
  Tokens = {t1, t2}
  Links = {l1}
  Nil = Nil
  MaxFailed = 2
SYMMETRY SessionsSymmetry
CHECK_DEADLOCK FALSE
INVARIANTS
  EndedStaysEnded
