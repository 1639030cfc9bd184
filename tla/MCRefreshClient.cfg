SPECIFICATION ClientFairSpec
CONSTANTS
  a = a
  b = b
  Tabs = {a, b}
  Calls = {c1, c2}
  TabOf <- BothOfA
  MaxGen = 2
CHECK_DEADLOCK FALSE
INVARIANTS
  ClientTypeOK
  ReplayHasCause
  CookieCurrent
  QueueHasRefresh
PROPERTIES
  CallsEnd
