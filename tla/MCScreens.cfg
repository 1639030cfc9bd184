SPECIFICATION ScreensSpec
CONSTANTS
  LastRow = 2
  PageSize = 1
  MaxShown = 2
  MaxCalls = 2
  LastSubject = 2
  MaxSubs = 2
  Cards <- TwoCards
  Stages = {"INTERVIEWING", "OFFER"}
  Intake = "APPROVED_BY_ADMIN"
  Moves = {m1, m2}
  MaxDrops = 2
  Queue = 2
  Patches = {p1, p2}
  MaxPatches = 3
  LastThing = 2
  MaxReads = 2
  MaxVersion = 2
  Job <- SomeJobs
  Step = 2
  Top = 10
  FieldTop = 8
  MinRows = 2
  MaxRows = 3
  LastKey = 4
  MaxTags = 2
  Tags <- SomeTags
  Folded <- FoldTags
  Tabs = {t1, t2, t3}
INVARIANTS
  ScreensTypeOK
  WaitingHasCause
  ToldTrue
  SentRight
  ListSound
  CardsSound
  PaneSound
  InputsSound
PROPERTY EditsKept
VIEW OwnState
CHECK_DEADLOCK FALSE
