SPECIFICATION FairSpec
CONSTANTS
  Nodes = {n1, n2, n3}
  ChCap = 1
  MaxFaults = 1
  None = None
  Keys = {k1, k2}
  BoxCap = 2
  Interval = 2
  MaxNotices = 3
  Ids = {1, 2}
INVARIANTS
  LivingStay
  RequestsKept
  AnswerRight
  LeaksExplained
PROPERTIES
  CatchesUp
  RequestsPushed
  NotifyAnswers
CHECK_DEADLOCK FALSE
