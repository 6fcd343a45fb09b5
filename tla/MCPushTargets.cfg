SPECIFICATION MCSpec
CONSTANTS
  Devices = {d1, d2}
  Profiles <- MCProfiles
  Messages <- MCMessages
  PageSize = 1
  MaxTime = 2
  Skews = {0, 1}
  None = None
INVARIANTS
  PushedRight
  ReachesAddressed
PROPERTY
  PushEnds
CHECK_DEADLOCK FALSE
