SPECIFICATION FairSpec
CONSTANTS
  MaxMsg = 2
  BoxCap = 1
  Workers = {w1, w2}
  QueueCap = 1
  MaxFaults = 1
  None = None
INVARIANTS
  PublishedStored
  NothingSkipped
PROPERTIES
  InOrder
  Delivered
