SPECIFICATION Spec
CONSTANTS
  RegIds = {r1}
  WithUser = {r1}
  Topics = {t1, t2, t3}
  SendIds = {}
  MaxTopics = 2
  MaxSendIds = 1
  MaxMsg = 2
  MaxFaults = 1
  Workers = {w1}
  QueueCap = 2
  None = None
SYMMETRY Symmetry
INVARIANTS
  AckStored
  ListsStored
PROPERTIES
  LastMsgIdKept
