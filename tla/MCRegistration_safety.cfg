SPECIFICATION Spec
CONSTANTS
  RegIds = {r0, r1}
  WithUser = {r1}
  Topics = {t1}
  SendIds = {i1}
  MaxTopics = 1
  MaxSendIds = 1
  MaxMsg = 1
  MaxFaults = 1
  Workers = {w1, w2}
  QueueCap = 1
  None = None
SYMMETRY WorkerSymmetry
INVARIANTS
  MemoryBacked
  AckedOnly
  RegisteredStored
