SPECIFICATION Spec
CONSTANTS
  Requests = {r1, r2}
  Clients = {c1, c2}
  QueueCap = 1
  MaxWaiting = 1
  None = None
SYMMETRY Symmetry
INVARIANTS
  NoCrossTalk
  ChannelsBacked
PROPERTIES
  CommandSpec
CHECK_DEADLOCK FALSE
