SPECIFICATION FairSpec
CONSTANTS
  Requests = {r1}
  Clients = {c1}
  QueueCap = 1
  MaxWaiting = 1
  None = None
PROPERTY ConnectionsGoOn
CHECK_DEADLOCK FALSE
