SPECIFICATION FairSpec
CONSTANTS
  Requests = {r1}
  Clients = {c1, c2}
  QueueCap = 1
  MaxWaiting = 1
  None = None
PROPERTIES
  CallsReturn
  HandlersEnd
CHECK_DEADLOCK FALSE
