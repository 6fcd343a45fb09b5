SPECIFICATION FairSpec
CONSTANTS
  Servers = {s1, s2}
  Devices = {d1}
  Conns = {c1, c2}
  WaitLimit = 1
  ExpireTicks = 2
  MaxOverlaps = 0
  MaxFaults = 0
  MaxExits = 2
  None = None
PROPERTIES
  LeaseSpec
  StaleEntryGone
  InitEnds
