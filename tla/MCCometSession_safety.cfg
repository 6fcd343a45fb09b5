SPECIFICATION Spec
CONSTANTS
  Servers = {s1, s2}
  Devices = {d1}
  Conns = {c1, c2, c3}
  WaitLimit = 1
  ExpireTicks = 2
  MaxOverlaps = 1
  MaxFaults = 1
  MaxExits = 1
  None = None
SYMMETRY Symmetry
INVARIANTS
  OneSession
  SessionFindable
  MapEntriesAlive
  RegistryBacked
PROPERTY MapNeverReplaced
