SPECIFICATION Spec
CONSTANTS
  Conns = {c1, c2}
  Plans <- MCPlans
  Types = {1, 4}
  HeadSize = 3
  MaxBody = 2
  MaxClients = 1
  Width = 3
  ReadTimeout = 2
  HbTimeout = 3
SYMMETRY Symmetry
INVARIANTS
  Framed
  DriftBounded
  ActiveFresh
CHECK_DEADLOCK FALSE
