SPECIFICATION Spec
CONSTANTS
  Requests = {q1, q2, q3}
  Pkgs = {p1}
  Services = {s1, s2}
  MaxFailed = 1
  None = None
SYMMETRY Symmetry
INVARIANTS
  PackagesBacked
  AppsFound
  StatsConsistent
  SnapshotBounded
CHECK_DEADLOCK FALSE
