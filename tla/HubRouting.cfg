SPECIFICATION Spec
CONSTANTS
  s1 = s1
  s2 = s2
  s3 = s3
  Sessions = {s1, s2, s3}
  Opened = {s1, s2}
  Tasks = {t1, t2, t3}
  Requests = {r1}
  ProjectOf <- Projection
  None = none
  MaxFaults = 1
SYMMETRY Symmetry
INVARIANTS
  RoutingSound
  NoCrossTalk
  MemoryIsolated
CHECK_DEADLOCK FALSE
