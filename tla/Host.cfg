SPECIFICATION HostSpec
CONSTANTS
  p1 = p1
  p2 = p2
  r1 = r1
  r2 = r2
  Projects = {p1, p2}
  Roots = {r1, r2}
  Layouts <- SeparateOrShared
  Ports = {1, 2}
  StopLevel = TRUE
  RemoveLevel = TRUE
  MaxOutages = 1
  Boundaries = {b1, b2}
  Workers = {w1, w2, w3}
  MaxRestarts = 1
  Editors = {e1, e2}
  MaxVersion = 4
INVARIANTS
  
  NoRetryStorm
  NothingUnseenReplaced
PROPERTIES
  
  SlotReturned
CHECK_DEADLOCK FALSE
