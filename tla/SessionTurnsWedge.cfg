SPECIFICATION Spec
CONSTANTS
  Requests = {r1}
  Tasks = {t1}
  MaxSeq = 4
  MaxFaults = 0
SYMMETRY Symmetry
INVARIANTS NotWedged
CHECK_DEADLOCK FALSE
