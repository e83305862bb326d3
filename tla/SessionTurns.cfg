SPECIFICATION FairSpec
CONSTANTS
  Requests = {r1, r2}
  Tasks = {t1}
  MaxSeq = 4
  MaxFaults = 1
INVARIANTS
  StatusTracks
  RowSound
PROPERTIES
  TurnsEnd
CHECK_DEADLOCK FALSE
