SPECIFICATION Spec
CONSTANTS
  Committers = {worker}
  Seeder = worker
  SeedLen = 0
  Widths = {0, 1, 2}
  QueueSize = 1
  MaxLog = 3
  MaxPush = 0
  MaxBacklog = 1
  MaxWire = 1
  MaxBatch = 1
  MaxFaults = 1
INVARIANTS TypeOK NoGap
PROPERTY ImplementsFeed
