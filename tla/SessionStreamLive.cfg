SPECIFICATION FairSpec
CONSTANTS
  Committers = {worker}
  Seeder = worker
  SeedLen = 1
  Widths = {1}
  QueueSize = 1
  MaxLog = 2
  MaxPush = 3
  MaxBacklog = 1
  MaxWire = 2
  MaxBatch = 1
  MaxFaults = 1
INVARIANT PushesContiguous
PROPERTY CatchesUp
