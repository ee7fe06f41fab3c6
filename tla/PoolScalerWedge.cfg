SPECIFICATION PoolFairSpec
CONSTANTS
  MaxWorkers = 2
  Allocs = {}
  NoAlloc = NoAlloc
  Min = 1
  Max = 4
  HasSchedule = FALSE
  DistinctSeconds = TRUE
  MaxFaults = 1
PROPERTY MinReady
CHECK_DEADLOCK FALSE
