SPECIFICATION PoolFairSpec
CONSTANTS
  MaxWorkers = 2
  Allocs = {}
  NoAlloc = NoAlloc
  Min = 1
  Max = 4
  HasSchedule = FALSE
  DistinctSeconds = TRUE
  MaxFaults = 1
PROPERTY MinReadyUnlessWedged
CHECK_DEADLOCK FALSE
