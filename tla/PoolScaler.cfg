SPECIFICATION CalmPoolSpec
CONSTANTS
  MaxWorkers = 3
  Allocs = {}
  NoAlloc = NoAlloc
  Min = 1
  Max = 4
  HasSchedule = FALSE
  DistinctSeconds = TRUE
  MaxFaults = 0
INVARIANT PoolTypeOK
PROPERTY ScaleDownKeepsMin
CHECK_DEADLOCK FALSE
