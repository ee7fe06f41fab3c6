SPECIFICATION CalmPoolSpec
CONSTANTS
  MaxWorkers = 3
  Allocs = {}
  NoAlloc = NoAlloc
  Min = 1
  Max = 4
  HasSchedule = FALSE
  DistinctSeconds = FALSE
  MaxFaults = 0
PROPERTY ScaleDownKeepsMin
CHECK_DEADLOCK FALSE
