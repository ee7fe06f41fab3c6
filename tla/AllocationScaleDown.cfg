SPECIFICATION AllocSpec
CONSTANTS
  MaxWorkers = 2
  Allocs = {a1}
  NoAlloc = NoAlloc
  Min = 1
  Max = 2
  HasSchedule = FALSE
  DistinctSeconds = TRUE
  MaxFaults = 0
PROPERTY ScaleDownSparesAllocated
CHECK_DEADLOCK FALSE
