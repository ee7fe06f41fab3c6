SPECIFICATION AllocSpec
CONSTANTS
  MaxWorkers = 2
  Allocs = {a1, a2}
  NoAlloc = NoAlloc
  Min = 0
  Max = 1
  HasSchedule = FALSE
  DistinctSeconds = TRUE
  MaxFaults = 0
INVARIANT MaxRespected
CHECK_DEADLOCK FALSE
