SPECIFICATION AllocFairSpec
CONSTANTS
  MaxWorkers = 1
  Allocs = {a1}
  NoAlloc = NoAlloc
  Min = 0
  Max = 1
  HasSchedule = TRUE
  DistinctSeconds = TRUE
  MaxFaults = 2
PROPERTIES HandlersEnd AllocationEnds StuckAndFailedReplaced
CHECK_DEADLOCK FALSE
