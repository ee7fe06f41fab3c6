SPECIFICATION AllocSpec
CONSTANTS
  MaxWorkers = 1
  Allocs = {a1}
  NoAlloc = NoAlloc
  Min = 0
  Max = 1
  HasSchedule = FALSE
  DistinctSeconds = TRUE
  MaxFaults = 0
INVARIANT AnswersArrive
CHECK_DEADLOCK FALSE
