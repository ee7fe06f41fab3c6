SPECIFICATION WRSpec
CONSTANTS
  MaxWorkers = 1
  Allocs = {a1}
  NoAlloc = NoAlloc
  MaxFaults = 2
INVARIANT EndpointCurrent
CHECK_DEADLOCK FALSE
