SPECIFICATION WRFairSpec
CONSTANTS
  MaxWorkers = 1
  Allocs = {a1}
  NoAlloc = NoAlloc
  MaxFaults = 2
INVARIANTS WRTypeOK PodUnderFinalizer
PROPERTIES NeverReprovisioned ServingPodKept DeletionCompletes ExpiredReclaimed
CHECK_DEADLOCK FALSE
