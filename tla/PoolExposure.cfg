SPECIFICATION ExposureFairSpec
CONSTANTS
  PoolSpecs <- MCSpecs
  OldTCPRoute = TRUE
  Allowed = {"ingress", "gatewayapi"}
  Ports = {1, 2}
  DefaultPort = 1
  Unset = Unset
  Min = 1
  Max = 1
  Slots = {w1}
  WorkerPhases = {"Allocated"}
  Requests = {r1}
  MaxEdits = 1
  MaxFaults = 1
INVARIANTS ExposureTypeOK OnlyPublishedEndpoints
CHECK_DEADLOCK FALSE
PROPERTIES ExposureConverges StatusConverges StatusSettles
