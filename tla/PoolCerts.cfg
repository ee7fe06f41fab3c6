SPECIFICATION CertsFairSpec
CONSTANTS
  Duration = 7
  RenewalWindow = 3
  StatusInterval = 1
  MinRequeue = 2
  MaxRequeue = 3
  MaxFaults = 1
INVARIANTS CertsTypeOK ReplacedCASignedNothing ServerNeverExpires
PROPERTIES ServerAndWorkerRestored ServingTrustConverges
CHECK_DEADLOCK FALSE
