SPECIFICATION CertsFairSpec
CONSTANTS
  Duration = 7
  RenewalWindow = 3
  StatusInterval = 1
  MinRequeue = 2
  MaxRequeue = 3
  MaxFaults = 0
PROPERTY TrustConverges
CHECK_DEADLOCK FALSE
