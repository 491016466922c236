SPECIFICATION Spec
CONSTANTS
  NMir = 2 TRKPPART = 2
  Volumes <- MCNearby
  MaxIssue = 3 MaxErr = 2 MaxMissing = 0 MaxOff = 0 MaxFaults = 2
CHECK_DEADLOCK FALSE
INVARIANTS TriesAll
