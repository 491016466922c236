SPECIFICATION Spec
CONSTANTS
  NMir = 3 TRKPPART = 2
  Volumes <- MCVolumes
  MaxIssue = 3 MaxErr = 1 MaxMissing = 1 MaxOff = 1 MaxFaults = 2
CHECK_DEADLOCK FALSE
INVARIANTS TypeOK OneStaysFresh ReadsCurrent FreshAgree ReadTriesAll NobodyForgotten
