SPECIFICATION Spec
CONSTANTS
  Req = {r1, r2}
  NPbuf = 2
  striping_width = 2 part_stripes = 2 stripe_blks = 2 NSets = 2
  Extent <- MCExtent Defects <- MCDefects Errno = {5, 16}
  MaxIssue = 2 MaxErr = 1 MaxMissing = 1
CHECK_DEADLOCK FALSE
INVARIANTS TypeOK InPlace ReturnedUpToMissed
PROPERTY EveryRequestReturns
