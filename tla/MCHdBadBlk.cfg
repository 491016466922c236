\* Two blocks, a pool of two, and a directory of two entries: the third bad
\* block, one of the pool say, finds it full.  The system stops when MaxIssue
\* requests are done.
SPECIFICATION Spec
CHECK_DEADLOCK FALSE
CONSTANTS
  NULL = NULL
  q1 = q1
  q2 = q2
  Req = {q1, q2}
  Blk = {1, 2}
  beg_relblk = 10
  max_relblk = 11
  MAX_SWRETRY = 3
  MAX_BBENTRIES = 2
  ReadOnlyReloc = {FALSE}
  MaxIssue = 3
  MaxErr = 5
  MaxCrash = 2
INVARIANTS
  TypeOK
  NoTrap
  AckedIsFound
  RestartFinds
  OneCopyWhole
  TableIsDirectory
PROPERTY EveryRequestReturns
