SPECIFICATION Spec
CONSTANTS
  Req = {r1, r2, r3, r4}
  Lv = {l1}
  Trk = {0}
  Page = {p1, p2}
  Cpu = {c1, c2}
  WORKQ_SIZE = 1
  NPbuf = 2
  MaxList = 2
  NULL = NULL
  Other = Other
SYMMETRY Symmetry
INVARIANTS TypeOK SerialAccess BlockedByOlder ClosedIsQuiet Redriven
PROPERTIES QuietIsQuiet
