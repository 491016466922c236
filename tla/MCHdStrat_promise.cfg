SPECIFICATION FairSpec
CONSTANTS
  Req = {r1, r2, r3}
  Lv = {l1}
  Trk = {0, 2}
  Page = {p1}
  Cpu = {c1}
  WORKQ_SIZE = 2
  NPbuf = 1
  MaxList = 1
  NULL = NULL
  Other = Other
PROPERTIES ServesInOrder EveryRequestReturns
