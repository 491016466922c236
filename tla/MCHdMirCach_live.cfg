SPECIFICATION Spec

CONSTANTS
  r1 = r1 r2 = r2 r3 = r3 t1 = t1 t2 = t2 t3 = t3 l1 = l1 l2 = l2 p1 = p1 p2 = p2 p3 = p3
  Req = {r1,r2} Tg = {t1,t2} Pv = {p1, p2, p3}
  Lp = {l1, l2} Part <- MCPart Copies <- MCCopies
  ca_size = 1 NPvWait = 3 NPbuf = 3 Quorum = 2
  MayFail = {p2} MaxIssue = 3 MaxClean = 1 MaxCrash = 0 MaxReturn = 1
  NULL = NULL
CHECK_DEADLOCK FALSE
PROPERTY EveryWriteReturns
