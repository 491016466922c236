SPECIFICATION FairSpec
CONSTANTS
  r1 = r1
  r2 = r2
  r3 = r3
  c1 = c1
  m1 = m1
  m2 = m2
  l1 = l1
  MAXPVS = 2
  Req = {r1}
  Cfg = c1
  Lp = {l1}
  Mirror = {m1, m2}
  SEQNUMS = 7
  Quorums = {1}
  InitPv = {0, 1}
  InitSa = {0, 2}
  FailingPv = {0, 1}
  IoTypes = {"SA_PVMISSING"}
  ConfigOps = {"HD_KMISSPV", "HD_KREMPV", "HD_KDELVGSA", "HD_KDELPV", "HD_KEXTEND", "HD_KREDUCE"}
  MP = FALSE
  FastResync = FALSE
  NULL = NULL
INVARIANTS
  NobodyStranded
PROPERTIES
  ConfigReturns
CHECK_DEADLOCK FALSE
