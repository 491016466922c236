SPECIFICATION Spec
CONSTANTS
  r1 = r1
  r2 = r2
  r3 = r3
  c1 = c1
  m1 = m1
  m2 = m2
  l1 = l1
  MAXPVS = 2
  Req = {r1}
  Cfg = c1
  Lp = {l1}
  Mirror = {m1, m2}
  SEQNUMS = 7
  Quorums = {1}
  InitPv = {0}
  InitSa = {0}
  FailingPv = {1}
  IoTypes = {"SA_STALEPP"}
  ConfigOps = {"HD_KADDVGSA", "HD_KADDPV", "HD_KEXTEND", "HD_MWC_REC"}
  MP = TRUE
  FastResync = FALSE
  NULL = NULL
SYMMETRY Symmetric
INVARIANTS
  ConfigRecorded
PROPERTIES
  ImageStable
CHECK_DEADLOCK FALSE
