SPECIFICATION FairSpec
CONSTANTS
  r1 = r1
  r2 = r2
  r3 = r3
  c1 = c1
  m1 = m1
  m2 = m2
  l1 = l1
  MAXPVS = 2
  Req = {r1, r2}
  Cfg = c1
  Lp = {l1}
  Mirror = {m1, m2}
  SEQNUMS = 11
  Quorums = {1}
  InitPv = {0, 1}
  InitSa = {0, 1, 2}
  FailingPv = {0, 1}
  IoTypes = {"SA_STALEPP", "SA_FRESHPP"}
  ConfigOps = {}
  MP = FALSE
  FastResync = FALSE
  NULL = NULL
INVARIANTS
  TypeOK
  StoppedIsCurrent
  NewestIsCurrent
  StaleRecorded
PROPERTIES
  EveryRequestReturns
