SPECIFICATION FairSpec
CONSTANTS
  v = v  a = a  b = b  t = t  l1 = l1  l2 = l2  u1 = u1  u2 = u2
  Jobs = {v, a}
  NoJob = NoJob
  Lineages = {l1}
  Tasks = {}
  Standing = Standing
  KindOf <- MCKindOf
  LineageOf <- SameLineage
  Seeded = {}
  Cap <- OneOfEach
  MaxOpen = 2
  MaxAttempts = 2
  SettlementAttempts = 2
  ClaimsPerPass = 2
  NativeRequeue = TRUE
  ForeignBodies = FALSE
  MaxProcs = 1
  MaxFaults = 2
  MaxRevisions = 2
PROPERTIES ShutdownEnds QueuedIsClaimed CancelSettles
CHECK_DEADLOCK FALSE
