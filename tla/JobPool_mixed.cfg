SPECIFICATION Spec
CONSTANTS
  v = v  a = a  b = b  t = t  l1 = l1  l2 = l2  u1 = u1  u2 = u2
  Jobs = {v, a, t}
  NoJob = NoJob
  Lineages = {l1}
  Tasks = {}
  Standing = Standing
  KindOf <- MCKindOf
  LineageOf <- SameLineage
  Seeded = {l1}
  Cap <- OneOfEach
  MaxOpen = 2
  MaxAttempts = 2
  SettlementAttempts = 2
  ClaimsPerPass = 2
  NativeRequeue = FALSE
  ForeignBodies = FALSE
  MaxProcs = 2
  MaxFaults = 0
  MaxRevisions = 2
INVARIANTS LinearHistory
PROPERTIES CancellationWins
CHECK_DEADLOCK FALSE
