SPECIFICATION Spec
CONSTANTS
  v = v  a = a  b = b  t = t  l1 = l1  l2 = l2  u1 = u1  u2 = u2
  Jobs = {a, b}
  NoJob = NoJob
  Lineages = {l1, l2}
  Tasks = {u1, u2}
  Standing = Standing
  KindOf <- MCKindOf
  LineageOf <- OwnLineage
  Seeded = {}
  Cap <- OneOfEach
  MaxOpen = 2
  MaxAttempts = 2
  SettlementAttempts = 2
  ClaimsPerPass = 2
  NativeRequeue = TRUE
  ForeignBodies = FALSE
  MaxProcs = 2
  MaxFaults = 0
  MaxRevisions = 1
INVARIANT WithdrawalCommits
CHECK_DEADLOCK FALSE
SYMMETRY TaskSymmetry
