SPECIFICATION Spec
CONSTANTS
  v = v  a = a  b = b  t = t  l1 = l1  l2 = l2  u1 = u1  u2 = u2
  Jobs = {a, b}
  NoJob = NoJob
  Lineages = {l1}
  Tasks = {}
  Standing = Standing
  KindOf <- MCKindOf
  LineageOf <- SameLineage
  Seeded = {}
  Cap <- TwoOfEach
  MaxOpen = 2
  MaxAttempts = 2
  SettlementAttempts = 2
  ClaimsPerPass = 2
  NativeRequeue = TRUE
  ForeignBodies = TRUE
  MaxProcs = 3
  MaxFaults = 2
  MaxRevisions = 2
INVARIANTS TypeOK OneActivePerLineage HoldMatchesClaim LeaseInHand PublishedOnce AttemptsAccountForGenerations
PROPERTIES HeldNeverRerun ImplementsContract
CHECK_DEADLOCK FALSE
SYMMETRY JobSymmetry
