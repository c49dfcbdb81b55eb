SPECIFICATION Spec
CONSTANTS
  Jobs = {1, 2, 3, 4, 5, 6}
  Sources = {1, 2}
  SourceOf <- SmallSource
  Deadline <- SmallDeadline
  SharePeriod = 4
  Backlog = {1, 4}
  MaxTime = 2
INVARIANTS TypeOK OldestBatchShare LiveSourcesRotate
CHECK_DEADLOCK FALSE
