SPECIFICATION FairSpec
CONSTANTS
  TasksPerBatch = 2
  MaxAuditRounds = 3
  MaxBatches = 1
  MaxCrashes = 1
INVARIANTS
  TypeOK
  TasksInOrder
  FixBudget
  RowIsCurrent
  CompleteOnlyIfAudited
PROPERTIES ImplementsLedger BatchEnds
CHECK_DEADLOCK FALSE
