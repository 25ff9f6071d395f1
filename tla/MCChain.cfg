SPECIFICATION FairSpec
CONSTANTS
  TasksPerBatch = 1
  MaxAuditRounds = 1
  MaxBatches = 3
  MaxCrashes = 1
CONSTRAINT ChainOfBatches
INVARIANT PlanUsedOnce
PROPERTIES BatchEnds 
CHECK_DEADLOCK FALSE
