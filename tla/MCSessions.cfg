CONSTANTS
  NTasks = 2
  MaxFixes = 1
  MaxBatches = 2
  MaxThreads = 9
  MaxRestarts = 1
  MaxChanges = 1
  MaxSilent = 1
  Foreign <- MCForeign
SPECIFICATION Spec
INVARIANTS TypeOK AuditorIsTheBatch FinalInPlanningSession BuildersStartFresh
CHECK_DEADLOCK FALSE
