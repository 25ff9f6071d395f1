SPECIFICATION FairSpec
CONSTANTS
  MaxIterations = 2
  MaxModelCalls = 8
  NoImprovementLimit = 1
  Readiness <- ReadinessValues
  TargetReadiness = 2
  MayFail = TRUE
  MaxRuns = 2
  MaxEdits = 0
  MaxCrashes = 1
INVARIANTS CampaignWithinBounds StopCostsOneIteration
PROPERTY RunsEnd
CHECK_DEADLOCK FALSE
