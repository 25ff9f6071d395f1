SPECIFICATION FairSpec
CONSTANTS
  MaxIterations = 2
  MaxModelCalls = 8
  NoImprovementLimit = 1
  Readiness = {1}
  TargetReadiness = 2
  MayFail = TRUE
  MaxRuns = 2
  MaxEdits = 1
  MaxCrashes = 1
INVARIANTS TypeOK  EvidenceChain RecoveryIsHonest
PROPERTIES EvidenceIsImmutable WalksLegalEdges
CHECK_DEADLOCK FALSE
