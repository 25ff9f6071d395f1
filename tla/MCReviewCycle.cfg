SPECIFICATION Spec
CONSTANTS
  MaxEdits = 2
  MaxRuns = 3
  None = None
INVARIANTS
  BundleIsEvidence
PROPERTY
  EvidenceKept
CHECK_DEADLOCK FALSE
