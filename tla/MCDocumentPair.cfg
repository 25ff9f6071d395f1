SPECIFICATION Spec
CONSTANTS
  Texts = {t1, t2, t3}
  None = None
  MaxCommits = 2
  MaxEdits = 1
  MaxImports = 1
  MaxCrashes = 1
INVARIANTS TypeOK RestoredIsExact
PROPERTY ImplementsAtomicPair
SYMMETRY AnyText
CHECK_DEADLOCK FALSE
