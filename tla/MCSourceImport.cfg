SPECIFICATION ImportSpec
CONSTANTS
  Files <- MCFiles
  NoFile = NoFile
  Corrupt = Corrupt
  MaxCopies = 2
  MaxImports = 3
  MaxEdits = 1
INVARIANTS ReplacedIsFrozen RecordsStayTrue
CHECK_DEADLOCK FALSE
