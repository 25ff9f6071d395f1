CONSTANTS
  MaxPrompts = 2
  MaxRecords = 2
  MaxFiles = 2
  Limit = 1
  MaxScanned = 2
SPECIFICATION RunSpec
INVARIANTS SuccessIsVerified ResumeStaysHome
PROPERTY RunReturns
CHECK_DEADLOCK FALSE
