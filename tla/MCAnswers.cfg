SPECIFICATION AnswerSpec
CONSTANTS
  Absent = Absent
  Junk = Junk
  Blank = Blank
  Long = Long
  MaxTasks = 2
  MaxEntries = 2
  AnswersOf <- MCAnswersOf
INVARIANT AnswersFailClosed
CHECK_DEADLOCK FALSE
