SPECIFICATION Spec
CONSTANTS
  Absent = Absent
  Junk = Junk
  Blank = Blank
  None = None
  Criteria = {"c1", "c2"}
  MaxFindings = 2
  MaxJudgements = 3
  MaxEdits = 1
  Reviews <- MCReviews
  Ballots <- MCBallots
INVARIANTS
  NothingLost
  ReviewedOneRevision
  VotesDecide
  FullReadinessIsEarned
CHECK_DEADLOCK FALSE
