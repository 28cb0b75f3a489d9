SPECIFICATION FairSpec
CONSTANTS
  Requests = {r1, r2}
  Bikes = {x, y}
  Recent = 2
  MaxRounds = 2
  MaxLog = 5
  Free = Free
  Idle = Idle
CHECK_DEADLOCK FALSE
INVARIANTS
  Inv
PROPERTIES
  AnsweredSummaryIsCurrent
  AnswerFitsBike
  RequestsEnd
