SPECIFICATION TurnSpec
CONSTANTS
  Lengths = {1, 2, 4}
  Scores = {0, 1, 2}
  TurnLimit = 3
  CharBudget = 3
  SpanLimit = 4
  SpanBudget = 6
  Pad = 1
  MaxToolRounds = 2
  MaxCalls = 2
  MaxFound = 2
  MaxThread = 5
  MaxBefore = 0
  p1 = p1
  p2 = p2
  p3 = p3
  Passages = {p1, p2, p3}
  Label <- Labels
  NoTurn = NoTurn
CHECK_DEADLOCK FALSE
INVARIANTS
  TurnInv
  SpanHoldsMatch
  AnswerIsGrounded
