SPECIFICATION PlanOrBookSpec
CONSTANTS
  Keys = {k1, k2}
  Docs = {d1}
  Sources = {d1}
  Slots = {s1, s2}
  None = None
  Idle = Idle
  MaxRules = 3
  MaxProposals = 2
  MaxPassages = 3
  MaxPageChars = 3
  MaxChars = 6
  LeastRest = 2
  BatchChars = 6
  HeaderChars = 1
  MaxPages = 4
SYMMETRY Symmetric
INVARIANTS
  PlanInv
PROPERTIES
  NoKeyIsLost
