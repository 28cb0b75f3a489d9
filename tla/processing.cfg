SPECIFICATION FairSpec
CONSTANTS
  Attachments = {a1}
  Workers = {w1, w2}
  Lease = 2
  GrantPeriod = 1
  MaxAttempts = 3
  NoTask = NoTask
INVARIANTS
  Inv
  NoEarlyTakeover
PROPERTIES
  InfectionIsSticky
  ImplementsFencedJob
  EventuallySettled
