SPECIFICATION FairSpec
CONSTANTS
  Documents = {d1}
  Manuals = {d1}
  Workers = {w1, w2}
  PageCount = 2
  Lease = 2
  MaxAttempts = 2
  NoTask = NoTask
INVARIANTS
  Inv
PROPERTIES
  PagesAreStable
  RulesSeeEveryPage
  ImplementsFencedJob
  EventuallySettled
