SPECIFICATION FairSpec
CONSTANTS
  Documents = {d1}
  Workers = {w1}
  Texts = {blank, a, b}
  Blank = blank
  Chunks = {1, 2}
  Batch = 1
  Configs = {k1, k2}
  Lease = 1
  MaxAttempts = 2
  MaxSources = 2
  NoTask = NoTask
INVARIANTS
  Inv
PROPERTIES
  LateBuildersChangeNothing
  ImplementsFencedJob
  IndexSettles
