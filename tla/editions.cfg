SPECIFICATION EditionsSpec
CONSTANTS
  Docs = {d1, d2, d3}
  Files = {f1, f2}
  Bikes = {b1, b2}
  Contents = {good, bad}
  MaxRev = 3
  NoDoc = NoDoc
  Unused = Unused
  Gone = Gone
  Chunks = {1, 2}
  Shared = {1}
  Size <- Sizes
  CandidateLimit = 4
  RerankLimit = 3
  MaxMatches = 2
  MaxPassages = 2
  Capacity = 3
  SearchDocs = 2
  MaxChanges = 1
  NoSearch = NoSearch
  MaxChars = 4
  Manuals <- SmallManuals
  MaxText = 6
  MaxShort = 2
SYMMETRY Symmetry
CHECK_DEADLOCK FALSE
INVARIANTS
  ChunksAreExact
  SearchInv
PROPERTIES
  PrimaryIsKept
  ReadyIsCurrent
  RefusalsAreTrue
