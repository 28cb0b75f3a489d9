SPECIFICATION Spec
CONSTANTS
  Attachments = {a1}
  Bytes = {1, 2}
  Limit = 3
  GrantPeriod = 2
  Requests = {r1, r2}
  Bikes = {bike}
  Records = {record}
  Free = Free
  NoFile = NoFile
SYMMETRY RequestSymmetry
INVARIANTS
  LinksHaveTargets
