SPECIFICATION FairSpec
CONSTANTS
  Attachments = {a1, a2}
  Bytes = {1, 2}
  Limit = 3
  GrantPeriod = 2
  Requests = {r1, r2}
  Bikes = {bike}
  Records = {record}
  Free = Free
  NoFile = NoFile
INVARIANTS
  Inv
  QuotaNeverExceeded
  DeletedStaysGone
  YoungUploadHasObject
PROPERTIES
  CleanupFinishes
