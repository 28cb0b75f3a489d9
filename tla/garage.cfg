SPECIFICATION OwnerSpec
CONSTANTS
  Bikes = {b1, b2}
  Slots = {s1, s2}
  Readings = {1}
  Missing = Missing
  Idle = Idle
  MinAge = 13
  AdultAge = 18
  FirstYear = 2004
  LastYear = 2027
  MaxConsents = 2
  NoDate = NoDate
SYMMETRY Symmetric
INVARIANTS
  Inv
PROPERTIES
  OmittedColumnsStay
  AccessOnlyGrows
