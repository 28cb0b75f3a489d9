SPECIFICATION OwnerSpec
CONSTANTS
  Bikes = {b1}
  Slots = {s1, s2}
  Readings = {1, 2}
  Missing = Missing
  Idle = Idle
  MinAge = 13
  AdultAge = 18
  FirstYear = 2004
  LastYear = 2027
  MaxConsents = 1
  NoDate = NoDate
SYMMETRY Symmetric
INVARIANTS
  ReadingsStayDistinct
