SPECIFICATION DueSpec
CONSTANTS
  Intervals = {1, 2}
  Periods = {2}
  DueSoonHours = 1
  DueSoonDays = 1
  Limit = 2
  MaxHours = 2
  MaxDay = 2
  MaxRecords = 2
  MaxRows = 2
  Absent = Absent
INVARIANTS
  AdviceInv
PROPERTIES
  UrgencyNeverFalls
  HistoryCounts
