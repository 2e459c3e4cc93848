SPECIFICATION VisitSpec
CONSTANTS
  Tabs = {t1, t2}
  Patient = {t1}
  Tokens = {1, 2, 3, 4, 5, 6, 7, 8, 9, 10, 11, 12, 13, 14, 15, 16, 17}
  None = None
  MaxTrouble = 1
INVARIANTS
  WritesPass
PROPERTIES
  Recovers
