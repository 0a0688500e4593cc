CONSTANTS
  none = none
  any = any
  x = x
  y = y
  w1 = w1
  w2 = w2
  None = none
  Whatever = any
  Subjects = {x, y}
  Writers = {w1, w2}
  MaxTime = 2
  MaxFacts = 3
  MaxEvents = 4
SPECIFICATION Spec
INVARIANTS QueriesAgree RetractUndoes ReportsAccount
PROPERTIES PastStands
SYMMETRY Symmetry
CHECK_DEADLOCK FALSE
