CONSTANTS
  none = none
  p1 = p1
  w1 = w1
  w2 = w2
  None = none
  Publications = {p1}
  Passes = {w1}
  ForkAt = 1
  MaxSize = 3
SPECIFICATION WitnessFairSpec
INVARIANTS Consistent 
PROPERTIES Witnessed
CHECK_DEADLOCK FALSE
