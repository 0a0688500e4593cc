CONSTANTS
  a = a
  b = b
  i1 = i1
  i2 = i2
  i3 = i3
  r1 = r1
  Leaves = {a, b}
  Instances = {i1, i2}
  Appenders = {i1, i2}
  Readers = {i1}
  Reads = {r1}
  Crashes = 0
SPECIFICATION Spec
INVARIANT HeadsAgree
CHECK_DEADLOCK FALSE
