CONSTANTS
  a = a
  b = b
  i1 = i1
  i2 = i2
  i3 = i3
  r1 = r1
  Leaves = {a, b}
  Instances = {i1, i2, i3}
  Appenders = {i1, i2}
  Readers = {i3}
  Reads = {r1}
  Crashes = 1
SPECIFICATION FairSpec
INVARIANT OneLog
PROPERTIES QueueDrains LogKept
CHECK_DEADLOCK FALSE
