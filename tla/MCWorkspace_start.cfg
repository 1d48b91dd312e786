SPECIFICATION Spec
CONSTANTS
  Path = {w1}
  Group = {A}
  MaxTasks = 2
  NoPath = NoPath
  w1 = w1
  w2 = w2
  A = A
  B = B
PROPERTY StartsWhenOver
CHECK_DEADLOCK FALSE
