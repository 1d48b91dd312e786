SPECIFICATION Spec
CONSTANTS
  Program = {p1}
  Group = {A, B}
  Parallelism = 2
  None = None
  p1 = p1
  p2 = p2
  A = A
  B = B
  MaxSurprises = 1
INVARIANT ErrorIsNotSuccess
CHECK_DEADLOCK FALSE
