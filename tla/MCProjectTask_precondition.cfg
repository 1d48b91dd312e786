SPECIFICATION FairSpec
CONSTANTS
  Program = {p1, p2}
  Group = {A}
  Parallelism = 2
  None = None
  p1 = p1
  p2 = p2
  A = A
  B = B
  MaxSurprises = 1
PROPERTY SupplyAsyncPrecondition
CHECK_DEADLOCK FALSE
