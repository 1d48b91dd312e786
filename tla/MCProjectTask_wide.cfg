SPECIFICATION Spec
CONSTANTS
  Program = {p1, p2}
  Group = {A, B}
  Parallelism = 2
  None = None
  p1 = p1
  p2 = p2
  A = A
  B = B
  MaxSurprises = 1
SYMMETRY Symmetry
CONSTRAINT FewSurprises
INVARIANTS
  TypeOK
  Inv
  SucceededMeansIdle
  DocumentsFollowOutputs
  ErrorsAreListedFirst
PROPERTY NoSubmissionAfterFailure
CHECK_DEADLOCK FALSE
