SPECIFICATION Spec
CONSTANTS
  Program = {p1, p2}
  GROUPS_COUNT = 2
  p1 = p1
  p2 = p2
SYMMETRY ProgramSymmetry
INVARIANTS
  TypeOK
  UntouchedBeforeOutputs
  NeverClashes
  OutputsBesideDocuments
  DocumentsInOrder
CHECK_DEADLOCK FALSE
