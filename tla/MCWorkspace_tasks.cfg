SPECIFICATION Spec
CONSTANTS
  Path = {w1, w2}
  Group = {A}
  MaxTasks = 3
  NoPath = NoPath
  w1 = w1
  w2 = w2
  A = A
  B = B
SYMMETRY Symmetry
CONSTRAINT NothingLeftToOpen
INVARIANTS
  TypeOK
  WorkspaceIsExplained
PROPERTY TasksFollowLifecycle
CHECK_DEADLOCK FALSE
