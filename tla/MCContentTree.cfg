SPECIFICATION Spec
CONSTANTS
  Nodes = 6
  Template <- MCTemplate
INVARIANTS
  FoundAreOutermost
  NoneIsLost
  DocumentIsFilled
CHECK_DEADLOCK FALSE
