SPECIFICATION Spec
CONSTANTS
  GroupMarker = {"%a", "%b"}
  MAX_CODE_TEMPLATES_COUNT = 3
  Alphabet <- MCAlphabet
INVARIANTS
  GapsAreLeftmost
  NodesSpellLine
  SameShape
  StudentSeesNoAnswer
  MarkersDecide
  LoadedWithoutHoles
  ParagraphShowsLines
CHECK_DEADLOCK FALSE
