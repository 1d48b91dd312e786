SPECIFICATION Spec
CONSTANTS
  Template <- MCTemplate
  Exam <- MCExam
  MaxCells = 2
INVARIANT LinePlaceholdersHaveKinds
CHECK_DEADLOCK FALSE
