SPECIFICATION Spec
CONSTANTS
  Template <- MCTemplate
  Exam <- MCExam
  MaxCells = 3
INVARIANTS
  TypeOK
  TeacherFailsOnlyAtSecrets
  NothingForTeachersOnly
  DocumentsCorrespond
  PlaceholdersAreFilled
PROPERTY ImplementsDocuments
CHECK_DEADLOCK FALSE
