SPECIFICATION FairSpec
CONSTANTS
  Capacity = 2
  MaxOutput = 3
INVARIANTS
  TypeOK
  NothingIsLost
  ReturnsOnlyWhatFits
  OutcomesOfProjectTask
PROPERTY ExecuteReturns
CHECK_DEADLOCK FALSE
