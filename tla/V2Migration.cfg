CONSTANTS
  Attempts = {a1, a2}
  Plans <- TwoTables
  Identity <- OnlyUsers
  Ids = {1, 3}
  BatchSize = 1
  MaxFaults = 2
CHECK_DEADLOCK FALSE
SPECIFICATION FairSpec
INVARIANTS
  TargetIsAllOrNothing
  ReportsAreTrue
  NextIdIsFree
PROPERTY AttemptEnds
