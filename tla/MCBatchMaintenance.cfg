CONSTANT Size = 3
SPECIFICATION BatchLiveSpec
INVARIANTS
  StatesAreTrue
PROPERTIES
  LeavesInTurn
  BatchEnds
CHECK_DEADLOCK FALSE
