CONSTANT Size = 2
SPECIFICATION BatchSpec
INVARIANTS
  OneAtATime
CHECK_DEADLOCK FALSE
