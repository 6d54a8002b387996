CONSTANTS
  r1 = r1
  r2 = r2
  r3 = r3
  Requests = {r1, r2, r3}
  P = 1
SPECIFICATION UploadSpec
SYMMETRY Symmetry
CONSTRAINT TwoAtWork
CHECK_DEADLOCK FALSE
INVARIANTS
  OneFate
  CancelledIsClean
  ClaimsAreTrue
PROPERTIES
  SubmitsOnce
