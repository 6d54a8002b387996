CONSTANTS
  r1 = r1
  r2 = r2
  r3 = r3
  p1 = p1
  p2 = p2
  c1 = c1
  c2 = c2
  Nil = Nil
  Requests = {r1, r2, r3}
  Products = {p1, p2}
  Contents = {c1, c2}
SPECIFICATION SmallSpec
SYMMETRY Symmetry
CONSTRAINT OneProductOrTwoRequests
CHECK_DEADLOCK FALSE
INVARIANTS
  RecoverOnce
  FailedNeverApplied
  OutcomeHolds
PROPERTIES
  OutboundRespectsOpenJobsWhenCalm
