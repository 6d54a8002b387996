SPECIFICATION Spec
CONSTANTS
  Ids = {i1, i2, i3}
  Products = {p1, p2}
  Payloads = {x}
SYMMETRY Symmetry
CHECK_DEADLOCK FALSE
INVARIANTS FailedNeverApplied CreatedOnce
PROPERTIES OutboundRespectsOpenJobs RestoreOnce
