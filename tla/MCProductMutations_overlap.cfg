CONSTANTS
  r1 = r1
  r2 = r2
  r3 = r3
  p1 = p1
  c1 = c1
  c2 = c2
  Nil = Nil
  Requests = {r1, r2, r3}
  Products = {p1}
  Contents = {c1, c2}
SPECIFICATION Spec
SYMMETRY Symmetry
CHECK_DEADLOCK FALSE
PROPERTIES
  OutboundRespectsOpenJobs
