SPECIFICATION Spec
CONSTANTS
  Users = {u1, u2}
  Handlers = {h1, h2}
  MaxRevision = 3
SYMMETRY Symmetry
CHECK_DEADLOCK FALSE
INVARIANT LastAdminStays
