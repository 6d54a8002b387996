CONSTANTS
  q1 = q1
  q2 = q2
  q3 = q3
  s1 = s1
  s2 = s2
  d1 = d1
  Nil = Nil
  Requests = {q1, q2, q3}
  Saves = {s1, s2}
  Deletes = {d1}
  Iop = {s1}
  MaxGeneration = 2
SPECIFICATION Spec
SYMMETRY Symmetry
CHECK_DEADLOCK FALSE
INVARIANTS
  SpentOnceIfUnique
  UnfencedIsFreshIfUnique
  HolderKeepsLeaseIfUnique
PROPERTIES
  NoBlindWriteIfUnique
