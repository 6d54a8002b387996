CONSTANTS
  j1 = j1
  j2 = j2
  j3 = j3
  r1 = r1
  r2 = r2
  r3 = r3
  r4 = r4
  k1 = k1
  fb1 = fb1
  ig1 = ig1
  Nil = Nil
  Jobs = {j1, j2, j3}
  Requests = {r1, r2, r3, r4}
  Keys = {k1}
  FacebookPosts = {fb1}
  InstagramPosts = {ig1}
SPECIFICATION Spec
SYMMETRY Symmetry
CONSTRAINT ManyOnOne
CHECK_DEADLOCK FALSE
INVARIANTS
  AtMostOnePost
  CancelledStaysOff
  RecordIsTrue
  IdempotencyHolds
PROPERTIES
  KeepsPromise
