CONSTANTS
  r1 = r1
  r2 = r2
  r3 = r3
  f1 = f1
  f2 = f2
  Nil = Nil
  Requests = {r1, r2, r3}
  Payloads = {f1, f2}
SPECIFICATION Spec
SYMMETRY Symmetry
CHECK_DEADLOCK FALSE
INVARIANTS
  AcceptedKeepsProduct
  FailedMadeNothing
  OneLockPerProduct
PROPERTIES
  NoBlindRepeat
