SPECIFICATION Spec
CONSTANTS
  Jobs = {j1, j2}
  Handlers = {h1, h2, h3}
  None = None
SYMMETRY Symmetry
CHECK_DEADLOCK FALSE
PROPERTIES OverStaysOver
