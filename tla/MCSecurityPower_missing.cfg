\* The setters' checks against pin states that are not there.
CONSTANTS
  Callers = {c1}
  SpiProbe = SpiProbe
SPECIFICATION Spec
INVARIANTS
  NeverSelectsMissing
CHECK_DEADLOCK FALSE
