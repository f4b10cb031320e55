\* Two threads in the power ioctls.  A thread that selected a missing pin
\* state stops for good, so states without a successor are expected.
CONSTANTS
  Callers = {c1, c2}
  SpiProbe = SpiProbe
SPECIFICATION Spec
INVARIANTS
  BusGivenBack
  PowerAsAsked
PROPERTIES
  ResetReleasedLast
  ProbeGoesOn
CHECK_DEADLOCK FALSE
