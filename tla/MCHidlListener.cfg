\* Two listener threads.  A crash ends the process, so states without a
\* successor are expected.
CONSTANTS
  Listeners = {t1, t2}
  NoThread = NoThread
  Callbacks = {cb1}
  NoCallback = NoCallback
SPECIFICATION Spec
INVARIANTS
  TypeOK
  AtMostOneMore
  StopHeard
  StartedListens
PROPERTIES
  InterruptedEnds
  AllEnd
CHECK_DEADLOCK FALSE
