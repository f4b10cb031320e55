\* The test of the callback before it is used.
CONSTANTS
  Listeners = {t1}
  NoThread = NoThread
  Callbacks = {cb1}
  NoCallback = NoCallback
SPECIFICATION Spec
INVARIANTS
  NeverCallsNull
CHECK_DEADLOCK FALSE
