\* One listener, one sender; messages of one frame and of two.
CONSTANTS
  Listeners = {l1}
  Senders = {s1}
  NoOne = NoOne
  FIFO_LEN = 2
  DATA_LEN = 2
SPECIFICATION Spec
INVARIANTS
  SuccessIsFresh
PROPERTIES
  CommandReturns
  ListenerServed
