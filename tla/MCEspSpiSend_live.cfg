\* Two threads that contend for dev_lock, with messages of one frame.
CONSTANTS
  Senders = {s1, s2}
  NoOne = NoOne
  FIFO_LEN = 1
  DATA_LEN = 0
SPECIFICATION Spec
PROPERTIES
  CommandReturns
