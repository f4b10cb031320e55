\* Two threads whose transfers interleave.
CONSTANTS
  Senders = {s1, s2}
  NoOne = NoOne
  FIFO_LEN = 2
  DATA_LEN = 3
SPECIFICATION Spec
INVARIANTS
  TypeOK
  LockHolderTransfers
  UpgradeComplete
  FragmentsInOrder
  AttemptBudget
  AcknowledgedOnce
  ReplyRouted
  DeafOnlyAfterUpgrade
PROPERTIES
  ImplementsCommand
SYMMETRY Symmetry
