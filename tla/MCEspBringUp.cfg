\* One listener, one sender, two files.
CONSTANTS
  Listeners = {l1}
  Senders = {s1}
  Files = {f1, f2}
SPECIFICATION Spec
INVARIANTS
  UndoesHeld
  AllOrNothing
  AcquiresAnew
  FilesLive
  LineOwed
PROPERTIES
  EdgeServed
