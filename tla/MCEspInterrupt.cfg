\* Two listeners and two senders.
CONSTANTS
  Listeners = {l1, l2}
  Senders = {s1, s2}
SPECIFICATION Spec
INVARIANTS
  TypeOK
  IrqBalance
  NoLostWakeup
  NoStaleReturn
PROPERTIES
  EdgeServed
  SleeperReleased
