\* Two listener threads, three descriptors; orderly clients.
CONSTANTS
  Listeners = {t1, t2}
  NoThread = NoThread
  Callbacks = {cb1}
  NoCallback = NoCallback
  Descriptors = {0, 1, 2}
SPECIFICATION Spec
CONSTRAINT OrderlyClients
PROPERTIES
  FailuresHaveCause
  ClosedReleases
