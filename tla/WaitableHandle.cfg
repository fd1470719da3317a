CONSTANTS
  Threads = {t1, t2, t3}
  Intervals <- Mixed
  Spurious = TRUE
  MaxSignals = 3
SPECIFICATION FairSpec
INVARIANTS
  OneSignalOneEvent
  NoStuckSignal
  EventMeansSignal
PROPERTY BroadcastReleases
CHECK_DEADLOCK FALSE
