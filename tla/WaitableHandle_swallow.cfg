CONSTANTS
  Threads = {t1, t2, t3}
  Intervals <- Mixed
  Spurious = FALSE
  MaxSignals = 2
SPECIFICATION SyncSpec
PROPERTY ImplementsEvent
CHECK_DEADLOCK FALSE
