CONSTANTS
  Callers = {c1, c2, c3}
  Blocks = {b1, b2, b3}
  MaxHandle = 3
  None = None
SPECIFICATION FairSpec
INVARIANTS
  RefcntExact
  HolderMemorySafe
  UnloadExclusive
PROPERTIES
  ImplementsLifecycle
  ClosedIsReclaimed
CHECK_DEADLOCK FALSE
