CONSTANTS
  Workers = {w1, w2, w3}
  Counts <- Mixed
  NProcs = 3
  MaxPosts = 3
  Threads = {t1, t2, t3}
  Heap = {h1, h2}
  Own = {a1}
  None = None
  Rows = 2
  Handles = {x1, x2}
  Tids = {p1, p2, p3}
SPECIFICATION MCSpec
INVARIANTS
  WorkConserving
  StartedInTurn
  OneInstance
  DeletesItsOwn
  InitialisedOnce
  OwnsItsThread
PROPERTIES
  JoinIsFinal
  EveryTaskStarts
