CONSTANTS
  Users = {u1, u2}
  Objects = {o1, o2}
  MaxLinks = 2
  OneCreate = TRUE
  None = None
  Sessions = {s1, s2}
SPECIFICATION MCSpec
INVARIANTS
  TableAgrees
  NoLostLink
  ClosedOnce
  SetIsLive
  ToldBeforeFreed
PROPERTY ClosedIsFreed
CHECK_DEADLOCK FALSE
