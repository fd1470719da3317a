CONSTANTS
  Producers = {p1, p2}
  Flushers = {}
  Pool = 3
  MaxSaves = 4
  None = None
SPECIFICATION Spec
INVARIANT SlotExclusive
CHECK_DEADLOCK FALSE
