CONSTANTS
  Producers = {p1, p2}
  Flushers = {f1}
  Pool = 3
  MaxSaves = 2
  None = None
SPECIFICATION BoundedSpec
INVARIANTS
  PendingExact
  NoLossNoDuplicate
  PrintedInOrder
PROPERTY AcceptedIsPrinted
CHECK_DEADLOCK FALSE
