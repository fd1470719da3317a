CONSTANTS
  Printers = {p1, p2}
  Modules = {m1, m2}
  Files = {o1, o2}
  Descriptors <- TwoDescriptors
  MaxRows = 1
  SecondsPerDay = 2
  DaysPerYear = 365
  MaxTime = 2
  MaxLines = 2
  None = None
  Procs = {q1, q2}
  Fds = {0, 1}
  Sizes = {2}
  Capacity = 2
  Makers = {k1, k2}
  Removers = {r1}
  Paths <- ThePaths
  Targets <- OneTarget
  Link <- TheLink
  LinkTo <- LinkTarget
SPECIFICATION TreeSpec
INVARIANT SameAsRm
CHECK_DEADLOCK FALSE
