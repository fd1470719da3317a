CONSTANTS
  Workers = {w1}
  Counts <- One
  NProcs = 1
  MaxPosts = 1
  Threads = {t1, t2, t3}
  Heap = {h1, h2}
  Own = {a1}
  None = None
  Rows = 2
  Handles = {x1, x2}
  Tids = {p1, p2, p3}
SPECIFICATION MCSpec
PROPERTY DestructorEnds
