CONSTANTS
  Threads = {t1, t2}
  Paths = {p1, p2, p3}
  Nodes = {n1, n2, n3, n4}
  None = None
  Limits = {1, 2}
  Shells = {shell}
  Pids = {d1, d2, d3}
  Empty = Empty
  Names = {a, b}
  MaxTokens = 9
  Elements = {e1, e2, e3}
  Cells = {c1, c2}
  t1 = t1
  t2 = t2
  p1 = p1
  p2 = p2
  p3 = p3
  n1 = n1
  n2 = n2
  n3 = n3
  n4 = n4
  shell = shell
  d1 = d1
  d2 = d2
  d3 = d3
  a = a
  b = b
  e1 = e1
  e2 = e2
  e3 = e3
  c1 = c1
  c2 = c2
SPECIFICATION MCSpec
SYMMETRY Symmetry
INVARIANTS Sound NothingLost Bounded NamesDaemon ReadsDocuments FreedOnce
PROPERTY ImplementsOrder
CHECK_DEADLOCK FALSE
