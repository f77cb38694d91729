CONSTANTS
  Workers = {w1}
  Fds = {f1, f2}
  Ctxs = {a1, a2}
  Callers = {k1, k2, k3}
  Callbacks = {k3}
  None = None
  Ops = {"del", "cancel", "cancelAll"}
  Fails = TRUE
  w1 = w1
  w2 = w2
  f1 = f1
  f2 = f2
  a1 = a1
  a2 = a2
  k1 = k1
  k2 = k2
  k3 = k3
SPECIFICATION Spec
SYMMETRY Symmetry
INVARIANTS TableSound NoLostWaiter NoSpuriousWake
PROPERTY ImplementsService
