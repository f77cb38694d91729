CONSTANTS
  Workers = {w1, w2}
  Fds = {f1}
  Ctxs = {a1, a2}
  Callers = {k1}
  Callbacks = {}
  None = None
  Ops = {}
  Fails = FALSE
  w1 = w1
  w2 = w2
  f1 = f1
  f2 = f2
  a1 = a1
  a2 = a2
  k1 = k1
  k2 = k2
  k3 = k3
SPECIFICATION Spec
INVARIANT LookupStaysValid
CHECK_DEADLOCK FALSE
