CONSTANTS
  Conns = {n1, n2, n3}
  Users = {u1, u2}
  None = None
  MinConns = 1
  MaxConns = 2
  MaxIdle = 2
  Fails = TRUE
  n1 = n1
  n2 = n2
  n3 = n3
  u1 = u1
  u2 = u2
SPECIFICATION FairSpec
INVARIANTS NoLeak OldestFirst
PROPERTIES WithinLimits ImplementsPool WaiterServed StopReturns
CHECK_DEADLOCK FALSE
