CONSTANTS
  Users = {u1, u2}
  Fds = {f1}
  Conds = {k1, k2}
  Ops = {"accept", "connect", "recv", "recvmsg", "send", "sendmsg", "sendto", "sendmsgto"}
  Ends = TRUE
  None = None
  u1 = u1
  u2 = u2
  f1 = f1
  f2 = f2
  k1 = k1
  k2 = k2
  k3 = k3
SPECIFICATION FairSpec
INVARIANTS WaitSound NoStrayTimer
PROPERTIES OwnTimeout DataReturns TimeoutWakes
