---------------------------- MODULE ResourcePool ----------------------------
(***************************************************************************)
(* What a connection pool promises: a connection is lent to one user at a  *)
(* time and comes back, there are never more than MaxConns of them, and    *)
(* those that are destroyed are free ones, beyond the first MinConns.      *)
(***************************************************************************)
EXTENDS Integers

CONSTANTS Conns, Users, None, MinConns, MaxConns

VARIABLES
  free,  \* the connections nobody has
  lent,  \* lent[u]: the connection user u has
  count  \* how many connections there are

vars == <<free, lent, count>>

Init ==
  /\ free \in SUBSET Conns
  /\ lent = [u \in Users |-> None]
  /\ count \in 0..MinConns

Create == \E c \in Conns \ free :
  /\ \A u \in Users : lent[u] # c
  /\ count < MaxConns
  /\ free' = free \cup {c}
  /\ count' = count + 1
  /\ UNCHANGED lent

Destroy ==
  /\ free' \in SUBSET free /\ free' # free
  /\ count' \in MinConns..(count - 1)
  /\ UNCHANGED lent

Lend(u) == \E c \in free :
  /\ lent[u] = None
  /\ free' = free \ {c}
  /\ lent' = [lent EXCEPT ![u] = c]
  /\ UNCHANGED count

Return(u) ==
  /\ lent[u] # None
  /\ free' = free \cup {lent[u]}
  /\ lent' = [lent EXCEPT ![u] = None]
  /\ UNCHANGED count

Next == Create \/ Destroy \/ \E u \in Users : Lend(u) \/ Return(u)

Spec == Init /\ [][Next]_vars
=============================================================================
