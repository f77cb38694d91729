---------------------------- MODULE RecencyOrder ----------------------------
(***************************************************************************)
(* What a least-recently-used cache promises: its nodes are in the order   *)
(* of their last use, a hit moves one to the front, and what makes room    *)
(* for a new node is the one that was used longest ago.                    *)
(***************************************************************************)
EXTENDS Sequences, Integers

CONSTANTS Paths, Nodes, None

VARIABLES
  order,  \* the cached nodes, the most recently used first
  entry   \* entry[p]: the node that a lookup of path p finds

vars == <<order, entry>>

Init == order = <<>> /\ entry = [p \in Paths |-> None]

\* The order after the use of its i-th node.
Used(i) == [j \in 1..Len(order) |-> IF j = 1 THEN order[i]
                                   ELSE IF j <= i THEN order[j - 1] ELSE order[j]]

Hit(p) ==
  /\ entry[p] # None
  /\ \E i \in 1..Len(order) : order[i] = entry[p] /\ order' = Used(i)
  /\ UNCHANGED entry

Fill(p) == \E n \in Nodes :
  /\ \A i \in 1..Len(order) : order[i] # n
  /\ order' = <<n>> \o order
  /\ entry' = [entry EXCEPT ![p] = n]

\* The node that leaves belonged to path q, whose entry goes with it.
Replace(p, q) == \E n \in Nodes :
  /\ order # <<>>
  /\ LET kept == SubSeq(order, 1, Len(order) - 1) IN
     /\ \A i \in 1..Len(kept) : kept[i] # n
     /\ order' = <<n>> \o kept
  /\ entry' = [entry EXCEPT ![q] = None, ![p] = n]

Clear == order' = <<>> /\ entry' = [p \in Paths |-> None]

Next ==
  \/ \E p \in Paths : Hit(p) \/ Fill(p)
  \/ \E p, q \in Paths : Replace(p, q)
  \/ Clear

Spec == Init /\ [][Next]_vars
=============================================================================
