------------------------------ MODULE MCLocal ------------------------------
EXTENDS LocalParts, TLC

CONSTANTS t1, t2, p1, p2, p3, n1, n2, n3, n4,
          shell, d1, d2, d3, a, b, e1, e2, e3, c1, c2

\* What only the cache uses has one value where another part runs.
MCInit == /\ LocalInit
          /\ part # "cache" => ~clears /\ \A m \in Limits : max <= m

MCSpec == MCInit /\ [][LocalNext]_local

Symmetry == Permutations(Threads) \cup Permutations(Nodes)
=============================================================================
