-------------------------- MODULE MCConnectionPool --------------------------
\* Instances of ConnectionPool for TLC.
EXTENDS ConnectionPool, TLC

CONSTANTS n1, n2, n3, u1, u2

Symmetry == Permutations(Conns) \cup Permutations(Users)
=============================================================================
