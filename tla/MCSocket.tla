------------------------------ MODULE MCSocket ------------------------------
\* Instances of Socket for TLC.
EXTENDS Socket, TLC

CONSTANTS u1, u2, f1, f2, k1, k2, k3

Symmetry == Permutations(Users) \cup Permutations(Fds) \cup Permutations(Conds)
=============================================================================
