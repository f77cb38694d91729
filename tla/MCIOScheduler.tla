--------------------------- MODULE MCIOScheduler ---------------------------
\* Instances of IOScheduler for TLC.
EXTENDS IOScheduler, TLC

CONSTANTS w1, w2, f1, f2, a1, a2, k1, k2, k3

Symmetry == Permutations(Workers) \cup Permutations(Fds)
              \cup Permutations(Ctxs) \cup Permutations(Callers \ Callbacks)
=============================================================================
