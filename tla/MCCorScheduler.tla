--------------------------- MODULE MCCorScheduler ---------------------------
\* Instances of CorScheduler for TLC.
EXTENDS CorSchedulerProofs

CONSTANTS c1, c2, w1, w2
=============================================================================
