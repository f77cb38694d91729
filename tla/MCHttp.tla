------------------------------- MODULE MCHttp -------------------------------
EXTENDS HttpParts

CONSTANTS k1, k2, u1, u2, g1, g2, s1, s2

\* A glob that matches every URI, and one that does not.
MCMatches == {<<g1, u1>>, <<g1, u2>>, <<g2, u1>>}

\* What only one part reads has one value where another part runs.
MCInit == /\ Init
          /\ part # "parser" => ~uri_relaxed
          /\ part # "session" => declared = 0 /\ numeric

\* The session timer is recurring and time passes.
FairSpec ==
  /\ MCInit /\ [][Next]_vars
  /\ WF_vars(part = "data" /\ D!TimerStep /\ UNCHANGED <<part, parser, session, routes>>)
  /\ WF_vars(part = "data" /\ D!Tick /\ UNCHANGED <<part, parser, session, routes>>)
=============================================================================
