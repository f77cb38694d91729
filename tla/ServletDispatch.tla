-------------------------- MODULE ServletDispatch --------------------------
(***************************************************************************)
(* The routes of servlet.cc: exact ones in m_datas, glob patterns in the   *)
(* order of their registration in m_globs.  fnmatch is given by Matches.   *)
(***************************************************************************)
EXTENDS Integers, Sequences, SequencesExt

CONSTANTS Uris, Globs, Servlets, None,
          Matches,      \* the pairs <<glob, uri>> for which fnmatch returns 0
          MaxClock      \* bound on the number of registrations

VARIABLES m_datas,      \* [Uris -> Servlets or None]
          m_globs,      \* <<glob, servlet>>, in order
          clock,        \* ghost: registrations of globs so far
          born          \* ghost: when a glob was last registered, 0 if it is not

vars == <<m_datas, m_globs, clock, born>>

-----------------------------------------------------------------------------

Init == /\ m_datas = [u \in Uris |-> None] /\ m_globs = <<>>
        /\ clock = 0 /\ born = [g \in Globs |-> 0]

\* addServlet and addServletCreator; s = None: delServlet.
SetServlet(u, s) == /\ m_datas' = [m_datas EXCEPT ![u] = s]
                    /\ UNCHANGED <<m_globs, clock, born>>

\* The first entry of the pattern is taken out.
Places(g) == {i \in DOMAIN m_globs : m_globs[i][1] = g}
WithoutNone(g) == m_globs   \* mutant: the entry stays
Without(g) ==
  IF Places(g) = {} THEN m_globs
  ELSE RemoveAt(m_globs, CHOOSE i \in Places(g) : \A j \in Places(g) : i <= j)

\* addGlobServlet and addGlobServletCreator.
AddGlobServlet(g, s) ==
  /\ clock < MaxClock /\ clock' = clock + 1
  /\ m_globs' = Append(Without(g), <<g, s>>)
  /\ born' = [born EXCEPT ![g] = clock']
  /\ UNCHANGED m_datas

DelGlobServlet(g) ==
  /\ m_globs' = Without(g) /\ born' = [born EXCEPT ![g] = 0]
  /\ UNCHANGED <<m_datas, clock>>

Next ==
  \/ \E u \in Uris, s \in Servlets \cup {None} : SetServlet(u, s)
  \/ \E g \in Globs : DelGlobServlet(g) \/ \E s \in Servlets : AddGlobServlet(g, s)

Spec == Init /\ [][Next]_vars

\* None stands for m_default, the servlet that answers 404.
GetMatchedServlet(u) ==
  LET hits == {i \in DOMAIN m_globs : <<m_globs[i][1], u>> \in Matches}
  IN  IF m_datas[u] # None THEN m_datas[u]
      ELSE IF hits = {} THEN None
      ELSE m_globs[CHOOSE i \in hits : \A j \in hits : i <= j][2]

-----------------------------------------------------------------------------
(* Properties *)

\* Every variable has its type.
TypeOK ==
  /\ m_datas \in [Uris -> Servlets \cup {None}]
  /\ m_globs \in Seq(Globs \X Servlets)
  /\ clock \in 0 .. MaxClock /\ born \in [Globs -> 0 .. clock]

\* A glob answers in the place its last registration gave it and from no other:
\* what is registered again goes behind the others, what is deleted is gone, and
\* among several that match the one registered first answers.
GlobOrder ==
  /\ \A g \in Globs : born[g] # 0 <=> Places(g) # {}
  /\ \A i, j \in DOMAIN m_globs : i < j => born[m_globs[i][1]] < born[m_globs[j][1]]
  /\ \A u \in Uris :
       LET live == {g \in Globs : born[g] # 0 /\ <<g, u>> \in Matches}
       IN  m_datas[u] = None /\ live # {} =>
             \E g \in live : /\ \A h \in live : born[g] <= born[h]
                             /\ \E i \in Places(g) : GetMatchedServlet(u) = m_globs[i][2]
=============================================================================
