------------------------------ MODULE HttpParts ------------------------------
(***************************************************************************)
(* The parts of the HTTP server: the parser of a request's head, the       *)
(* session that reads a request and answers it, the sessions' data and the *)
(* servlets' routes.  They share no state; a behaviour is one of one of    *)
(* them.                                                                   *)
(***************************************************************************)
EXTENDS Integers

CONSTANTS MaxPieces,                                           \* HttpRequestParser
          HeadSize, FieldStart, FieldEnd, MaxLength, Extra,    \* HttpSession
          BuffSize, ResponseSize,
          Keys, None, TTime, MaxLag,                           \* SessionDataMan
          Uris, Globs, Servlets, Matches, MaxClock             \* ServletDispatch

ASSUME HttpAssumption ==
  /\ MaxPieces \in Nat \ {0}
  /\ {HeadSize, MaxLength, Extra, BuffSize, ResponseSize} \subseteq Nat
  /\ FieldStart \in Nat \ {0} /\ FieldEnd \in FieldStart .. HeadSize
  /\ {TTime, MaxLag, MaxClock} \subseteq Nat
  /\ None \notin Nat \cup Servlets

VARIABLES part,   \* the one that runs
          phase, pieces, cs, mark, field_start, query_start, field_len,
          uri_relaxed, request, m_error,
          sphase, declared, numeric, split, length, taken, parsed, data, body,
          left, sent, failed,
          age, timer, lag, overtimes, touched,
          m_datas, m_globs, clock, born

P == INSTANCE HttpRequestParser
S == INSTANCE HttpSession WITH phase <- sphase
D == INSTANCE SessionDataMan
R == INSTANCE ServletDispatch

Parts == {"parser", "session", "data", "routes"}

parser == <<phase, pieces, cs, mark, field_start, query_start, field_len,
            uri_relaxed, request, m_error>>
session == <<sphase, declared, numeric, split, length, taken, parsed, data,
             body, left, sent, failed>>
sessions == <<age, timer, lag, overtimes, touched>>
routes == <<m_datas, m_globs, clock, born>>
vars == <<part, parser, session, sessions, routes>>

Init == part \in Parts /\ P!Init /\ S!Init /\ D!Init /\ R!Init

Next ==
  /\ UNCHANGED part
  /\ \/ part = "parser" /\ P!Next /\ UNCHANGED <<session, sessions, routes>>
     \/ part = "session" /\ S!Next /\ UNCHANGED <<parser, sessions, routes>>
     \/ part = "data" /\ D!Next /\ UNCHANGED <<parser, session, routes>>
     \/ part = "routes" /\ R!Next /\ UNCHANGED <<parser, session, sessions>>

Spec == Init /\ [][Next]_vars

-----------------------------------------------------------------------------
(* Properties *)

\* Every variable has its type, the keys that a timer has collected among them:
\* none is left when it ends.
TypeOK == P!TypeOK /\ S!TypeOK /\ D!TypeOK /\ R!TypeOK

\* A request that arrives in one piece is handed over whole (http_parser.cc), and
\* recvRequest returns nothing that is wrong or not complete.
RequestSound == P!RequestSound

\* The callbacks come in the order of the grammar.
ImplementsGrammar == P!ImplementsGrammar

\* The servlet gets the body, and nothing else, however the bytes were cut, as
\* long as they were not cut inside the Content-Length; then it gets none.
BodyExact == S!BodyExact

\* The timer deletes no session that nobody has touched and that is in time.
DeletesStale == D!DeletesStale

\* A session that nobody uses any more goes.
Expires == part = "data" => D!Expires

\* Globs answer in the order of their last registration.
GlobOrder == R!GlobOrder
=============================================================================
