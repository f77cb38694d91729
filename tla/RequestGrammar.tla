--------------------------- MODULE RequestGrammar ---------------------------
(***************************************************************************)
(* What a reader of requests promises its user: the elements of a request  *)
(* are handed over one after the other in the order the grammar has, none  *)
(* again after a later one but the fields, and the request is complete     *)
(* only after the last of them.  A message of the other two protocols has  *)
(* a path only.                                                            *)
(***************************************************************************)
EXTENDS Naturals

VARIABLES part,    \* what is being read
          given    \* the elements handed over

vars == <<part, given>>

Init == part = "method" /\ given = {}

Method == /\ part = "method" /\ part' = "target" /\ given' = {"method"}

Target(element) ==
  /\ part = "target"
  /\ CASE element = "path" -> "path" \notin given
       [] element = "query" -> "path" \in given /\ "query" \notin given
  /\ given' = given \cup {element}
  /\ part' \in {"target", "version"}

\* The end of a fragment, which is handed to nobody.
EndTarget == /\ part = "target" /\ "path" \in given
             /\ part' = "version" /\ UNCHANGED given

Version == /\ part = "version" /\ "version" \notin given
           /\ part' = "fields" /\ given' = given \cup {"version"}

Field == part = "fields" /\ part' = "fields" /\ given' = given \cup {"field"}

Complete == /\ part = "fields" /\ part' = "complete" /\ UNCHANGED given

Message == /\ part = "method" /\ part' = "message" /\ UNCHANGED given
MessagePath == /\ part = "message" /\ given = {} /\ given' = {"path"} /\ UNCHANGED part
CompleteMessage == /\ part = "message" /\ given = {"path"}
                   /\ part' = "complete" /\ UNCHANGED given

\* Whatever has been read is thrown away.
Refuse == /\ part # "complete" /\ part' = "refused" /\ given' = {}

Next == Method \/ (\E e \in {"path", "query"} : Target(e)) \/ EndTarget \/ Version
          \/ Field \/ Complete \/ Message \/ MessagePath \/ CompleteMessage \/ Refuse

Spec == Init /\ [][Next]_vars
=============================================================================
