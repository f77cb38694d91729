------------------------- MODULE HttpRequestParser -------------------------
(***************************************************************************)
(* The head of a request: the loop of HttpSession::recvRequest             *)
(* (http_session.cc), HttpRequestParser::execute and its callbacks         *)
(* (http_parser.cc), and http_parser_execute with the automaton of         *)
(* Http11Table.  The input is any sequence of bytes, cut anywhere into     *)
(* pieces.  A position in the buffer is abstracted to the state in which   *)
(* it was taken, 0 being the beginning of the buffer, and a string to      *)
(* "whole", "cut" (a part of what was sent) or "none".                     *)
(***************************************************************************)
EXTENDS Http11Table, FiniteSets

CONSTANTS MaxPieces   \* recv() is called so often, then all the rest arrives

VARIABLES phase,        \* of recvRequest
          pieces,       \* calls of recv() so far
          cs, mark, field_start, query_start,
          field_len,    \* what it measures: "none" (0), "whole" or "cut"
          uri_relaxed,
          request,      \* m_data, by element
          m_error

vars == <<phase, pieces, cs, mark, field_start, query_start, field_len,
          uri_relaxed, request, m_error>>

Elements == {"method", "path", "query", "version", "field"}
Values == {"none", "whole", "cut"}
Final == {348, 349}

-----------------------------------------------------------------------------
(* Properties of one state *)

\* Every variable has its type.
TypeOK ==
  /\ phase \in {"recv", "parse", "closed", "finished", "thrown"}
  /\ pieces \in 0 .. MaxPieces
  /\ cs \in States \cup {0}
  /\ mark \in States \cup {0} /\ field_start \in States \cup {0}
  /\ query_start \in {"unset", "here", "earlier"}
  /\ field_len \in Values
  /\ uri_relaxed \in BOOLEAN /\ m_error \in BOOLEAN
  /\ request \in [Elements -> Values]

\* Whatever the bytes, a request that arrives in one piece is handed over
\* whole: no callback is called with the mark of another element or with a mark
\* that was never set, no field is dropped, and only a method is refused.
WholeInOnePiece ==
  pieces = 1 => /\ phase # "thrown"
                /\ \A e \in Elements : request[e] # "cut"
                /\ cs \in {15, 16} => field_len = "whole"
                /\ m_error => request["method"] = "none"

\* The same of a request in any number of pieces: README.md calls the module an
\* implementation of HTTP/1.1, where a request is a stream of bytes.
WholeTokens ==
  phase = "finished" /\ cs = 348 => \A e \in Elements : request[e] # "cut"

\* recvRequest returns nothing that the parser found wrong, and no HTTP request
\* without method, path and version, however the pieces were cut.
CompleteRequest ==
  phase = "finished" =>
     /\ ~m_error /\ cs \in Final
     /\ request["path"] # "none"
     /\ cs = 348 => request["method"] # "none" /\ request["version"] # "none"

\* Whatever the bytes and the pieces, what reaches the servlets is a request.
RequestSound == WholeInOnePiece /\ CompleteRequest

-----------------------------------------------------------------------------

\* http_parser_init leaves uri_relaxed and query_start as they are.
Init ==
  /\ phase = "recv" /\ pieces = 0
  /\ cs = 1 /\ mark = 0 /\ field_start = 0 /\ field_len = "none"
  /\ query_start = "unset" /\ uri_relaxed \in BOOLEAN
  /\ request = [e \in Elements |-> "none"] /\ m_error = FALSE

\* The start of http_parser_execute; a mark of an earlier call is gone, but
\* query_start keeps its value.
Execute ==
  /\ phase = "recv"
  /\ phase' = "parse"
  /\ pieces' = IF pieces < MaxPieces THEN pieces + 1 ELSE pieces
  /\ mark' = 0 /\ field_start' = 0 /\ field_len' = "none"
  /\ query_start' = IF query_start = "here" THEN "earlier" ELSE query_start
  /\ UNCHANGED <<cs, uri_relaxed, request, m_error>>

\* recv() fails or times out.
RecvFails ==
  /\ phase = "recv" /\ phase' = "closed"
  /\ UNCHANGED <<pieces, cs, mark, field_start, query_start, field_len,
                 uri_relaxed, request, m_error>>

\* The rule of state cs for a byte, if there is one.
Rules(b) ==
  {r \in Delta[cs] : b \in r.on \/ (b \in Loose /\ uri_relaxed /\ "relaxed" \in r.on)}

Marked(r) == IF "mark" \in r.do THEN cs ELSE mark
QueryMarked(r) == IF "start_query" \in r.do THEN "here" ELSE query_start

\* The states in which the mark of an element is taken.
Begins(e) == CASE e = "method" -> {1}
               [] e = "path" -> IF cs \in 194 .. 347 THEN {1} ELSE {3, 174}
               [] e = "version" -> {4}
               [] e = "field" -> {13, 15}

Element(e, r) == IF Marked(r) \in Begins(e) THEN "whole" ELSE "cut"

\* on_request_http_field drops a field whose name has no length; a name
\* without its beginning is stored.
Field(r) ==
  IF field_len = "none" THEN request["field"]
  ELSE IF field_len = "cut" \/ request["field"] = "cut" THEN "cut"
  ELSE Element("field", r)

\* What the callbacks that a rule makes leave in the request.
Called(r) ==
  [e \in Elements |->
     CASE e = "method" /\ "request_method" \in r.do -> Element(e, r)
       [] e = "path" /\ "request_path" \in r.do -> Element(e, r)
       [] e = "version" /\ "http_version" \in r.do -> Element(e, r)
       [] e = "query" /\ "query_string" \in r.do ->
            IF QueryMarked(r) = "here" THEN "whole" ELSE "cut"
       [] e = "field" /\ "http_field" \in r.do -> Field(r)
       [] OTHER -> request[e]]

\* The callbacks refuse a method that is not in their list, and a version that
\* is not HTTP/1.0 or HTTP/1.1, which can only be a part of one.
Refusable(r) ==
  (IF "request_method" \in r.do THEN {"method"} ELSE {}) \cup
  (IF "http_version" \in r.do /\ Element("version", r) = "cut" THEN {"version"} ELSE {})

FieldLenNever(r) == {field_len}   \* mutant: the length of the name is not kept
FieldLen(r) ==
  IF "write_field" \notin r.do THEN {field_len}
  ELSE IF field_start # 0 THEN {"whole"} ELSE {"cut", "none"}

\* One byte, in a rule's way or into the error state.  The parse goes on after
\* a callback has set m_error.
Accept(r) ==
  /\ cs' = r.to
  /\ mark' = Marked(r) /\ query_start' = QueryMarked(r)
  /\ field_start' = IF "start_field" \in r.do THEN cs ELSE field_start
  /\ field_len' \in FieldLen(r)
  /\ \/ request' = Called(r) /\ UNCHANGED m_error
     \/ \E e \in Refusable(r) :
          request' = [Called(r) EXCEPT ![e] = request[e]] /\ m_error' = TRUE
  /\ UNCHANGED <<phase, pieces, uri_relaxed>>

\* The length of a query that starts in an earlier piece is the difference of
\* two unrelated positions; if it is negative, on_request_query throws.
Throw(r) ==
  /\ "query_string" \in r.do /\ QueryMarked(r) # "here"
  /\ phase' = "thrown"
  /\ UNCHANGED <<pieces, cs, mark, field_start, query_start, field_len,
                 uri_relaxed, request, m_error>>

Reject(b) ==
  /\ Rules(b) = {} /\ cs' = 0
  /\ UNCHANGED <<phase, pieces, mark, field_start, query_start, field_len,
                 uri_relaxed, request, m_error>>

Parse(b) == /\ phase = "parse" /\ cs \in States \ Final
            /\ (\E r \in Rules(b) : Accept(r) \/ Throw(r)) \/ Reject(b)

ReturnUnchecked ==   \* mutant: hasError() looks at the automaton only
  /\ phase = "parse"
  /\ cs \in Final \cup {0} \/ pieces < MaxPieces
  /\ phase' = IF cs = 0 THEN "closed" ELSE IF cs \in Final THEN "finished" ELSE "recv"
  /\ UNCHANGED <<pieces, cs, mark, field_start, query_start, field_len,
                 uri_relaxed, request, m_error>>

\* The end of the piece, of the header or of what can be parsed; nothing is
\* left in the buffer unless the header has ended.
Return ==
  /\ phase = "parse"
  /\ cs \in Final \cup {0} \/ pieces < MaxPieces
  /\ phase' = IF m_error \/ cs = 0 THEN "closed"
              ELSE IF cs \in Final THEN "finished" ELSE "recv"
  /\ UNCHANGED <<pieces, cs, mark, field_start, query_start, field_len,
                 uri_relaxed, request, m_error>>

Next == Execute \/ RecvFails \/ (\E b \in Bytes : Parse(b)) \/ Return

Spec == Init /\ [][Next]_vars

-----------------------------------------------------------------------------
(* The automaton against the grammar *)

Refused == phase \in {"closed", "thrown"} \/ cs = 0 \/ m_error

Part ==
  IF Refused THEN "refused"
  ELSE CASE cs \in Final -> "complete"
         [] cs \in {1, 2} \cup 175 .. 193 -> "method"
         [] cs \in {3} \cup 19 .. 174 -> "target"
         [] cs \in 4 .. 12 -> "version"
         [] cs \in 13 .. 18 -> "fields"
         [] cs \in 194 .. 347 -> "message"

Grammar == INSTANCE RequestGrammar
             WITH part <- Part,
                  given <- IF Refused THEN {}
                           ELSE {e \in Elements : request[e] # "none"}

\* For every input and however it is cut, the callbacks come in the order of
\* the grammar and the end only after all of them.  A callback that is made
\* twice before the next element is not told apart from one made once.
ImplementsGrammar == Grammar!Spec

=============================================================================
