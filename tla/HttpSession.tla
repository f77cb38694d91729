---------------------------- MODULE HttpSession ----------------------------
(***************************************************************************)
(* One connection of the HTTP server: HttpServer::handClient               *)
(* (httpserver.cc) and the buffer arithmetic of HttpSession                *)
(* (http_session.cc).  The bytes the client sends are numbered from 1; the *)
(* first HeadSize of them are a request's head, as the parser will find,   *)
(* and FieldStart to FieldEnd its Content-Length, up to the end of the     *)
(* line.  No other field's name ends in that name.                         *)
(***************************************************************************)
EXTENDS Integers, Sequences

CONSTANTS HeadSize,      \* where the head of the request ends
          FieldStart, FieldEnd,  \* where its Content-Length is
          MaxLength,     \* bound on the Content-Length
          Extra,         \* bound on what the client sends behind the request
          BuffSize,      \* GetHttpRequestBufferSize()
          ResponseSize   \* length of the response

VARIABLES phase,    \* where handClient is
          declared, \* the Content-Length that is sent, 0 without one
          numeric,  \* it is a number
          split,    \* a piece has ended inside of it
          length,   \* the Content-Length that is read
          taken,    \* bytes taken from the socket
          parsed,   \* bytes the parser has used
          data,     \* what the buffer holds in front of offset
          body, left,
          sent,     \* bytes of the response written
          failed    \* the last call on the socket failed

head == <<declared, numeric, split>>
vars == <<phase, head, length, taken, parsed, data, body, left, sent, failed>>

Bytes(from, to) == [i \in 1 .. to - from + 1 |-> from + i - 1]
Least(a, b) == IF a < b THEN a ELSE b

-----------------------------------------------------------------------------
(* Properties *)

\* Every variable has its type.
TypeOK ==
  /\ phase \in {"head", "length", "body", "handle", "respond", "close", "closed", "thrown"}
  /\ declared \in 0 .. MaxLength /\ numeric \in BOOLEAN /\ split \in BOOLEAN
  /\ length \in 0 .. MaxLength /\ parsed \in 0 .. HeadSize
  /\ taken \in 0 .. HeadSize + MaxLength + Extra
  /\ data \in Seq(1 .. taken) /\ Len(data) <= BuffSize
  /\ body \in Seq(1 .. taken) /\ left \in (-BuffSize) .. MaxLength
  /\ sent \in 0 .. ResponseSize /\ failed \in BOOLEAN

\* However the request and what follows it were cut into pieces, the servlet
\* gets the bytes behind the head, as many as the Content-Length says and in
\* their order, if no piece ended inside the Content-Length; if one did, nothing.
BodyExact ==
  phase \in {"handle", "respond"} =>
    body = IF split THEN <<>> ELSE Bytes(HeadSize + 1, HeadSize + declared)

-----------------------------------------------------------------------------

Init ==
  /\ phase = "head" /\ declared \in 0 .. MaxLength /\ numeric \in BOOLEAN
  /\ split = FALSE /\ length = 0
  /\ taken = 0 /\ parsed = 0 /\ data = <<>> /\ body = <<>> /\ left = 0
  /\ sent = 0 /\ failed = FALSE

Available == HeadSize + declared + Extra - taken

\* recv() fails or runs into its timeout, or the parser finds an error.
Fails ==
  /\ phase \in {"head", "body"}
  /\ phase' = "close" /\ failed' = TRUE
  /\ UNCHANGED <<head, length, taken, parsed, data, body, left, sent>>

\* What the parser does not use is moved to the front of the buffer.
Used(n) == Least(HeadSize - parsed, Len(data) + n)
RestUnmoved(n) == data \o Bytes(taken + 1, taken + n)   \* mutant: no memmove
Rest(n) == LET filled == data \o Bytes(taken + 1, taken + n)
           IN  SubSeq(filled, Used(n) + 1, Len(filled))

\* One turn of the loop of recvRequest.  The parser forgets at the end of a piece
\* where the name of a field began, or how long it was.
RecvHead(n) ==
  /\ phase = "head" /\ n <= Least(Available, BuffSize - Len(data))
  /\ taken' = taken + n /\ parsed' = parsed + Used(n) /\ data' = Rest(n)
  /\ split' = (split \/ parsed' \in FieldStart .. FieldEnd - 1)
  /\ phase' = IF Len(Rest(n)) = BuffSize THEN "close"
              ELSE IF parsed' < HeadSize THEN "head" ELSE "length"
  /\ failed' = (Len(Rest(n)) = BuffSize)
  /\ UNCHANGED <<declared, numeric, length, body, left, sent>>

\* getContentLength: a field that a piece ended in has lost the beginning of its
\* name or all of it, and without the field the length is that of "0".
ContentLength == IF split THEN 0 ELSE declared

\* lexical_cast throws, which ends the coroutine, and with it the socket.
Throw ==
  /\ phase = "length" /\ ~numeric /\ ~split /\ phase' = "thrown"
  /\ UNCHANGED <<head, length, taken, parsed, data, body, left, sent, failed>>

\* What the buffer holds of the body; a request without one goes on to its servlet.
TakeBody ==
  /\ phase = "length" /\ (numeric \/ split)
  /\ length' = ContentLength
  /\ phase' = IF ContentLength > 0 THEN "body" ELSE "handle"
  /\ body' = SubSeq(data, 1, Least(ContentLength, Len(data)))
  /\ left' = ContentLength - Len(data)
  /\ UNCHANGED <<head, taken, parsed, data, sent, failed>>

\* The loop of recvlen.
RecvBody(n) ==
  /\ phase = "body" /\ left > 0 /\ n <= Least(Available, left)
  /\ body' = body \o Bytes(taken + 1, taken + n)
  /\ taken' = taken + n /\ left' = left - n
  /\ UNCHANGED <<phase, head, length, parsed, data, sent, failed>>

BodyDone ==
  /\ phase = "body" /\ left <= 0 /\ phase' = "handle"
  /\ UNCHANGED <<head, length, taken, parsed, data, body, left, sent, failed>>

\* ServletDispatch::handle, then sendResponse.
Handle ==
  /\ phase = "handle" /\ phase' = "respond"
  /\ UNCHANGED <<head, length, taken, parsed, data, body, left, sent, failed>>

\* The loop of sendlen, where send() may write a part.
Send(n) ==
  /\ phase = "respond" /\ sent + n <= ResponseSize
  /\ sent' = sent + n
  /\ phase' = IF sent' = ResponseSize THEN "close" ELSE phase
  /\ UNCHANGED <<head, length, taken, parsed, data, body, left, failed>>

SendFails ==
  /\ phase = "respond" /\ phase' = "close" /\ failed' = TRUE
  /\ UNCHANGED <<head, length, taken, parsed, data, body, left, sent>>

\* After one request, whatever keep-alive says.
Close ==
  /\ phase = "close" /\ phase' = "closed"
  /\ UNCHANGED <<head, length, taken, parsed, data, body, left, sent, failed>>

Next ==
  \/ Fails \/ Throw \/ TakeBody \/ BodyDone \/ Handle \/ SendFails \/ Close
  \/ \E n \in 1 .. BuffSize : RecvHead(n)
  \/ \E n \in 1 .. MaxLength : RecvBody(n)
  \/ \E n \in 1 .. ResponseSize : Send(n)

Spec == Init /\ [][Next]_vars
=============================================================================
