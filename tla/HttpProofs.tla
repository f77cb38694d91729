----------------------------- MODULE HttpProofs -----------------------------
(***************************************************************************)
(* Proofs about the HTTP server: the session gives the servlet its body,   *)
(* the sessions' timer deletes what is out of date, the globs answer in    *)
(* the order of their registration, and what the parser hands over is what *)
(* came in, in the order of the grammar.  The parts are proved one by one, *)
(* each by an invariant of its own, and put together.  What the automaton  *)
(* of Http11Table does is read off its rules.                              *)
(***************************************************************************)
EXTENDS HttpParts, Sequences, WellFoundedInduction, TLAPS

-----------------------------------------------------------------------------
(* HttpSession: the bytes of the body. *)

LEMMA SeqWider ==
  ASSUME NEW A, NEW B, A \subseteq B, NEW s \in Seq(A)
  PROVE  s \in Seq(B)
  <1>1. Len(s) \in Nat /\ \A i \in 1 .. Len(s) : s[i] \in A OBVIOUS
  <1>2. s = [i \in 1 .. Len(s) |-> s[i]] OBVIOUS
  <1>3. \A i \in 1 .. Len(s) : s[i] \in B BY <1>1
  <1> DEFINE n == Len(s)
             t == [i \in 1 .. n |-> s[i]]
  <1>4. n \in Nat /\ \A i \in 1 .. n : s[i] \in B BY <1>1, <1>3
  <1>5. s = t BY <1>2
  <1> HIDE DEF n
  <1>6. t \in Seq(B) BY <1>4
  <1>. QED BY <1>5, <1>6

LEMMA BytesType ==
  ASSUME NEW a \in Nat \ {0}, NEW b \in Nat, a <= b + 1, NEW c \in Nat, b <= c
  PROVE  /\ Len(S!Bytes(a, b)) = b - a + 1 /\ Len(S!Bytes(a, b)) \in Nat
         /\ S!Bytes(a, b) \in Seq(1 .. c)
  <1> DEFINE m == b - a + 1
             f == [i \in 1 .. m |-> a + i - 1]
  <1>1. m \in Nat /\ S!Bytes(a, b) = f BY DEF S!Bytes
  <1>2. \A i \in 1 .. m : f[i] \in 1 .. c OBVIOUS
  <1>3. f = [i \in 1 .. m |-> f[i]] OBVIOUS
  <1> HIDE DEF m, f
  <1>4. f \in Seq(1 .. c) /\ Len(f) = m BY <1>1, <1>2, <1>3
  <1>. QED BY <1>1, <1>4 DEF m

LEMMA BytesJoin ==
  ASSUME NEW a \in Nat \ {0}, NEW b \in Nat, NEW c \in Nat, a <= b + 1, b <= c
  PROVE  S!Bytes(a, b) \o S!Bytes(b + 1, c) = S!Bytes(a, c)
  <1> DEFINE f == S!Bytes(a, b)
             g == S!Bytes(b + 1, c)
             h == S!Bytes(a, c)
  <1>1. /\ f \in Seq(1 .. c) /\ Len(f) = b - a + 1 /\ g \in Seq(1 .. c) /\ Len(g) = c - b
        /\ f = [i \in 1 .. b - a + 1 |-> a + i - 1] /\ g = [i \in 1 .. c - b |-> b + i]
        /\ h = [i \in 1 .. c - a + 1 |-> a + i - 1]
    <2>1. b + 1 \in Nat \ {0} /\ b + 1 <= c + 1 /\ a <= c + 1 /\ c - (b + 1) + 1 = c - b OBVIOUS
    <2>2. \A i \in 1 .. c - b : (b + 1) + i - 1 = b + i OBVIOUS
    <2>3. f \in Seq(1 .. c) /\ Len(f) = b - a + 1 BY BytesType
    <2>4. g \in Seq(1 .. c) /\ Len(g) = c - (b + 1) + 1
      <3>1. c <= c OBVIOUS
      <3>. QED BY <2>1, <3>1, BytesType
    <2>5. /\ f = [i \in 1 .. b - a + 1 |-> a + i - 1] /\ g = [i \in 1 .. c - b |-> b + i]
          /\ h = [i \in 1 .. c - a + 1 |-> a + i - 1]
      BY <2>1, <2>2 DEF S!Bytes
    <2> HIDE DEF f, g, h
    <2>. QED BY <2>1, <2>3, <2>4, <2>5
  <1> HIDE DEF f, g, h
  <1> DEFINE u == f \o g
  <1>2. u = [i \in 1 .. Len(f) + Len(g) |-> IF i <= Len(f) THEN f[i] ELSE g[i - Len(f)]]
    BY <1>1
  <1>3. Len(f) + Len(g) = c - a + 1 BY <1>1
  <1>4. ASSUME NEW i \in 1 .. c - a + 1
        PROVE  (IF i <= Len(f) THEN f[i] ELSE g[i - Len(f)]) = a + i - 1
    <2>1. CASE i <= Len(f)
      <3>1. i \in 1 .. b - a + 1 BY <1>1, <2>1
      <3>. QED BY <1>1, <2>1, <3>1
    <2>2. CASE ~(i <= Len(f))
      <3>1. i - Len(f) \in 1 .. c - b /\ b + (i - Len(f)) = a + i - 1 BY <1>1, <2>2
      <3>. QED BY <1>1, <2>2, <3>1
    <2>. QED BY <2>1, <2>2
  <1>5. u = h BY <1>1, <1>2, <1>3, <1>4
  <1>. QED BY <1>5 DEF f, g, h, u

LEMMA BytesPart ==
  ASSUME NEW a \in Nat \ {0}, NEW b \in Nat, NEW i \in Nat \ {0}, NEW j \in Nat,
         a <= b + 1, i <= j + 1, j <= b - a + 1
  PROVE  SubSeq(S!Bytes(a, b), i, j) = S!Bytes(a + i - 1, a + j - 1)
  <1> DEFINE f == S!Bytes(a, b)
  <1>1. /\ f \in Seq(1 .. b) /\ Len(f) = b - a + 1 /\ f = [k \in 1 .. b - a + 1 |-> a + k - 1]
    <2>1. f \in Seq(1 .. b) /\ Len(f) = b - a + 1
      <3>1. b <= b OBVIOUS
      <3>. QED BY <3>1, BytesType
    <2>2. f = [k \in 1 .. b - a + 1 |-> a + k - 1] BY DEF S!Bytes
    <2>. QED BY <2>1, <2>2
  <1> HIDE DEF f
  <1>2. SubSeq(f, i, j) = [k \in 1 .. j - i + 1 |-> f[i + k - 1]] BY <1>1
  <1>3. \A k \in 1 .. j - i + 1 : i + k - 1 \in 1 .. b - a + 1 OBVIOUS
  <1>4. \A k \in 1 .. j - i + 1 : f[i + k - 1] = (a + i - 1) + k - 1
    <2> SUFFICES ASSUME NEW k \in 1 .. j - i + 1 PROVE f[i + k - 1] = (a + i - 1) + k - 1 OBVIOUS
    <2>1. f[i + k - 1] = a + (i + k - 1) - 1 BY <1>1, <1>3
    <2>. QED BY <2>1
  <1>5. SubSeq(f, i, j) = [k \in 1 .. j - i + 1 |-> (a + i - 1) + k - 1] BY <1>2, <1>4
  <1>6. (a + j - 1) - (a + i - 1) + 1 = j - i + 1 OBVIOUS
  <1>. QED BY <1>5, <1>6 DEF f, S!Bytes

LEMMA SessionSizes ==
  /\ HeadSize \in Nat /\ MaxLength \in Nat /\ Extra \in Nat /\ BuffSize \in Nat
  /\ ResponseSize \in Nat
  BY HttpAssumption

\* The inductive invariant of a session.  While the head is read, the parser has
\* used all that has come; when it has ended, the buffer holds what has come behind
\* it; and from then on the body is that, up to its length.
Session ==
  /\ S!TypeOK
  /\ taken <= HeadSize + declared + Extra
  /\ sphase = "head" => data = <<>> /\ parsed = taken
  /\ sphase = "length" => HeadSize <= taken /\ data = S!Bytes(HeadSize + 1, taken)
  /\ sphase = "body" =>
       /\ HeadSize <= taken /\ left = length - (taken - HeadSize)
       /\ body = S!Bytes(HeadSize + 1, HeadSize + S!Least(length, taken - HeadSize))
       /\ ~split /\ length = declared
  /\ BodyExact

LEMMA SessionAtFirst == S!Init => Session
  <1> SUFFICES ASSUME S!Init PROVE Session OBVIOUS
  <1> USE SessionSizes DEF S!Init
  <1>1. declared \in Nat /\ HeadSize + declared + Extra \in Nat OBVIOUS
  <1>2. 0 \in 0 .. HeadSize /\ 0 \in 0 .. HeadSize + MaxLength + Extra /\ 0 \in 0 .. ResponseSize
        /\ 0 \in (-BuffSize) .. MaxLength /\ 0 \in 0 .. MaxLength
    OBVIOUS
  <1>3. <<>> \in Seq(1 .. 0) /\ Len(<<>>) = 0 OBVIOUS
  <1>4. data \in Seq(1 .. taken) /\ Len(data) <= BuffSize /\ body \in Seq(1 .. taken)
    BY <1>3
  <1>5. S!TypeOK BY <1>2, <1>4 DEF S!TypeOK
  <1>. QED BY <1>1, <1>5 DEF Session, BodyExact, S!BodyExact

\* What a turn of recvRequest leaves in the buffer.
LEMMA RestIs ==
  ASSUME Session, sphase = "head", NEW n \in 1 .. BuffSize
  PROVE  LET used == S!Least(HeadSize - parsed, n)
         IN  /\ used \in 0 .. n /\ S!Used(n) = used
             /\ S!Rest(n) = S!Bytes(taken + used + 1, taken + n)
             /\ Len(S!Rest(n)) = n - used
  <1> USE SessionSizes DEF Session, S!TypeOK
  <1> DEFINE used == S!Least(HeadSize - parsed, n)
  <1>1. /\ data = <<>> /\ Len(data) = 0 /\ parsed = taken /\ taken \in Nat /\ n \in Nat \ {0}
        /\ HeadSize - parsed \in Nat
    OBVIOUS
  <1>2. used \in 0 .. n /\ used \in Nat BY <1>1 DEF S!Least
  <1>3. S!Used(n) = used BY <1>1 DEF S!Used
  <1> HIDE DEF used
  <1> DEFINE b == S!Bytes(taken + 1, taken + n)
  <1>4. Len(b) = n /\ b \in Seq(1 .. taken + n)
    <2>1. /\ taken + 1 \in Nat \ {0} /\ taken + n \in Nat /\ taken + 1 <= (taken + n) + 1
          /\ (taken + n) - (taken + 1) + 1 = n /\ taken + n <= taken + n
      BY <1>1
    <2> HIDE SessionSizes DEF Session
    <2>. QED BY <2>1, BytesType
  <1>5. S!Rest(n) = SubSeq(b, used + 1, n)
    <2> HIDE DEF b
    <2>1. data \o b = b BY <1>1, <1>4
    <2>. QED BY <1>3, <1>4, <2>1 DEF S!Rest, b
  <1>6. S!Rest(n) = S!Bytes(taken + used + 1, taken + n)
    <2>1. /\ taken + 1 \in Nat \ {0} /\ taken + n \in Nat /\ used + 1 \in Nat \ {0} /\ n \in Nat \ {0}
          /\ taken + 1 <= (taken + n) + 1 /\ used + 1 <= n + 1
          /\ n <= (taken + n) - (taken + 1) + 1
          /\ (taken + 1) + (used + 1) - 1 = taken + used + 1 /\ (taken + 1) + n - 1 = taken + n
      BY <1>1, <1>2
    <2> HIDE SessionSizes DEF Session, S!TypeOK
    <2>2. SubSeq(S!Bytes(taken + 1, taken + n), used + 1, n)
            = S!Bytes((taken + 1) + (used + 1) - 1, (taken + 1) + n - 1)
      <3> HIDE DEF b
      <3>. QED BY ONLY <2>1, BytesPart, ZenonT(30)
    <2>. QED BY <1>5, <2>1, <2>2
  <1>7. /\ taken + used + 1 \in Nat \ {0} /\ taken + used + 1 <= (taken + n) + 1
        /\ (taken + n) - (taken + used + 1) + 1 = n - used /\ taken + n <= taken + n
        /\ taken + n \in Nat
    BY <1>1, <1>2
  <1>8. Len(S!Rest(n)) = n - used
    <2> HIDE SessionSizes DEF Session
    <2>. QED BY <1>6, <1>7, BytesType
  <1>. QED BY <1>2, <1>3, <1>6, <1>8 DEF used

LEMMA RecvHeadStep ==
  ASSUME Session, NEW n \in 1 .. BuffSize, S!RecvHead(n)
  PROVE  Session'
  <1> DEFINE used == S!Least(HeadSize - parsed, n)
             rest == n - used
  <1>1. /\ sphase = "head" /\ n <= S!Least(S!Available, BuffSize - Len(data))
        /\ taken' = taken + n /\ parsed' = parsed + S!Used(n) /\ data' = S!Rest(n)
        /\ split' \in BOOLEAN
        /\ sphase' = IF Len(S!Rest(n)) = BuffSize THEN "close"
                     ELSE IF parsed' < HeadSize THEN "head" ELSE "length"
        /\ failed' = (Len(S!Rest(n)) = BuffSize)
        /\ UNCHANGED <<declared, numeric, length, body, left, sent>>
    BY DEF S!RecvHead, Session, S!TypeOK
  <1>2. /\ used \in 0 .. n /\ S!Used(n) = used
        /\ S!Rest(n) = S!Bytes(taken + used + 1, taken + n)
        /\ Len(S!Rest(n)) = rest
    BY <1>1, RestIs
  <1>3. /\ data = <<>> /\ Len(data) = 0 /\ parsed = taken /\ taken \in Nat /\ n \in Nat \ {0}
        /\ HeadSize - parsed \in Nat /\ declared \in 0 .. MaxLength /\ declared \in Nat
        /\ taken <= HeadSize + declared + Extra /\ parsed \in 0 .. HeadSize
    BY <1>1, SessionSizes DEF Session, S!TypeOK
  <1>4. taken + n <= HeadSize + declared + Extra /\ n <= BuffSize
    BY <1>1, <1>3, SessionSizes DEF S!Available, S!Least
  <1>5. used = HeadSize - parsed \/ (used = n /\ parsed + used < HeadSize)
    BY <1>3, SessionSizes DEF S!Least
  <1>6. used \in Nat /\ rest \in 0 .. n BY <1>2, <1>3
  <1>8. parsed + used \in 0 .. HeadSize BY <1>3, <1>5, <1>6, SessionSizes
  <1> HIDE DEF used
  <1>10. data' \in Seq(1 .. taken') /\ body' \in Seq(1 .. taken')
    <2>1. /\ taken + used + 1 \in Nat \ {0} /\ taken + n \in Nat
          /\ taken + used + 1 <= (taken + n) + 1 /\ taken + n <= taken + n
      BY <1>2, <1>3, <1>6
    <2>2. S!Bytes(taken + used + 1, taken + n) \in Seq(1 .. taken + n)
      BY ONLY <2>1, BytesType
    <2>3. body \in Seq(1 .. taken) /\ 1 .. taken \subseteq 1 .. taken + n
      BY <1>3 DEF Session, S!TypeOK
    <2>4. body \in Seq(1 .. taken + n) BY ONLY <2>3, SeqWider
    <2>. QED BY <1>1, <1>2, <2>2, <2>4
  <1>11. S!TypeOK'
    <2>1. sphase' \in {"head", "length", "body", "handle", "respond", "close", "closed", "thrown"}
      BY <1>1
    <2>2. declared' \in 0 .. MaxLength /\ numeric' \in BOOLEAN /\ split' \in BOOLEAN
          /\ length' \in 0 .. MaxLength /\ left' \in (-BuffSize) .. MaxLength
          /\ sent' \in 0 .. ResponseSize /\ failed' \in BOOLEAN
      BY <1>1 DEF Session, S!TypeOK
    <2>3. parsed' \in 0 .. HeadSize BY <1>1, <1>2, <1>8
    <2>4. taken' \in 0 .. HeadSize + MaxLength + Extra BY <1>1, <1>3, <1>4, SessionSizes
    <2>5. Len(data') <= BuffSize BY <1>1, <1>2, <1>3, <1>4, <1>6, SessionSizes
    <2>. QED BY <1>10, <2>1, <2>2, <2>3, <2>4, <2>5 DEF S!TypeOK
  <1>12. taken' <= HeadSize + declared' + Extra BY <1>1, <1>4
  <1>13. sphase' = "head" => data' = <<>> /\ parsed' = taken'
    <2> SUFFICES ASSUME sphase' = "head" PROVE data' = <<>> /\ parsed' = taken' OBVIOUS
    <2>1. parsed + used < HeadSize BY <1>1, <1>2
    <2>2. used = n /\ rest = 0 BY <1>3, <1>5, <2>1, SessionSizes
    <2>3. data' = <<>> BY <1>1, <1>2, <1>10, <2>2
    <2>. QED BY <1>1, <1>2, <1>3, <2>2, <2>3
  <1>14. sphase' = "length" => HeadSize <= taken' /\ data' = S!Bytes(HeadSize + 1, taken')
    <2> SUFFICES ASSUME sphase' = "length"
                 PROVE  HeadSize <= taken' /\ data' = S!Bytes(HeadSize + 1, taken')
      OBVIOUS
    <2>1. ~(parsed + used < HeadSize) BY <1>1, <1>2
    <2>2. taken + used = HeadSize BY <1>3, <1>5, <1>6, <2>1, SessionSizes
    <2>3. HeadSize <= taken' BY <1>1, <1>2, <1>3, <1>6, <2>2, SessionSizes
    <2>. QED BY <1>1, <1>2, <2>2, <2>3
  <1>15. sphase' \in {"close", "head", "length"} BY <1>1
  <1>16. BodyExact' BY <1>15 DEF BodyExact, S!BodyExact
  <1>. QED BY <1>11, <1>12, <1>13, <1>14, <1>15, <1>16 DEF Session

\* What the buffer holds of the body is the first part of it.
LEMMA TakeBodyStep == ASSUME Session, S!TakeBody PROVE Session'
  <1> DEFINE k == S!Least(S!ContentLength, Len(data))
  <1>1. /\ sphase = "length"
        /\ length' = S!ContentLength
        /\ sphase' = IF S!ContentLength > 0 THEN "body" ELSE "handle"
        /\ body' = SubSeq(data, 1, k)
        /\ left' = S!ContentLength - Len(data)
        /\ UNCHANGED <<declared, numeric, split, taken, parsed, data, sent, failed>>
    BY DEF S!TakeBody, S!head
  <1>2. /\ HeadSize <= taken /\ data = S!Bytes(HeadSize + 1, taken)
        /\ taken \in Nat /\ declared \in 0 .. MaxLength /\ split \in BOOLEAN
        /\ data \in Seq(1 .. taken) /\ Len(data) <= BuffSize
    BY <1>1 DEF Session, S!TypeOK
  <1>3. /\ S!ContentLength \in 0 .. MaxLength /\ S!ContentLength \in Nat
        /\ S!ContentLength > 0 => ~split
        /\ ~split => S!ContentLength = declared
        /\ split => S!ContentLength = 0
    BY <1>2, SessionSizes DEF S!ContentLength
  <1>4. Len(data) = taken - HeadSize /\ Len(data) \in Nat
    <2>1. /\ HeadSize + 1 \in Nat \ {0} /\ HeadSize + 1 <= taken + 1 /\ taken <= taken
          /\ taken - (HeadSize + 1) + 1 = taken - HeadSize /\ taken \in Nat
      BY <1>2, SessionSizes
    <2>2. Len(S!Bytes(HeadSize + 1, taken)) = taken - (HeadSize + 1) + 1 BY ONLY <2>1, BytesType
    <2>. QED BY <1>2, <2>1, <2>2
  <1> HIDE DEF k
  <1>5. k \in Nat /\ k <= Len(data) /\ k = S!Least(S!ContentLength, taken - HeadSize)
    BY <1>3, <1>4 DEF S!Least, k
  <1>6. body' = S!Bytes(HeadSize + 1, HeadSize + k)
    <2>1. CASE k \in Nat \ {0}
      <3>1. /\ HeadSize + 1 \in Nat \ {0} /\ taken \in Nat /\ 1 \in Nat \ {0} /\ k \in Nat \ {0}
            /\ HeadSize + 1 <= taken + 1 /\ 1 <= k + 1 /\ k <= taken - (HeadSize + 1) + 1
            /\ (HeadSize + 1) + 1 - 1 = HeadSize + 1 /\ (HeadSize + 1) + k - 1 = HeadSize + k
        BY <1>2, <1>4, <1>5, <2>1, SessionSizes
      <3>2. k \in Nat /\ 1 \in Nat BY <3>1
      <3>3. SubSeq(S!Bytes(HeadSize + 1, taken), 1, k)
              = S!Bytes((HeadSize + 1) + 1 - 1, (HeadSize + 1) + k - 1)
        BY ONLY <3>1, <3>2, BytesPart, ZenonT(30)
      <3>. QED BY <1>1, <1>2, <3>1, <3>3
    <2>2. CASE k = 0
      <3>1. SubSeq(data, 1, 0) = <<>> BY <1>2
      <3>2. (HeadSize + k) - (HeadSize + 1) + 1 = 0 BY <2>2, SessionSizes
      <3>3. S!Bytes(HeadSize + 1, HeadSize + k) = <<>> BY <3>2 DEF S!Bytes
      <3>. QED BY <1>1, <2>2, <3>1, <3>3
    <2>. QED BY <1>5, <2>1, <2>2
  <1>7. body' \in Seq(1 .. taken')
    <2>1. /\ HeadSize + 1 \in Nat \ {0} /\ HeadSize + k \in Nat
          /\ HeadSize + 1 <= (HeadSize + k) + 1 /\ HeadSize + k <= taken /\ taken \in Nat
      BY <1>2, <1>4, <1>5, SessionSizes
    <2>2. S!Bytes(HeadSize + 1, HeadSize + k) \in Seq(1 .. taken) BY ONLY <2>1, BytesType
    <2>. QED BY <1>1, <1>6, <2>2
  <1>8. left' \in (-BuffSize) .. MaxLength BY <1>1, <1>2, <1>3, <1>4, SessionSizes
  <1>9. S!TypeOK'
    <2>1. sphase' \in {"body", "handle"} /\ length' \in 0 .. MaxLength BY <1>1, <1>3
    <2>. QED BY <1>1, <1>7, <1>8, <2>1 DEF Session, S!TypeOK
  <1>10. sphase' = "body" =>
           /\ HeadSize <= taken' /\ left' = length' - (taken' - HeadSize)
           /\ body' = S!Bytes(HeadSize + 1, HeadSize + S!Least(length', taken' - HeadSize))
           /\ ~split' /\ length' = declared'
    BY <1>1, <1>2, <1>3, <1>4, <1>5, <1>6
  <1>11. BodyExact'
    <2> SUFFICES ASSUME sphase' \in {"handle", "respond"}
                 PROVE  body' = IF split' THEN <<>> ELSE S!Bytes(HeadSize + 1, HeadSize + declared')
      BY DEF BodyExact, S!BodyExact
    <2>1. S!ContentLength = 0 BY <1>1, <1>3
    <2>2. k = 0 BY <1>4, <1>5, <2>1 DEF S!Least
    <2>3. body' = <<>> BY <1>1, <1>2, <2>2
    <2>4. ~split => body' = S!Bytes(HeadSize + 1, HeadSize + declared)
      BY <1>3, <1>6, <2>1, <2>2
    <2>. QED BY <1>1, <2>3, <2>4
  <1>12. sphase' \in {"body", "handle"} /\ taken' <= HeadSize + declared' + Extra
    BY <1>1 DEF Session
  <1>. QED BY <1>9, <1>10, <1>11, <1>12 DEF Session

LEMMA RecvBodyStep ==
  ASSUME Session, NEW n \in 1 .. MaxLength, S!RecvBody(n)
  PROVE  Session'
  <1>1. /\ sphase = "body" /\ left > 0 /\ n <= S!Least(S!Available, left)
        /\ body' = body \o S!Bytes(taken + 1, taken + n)
        /\ taken' = taken + n /\ left' = left - n
        /\ UNCHANGED <<sphase, declared, numeric, split, length, parsed, data, sent, failed>>
    BY DEF S!RecvBody, S!head
  <1>2. /\ HeadSize <= taken /\ left = length - (taken - HeadSize)
        /\ body = S!Bytes(HeadSize + 1, HeadSize + S!Least(length, taken - HeadSize))
        /\ taken \in Nat /\ n \in Nat \ {0} /\ length \in 0 .. MaxLength
        /\ ~split /\ length = declared /\ taken <= HeadSize + length + Extra
    BY <1>1, SessionSizes DEF Session, S!TypeOK
  <1>3. /\ taken + n <= HeadSize + length + Extra /\ n <= left
        /\ taken + n - HeadSize <= length
    BY <1>1, <1>2, SessionSizes DEF S!Available, S!Least
  <1>4. /\ S!Least(length, taken - HeadSize) = taken - HeadSize
        /\ S!Least(length, taken' - HeadSize) = taken' - HeadSize
    BY <1>1, <1>2, <1>3, SessionSizes DEF S!Least
  <1>5. HeadSize + (taken - HeadSize) = taken /\ HeadSize + (taken' - HeadSize) = taken'
    BY <1>1, <1>2, SessionSizes
  <1>6. body' = S!Bytes(HeadSize + 1, taken')
    <2>1. body = S!Bytes(HeadSize + 1, taken) BY <1>2, <1>4, <1>5
    <2>2. /\ HeadSize + 1 \in Nat \ {0} /\ taken \in Nat /\ taken + n \in Nat
          /\ HeadSize + 1 <= taken + 1 /\ taken <= taken + n
      BY <1>2, SessionSizes
    <2>3. S!Bytes(HeadSize + 1, taken) \o S!Bytes(taken + 1, taken + n)
            = S!Bytes(HeadSize + 1, taken + n)
      BY ONLY <2>2, BytesJoin
    <2>. QED BY <1>1, <2>1, <2>3
  <1>7. body' \in Seq(1 .. taken') /\ data' \in Seq(1 .. taken')
    <2>1. /\ HeadSize + 1 \in Nat \ {0} /\ taken' \in Nat
          /\ HeadSize + 1 <= taken' + 1 /\ taken' <= taken'
      BY <1>1, <1>2, SessionSizes
    <2>2. S!Bytes(HeadSize + 1, taken') \in Seq(1 .. taken') BY ONLY <2>1, BytesType
    <2>3. data \in Seq(1 .. taken) /\ 1 .. taken \subseteq 1 .. taken'
      BY <1>1, <1>2 DEF Session, S!TypeOK
    <2>4. data \in Seq(1 .. taken') BY ONLY <2>3, SeqWider
    <2>. QED BY <1>1, <1>6, <2>2, <2>4
  <1>8. taken' \in 0 .. HeadSize + MaxLength + Extra /\ left' \in (-BuffSize) .. MaxLength
    BY <1>1, <1>2, <1>3, SessionSizes
  <1>9. S!TypeOK' BY <1>1, <1>7, <1>8 DEF Session, S!TypeOK
  <1>10. left' = length' - (taken' - HeadSize) /\ HeadSize <= taken'
    BY <1>1, <1>2, SessionSizes
  <1>. QED BY <1>1, <1>2, <1>3, <1>4, <1>5, <1>6, <1>9, <1>10 DEF Session, BodyExact, S!BodyExact

\* The steps that neither take bytes nor change the body.
LEMMA SessionMoves ==
  ASSUME Session,
         \/ S!Fails \/ S!Throw \/ S!BodyDone \/ S!Handle \/ S!SendFails \/ S!Close
         \/ (\E n \in 1 .. ResponseSize : S!Send(n)) \/ UNCHANGED session
  PROVE  Session'
  <1>1. UNCHANGED <<declared, numeric, split, length, taken, parsed, data, body, left>>
    BY DEF S!head, S!Fails, S!Throw, S!BodyDone, S!Handle, S!SendFails, S!Close, S!Send, session
  <1>2. /\ sphase' \in {"head", "length", "body", "handle", "respond", "close", "closed",
                       "thrown"}
        /\ failed' \in BOOLEAN
    BY DEF S!head, S!Fails, S!Throw, S!BodyDone, S!Handle, S!SendFails, S!Close, S!Send, session,
           Session, S!TypeOK
  <1>3. sent' \in 0 .. ResponseSize
    BY SessionSizes
       DEF S!head, S!Fails, S!Throw, S!BodyDone, S!Handle, S!SendFails, S!Close, S!Send, session,
           Session, S!TypeOK
  <1>4. S!TypeOK' BY <1>1, <1>2, <1>3 DEF Session, S!TypeOK
  <1>5. sphase' \in {"head", "length", "body"} => sphase' = sphase
    BY DEF S!head, S!Fails, S!Throw, S!BodyDone, S!Handle, S!SendFails, S!Close, S!Send, session
  <1>6. BodyExact'
    <2> SUFFICES ASSUME sphase' \in {"handle", "respond"}
                 PROVE  body = IF split THEN <<>> ELSE S!Bytes(HeadSize + 1, HeadSize + declared)
      BY <1>1 DEF BodyExact, S!BodyExact
    <2>1. sphase \in {"handle", "respond"} \/ (sphase = "body" /\ left <= 0)
      BY DEF S!head, S!Fails, S!Throw, S!BodyDone, S!Handle, S!SendFails, S!Close, S!Send, session
    <2>2. CASE sphase \in {"handle", "respond"}
      BY <2>2 DEF Session, BodyExact, S!BodyExact
    <2>3. CASE sphase = "body" /\ left <= 0
      <3>1. /\ left = length - (taken - HeadSize) /\ HeadSize <= taken
            /\ body = S!Bytes(HeadSize + 1, HeadSize + S!Least(length, taken - HeadSize))
            /\ length \in 0 .. MaxLength /\ taken \in Nat /\ ~split /\ length = declared
        BY <2>3, SessionSizes DEF Session, S!TypeOK
      <3>2. S!Least(length, taken - HeadSize) = length
        BY <2>3, <3>1, SessionSizes DEF S!Least
      <3>. QED BY <3>1, <3>2
    <2>. QED BY <2>1, <2>2, <2>3
  <1>. QED BY <1>1, <1>4, <1>5, <1>6 DEF Session

LEMMA SessionStays == Session /\ [S!Next]_session => Session'
  <1> SUFFICES ASSUME Session, [S!Next]_session PROVE Session' OBVIOUS
  <1>1. ASSUME NEW n \in 1 .. BuffSize, S!RecvHead(n) PROVE Session' BY <1>1, RecvHeadStep
  <1>2. ASSUME NEW n \in 1 .. MaxLength, S!RecvBody(n) PROVE Session' BY <1>2, RecvBodyStep
  <1>. QED BY <1>1, <1>2, TakeBodyStep, SessionMoves DEF S!Next

-----------------------------------------------------------------------------
(* SessionDataMan: what the timer has collected. *)

LEMMA TimerBounds ==
  /\ TTime \in Nat /\ MaxLag \in Nat /\ None \notin Nat
  /\ D!MaxAge = TTime + MaxLag + 1 /\ D!MaxAge \in Nat
  BY HttpAssumption DEF D!MaxAge

\* The inductive invariant of the sessions' data: what is younger than the
\* timer's clock has been touched since, and what the timer has collected is out
\* of date, was touched since, or is not there any more.
Collected ==
  /\ D!TypeOK
  /\ timer = "scan" => \A k \in Keys : age[k] # None /\ age[k] < lag => k \in touched
  /\ timer = "delete" =>
       \A k \in overtimes : age[k] # None => age[k] > TTime \/ k \in touched

LEMMA CollectedAtFirst == D!Init => Collected
  BY TimerBounds DEF D!Init, Collected, D!TypeOK

LEMMA TickStep ==
  ASSUME Collected, D!Tick
  PROVE  Collected'
  <1> USE TimerBounds DEF D!Tick, Collected, D!TypeOK
  <1>1. lag \in 0 .. MaxLag /\ lag' \in 0 .. MaxLag OBVIOUS
  <1>2. ASSUME NEW k \in Keys
        PROVE  /\ age'[k] \in 0 .. D!MaxAge \cup {None}
               /\ age'[k] = None <=> age[k] = None
               /\ age[k] # None => age[k] \in 0 .. D!MaxAge
               /\ age'[k] = D!MaxAge \/ (age[k] # None => age'[k] = age[k] + 1)
    <2>1. age[k] \in 0 .. D!MaxAge \cup {None} OBVIOUS
    <2>2. age'[k] = IF age[k] \in {None, D!MaxAge} THEN age[k] ELSE age[k] + 1 OBVIOUS
    <2>. QED BY <2>1, <2>2
  <1>3. age' \in [Keys -> 0 .. D!MaxAge \cup {None}] BY <1>2
  <1>4. D!TypeOK' BY <1>1, <1>3
  <1>5. ASSUME timer' = "scan", NEW k \in Keys, age'[k] # None, age'[k] < lag'
        PROVE  k \in touched'
    <2>1. timer = "scan" /\ lag' = lag + 1 BY <1>5
    <2>2. age'[k] # D!MaxAge BY <1>1, <1>5
    <2>3. age[k] # None /\ age[k] < lag BY <1>1, <1>2, <1>5, <2>1, <2>2
    <2>. QED BY <2>1, <2>3
  <1>6. ASSUME timer' = "delete", NEW k \in overtimes', age'[k] # None
        PROVE  age'[k] > TTime \/ k \in touched'
    <2>1. k \in Keys /\ k \in overtimes /\ timer = "delete" BY <1>6
    <2>2. age[k] # None /\ (age[k] > TTime \/ k \in touched) BY <1>2, <1>6, <2>1
    <2>. QED BY <1>2, <2>1, <2>2
  <1>. QED BY <1>4, <1>5, <1>6

LEMMA CollectedSteps ==
  ASSUME Collected,
         \/ D!ReadNow \/ D!Scan \/ D!EndTimer \/ UNCHANGED sessions
         \/ \E k \in Keys : \/ D!GetSessionData(k) \/ D!AddSessionData(k)
                            \/ D!DelSessionData(k) \/ D!Delete(k)
  PROVE  Collected'
  <1> USE TimerBounds DEF Collected, D!TypeOK
  <1>1. CASE D!ReadNow BY <1>1 DEF D!ReadNow
  <1>2. CASE D!Scan BY <1>2 DEF D!Scan, D!Overtime
  <1>3. CASE D!EndTimer BY <1>3 DEF D!EndTimer
  <1>4. CASE UNCHANGED sessions BY <1>4 DEF sessions
  <1>5. ASSUME NEW k \in Keys, D!GetSessionData(k) PROVE Collected' BY <1>5 DEF D!GetSessionData
  <1>6. ASSUME NEW k \in Keys, D!AddSessionData(k) PROVE Collected' BY <1>6 DEF D!AddSessionData
  <1>7. ASSUME NEW k \in Keys, D!DelSessionData(k) PROVE Collected' BY <1>7 DEF D!DelSessionData
  <1>8. ASSUME NEW k \in Keys, D!Delete(k) PROVE Collected' BY <1>8 DEF D!Delete
  <1>. QED BY <1>1, <1>2, <1>3, <1>4, <1>5, <1>6, <1>7, <1>8

LEMMA CollectedStays == Collected /\ [D!Next]_sessions => Collected'
  <1> SUFFICES ASSUME Collected, [D!Next]_sessions PROVE Collected' OBVIOUS
  <1>. QED BY TickStep, CollectedSteps DEF D!Next, D!TimerStep

\* The timer takes a key away only when it deletes it.
LEMMA DeletesCollected ==
  ASSUME Collected, [D!Next]_sessions, NEW k \in overtimes, k \notin overtimes'
  PROVE  age[k] # None => age[k] > TTime \/ k \in touched
  <1>1. timer = "delete" BY DEF Collected, D!TypeOK
  <1>. QED BY <1>1 DEF Collected

-----------------------------------------------------------------------------
(* ServletDispatch: the order of the globs. *)

LEMMA LeastOf ==
  ASSUME NEW T, T \subseteq Nat, T # {}
  PROVE  \E x \in T : \A y \in T : x <= y
  <1> DEFINE Less == OpToRel(<, Nat)
  <1>1. IsWellFoundedOn(Less, Nat) BY NatLessThanWellFounded
  <1>2. PICK x \in T : \A y \in T : ~(<<y, x>> \in Less)
    <2> HIDE DEF Less
    <2>. QED BY <1>1, WFMin
  <1>3. \A y \in T : <<y, x>> \in Less <=> y < x BY DEF OpToRel
  <1> HIDE DEF Less
  <1>4. ASSUME NEW y \in T PROVE x <= y
    <2>1. x \in Nat /\ y \in Nat /\ ~(y < x) BY <1>2, <1>3
    <2>. QED BY <2>1
  <1>. QED BY <1>4

\* The first two conjuncts of GlobOrder and the types are inductive; the third
\* one follows.
Registered ==
  /\ R!TypeOK
  /\ \A g \in Globs : born[g] # 0 <=> R!Places(g) # {}
  /\ \A i, j \in DOMAIN m_globs : i < j => born[m_globs[i][1]] < born[m_globs[j][1]]

LEMMA RouteTypes ==
  ASSUME R!TypeOK
  PROVE  /\ m_globs \in Seq(Globs \X Servlets) /\ Len(m_globs) \in Nat
         /\ DOMAIN m_globs = 1 .. Len(m_globs)
         /\ \A i \in 1 .. Len(m_globs) :
              m_globs[i] \in Globs \X Servlets /\ m_globs[i][1] \in Globs
         /\ clock \in 0 .. MaxClock /\ clock \in Nat /\ MaxClock \in Nat
         /\ \A g \in Globs : born[g] \in 0 .. clock /\ born[g] \in Nat
  <1>1. MaxClock \in Nat BY HttpAssumption
  <1>2. m_globs \in Seq(Globs \X Servlets) BY DEF R!TypeOK
  <1>3. /\ Len(m_globs) \in Nat /\ DOMAIN m_globs = 1 .. Len(m_globs)
        /\ \A i \in 1 .. Len(m_globs) : m_globs[i] \in Globs \X Servlets
    BY <1>2
  <1>4. clock \in 0 .. MaxClock /\ \A g \in Globs : born[g] \in 0 .. clock BY DEF R!TypeOK
  <1>. QED BY <1>1, <1>2, <1>3, <1>4

\* A pattern has one place at most.
LEMMA OnePlace ==
  ASSUME Registered, NEW g \in Globs, NEW i \in R!Places(g), NEW j \in R!Places(g)
  PROVE  i = j
  <1>1. /\ i \in 1 .. Len(m_globs) /\ j \in 1 .. Len(m_globs)
        /\ m_globs[i][1] = g /\ m_globs[j][1] = g
    BY RouteTypes DEF Registered, R!Places
  <1>2. born[g] \in Nat BY RouteTypes DEF Registered
  <1>3. /\ i < j => born[m_globs[i][1]] < born[m_globs[j][1]]
        /\ j < i => born[m_globs[j][1]] < born[m_globs[i][1]]
    BY <1>1 DEF Registered
  <1>4. ~(i < j) /\ ~(j < i) BY <1>1, <1>2, <1>3
  <1>5. Len(m_globs) \in Nat BY RouteTypes DEF Registered
  <1>. QED BY <1>1, <1>4, <1>5

\* What is left without a pattern: the other ones, in their order.
LEMMA RoutesWithout ==
  ASSUME Registered, NEW g \in Globs
  PROVE  LET w == R!Without(g)
         IN  /\ w \in Seq(Globs \X Servlets) /\ Len(w) \in Nat
             /\ \A k \in 1 .. Len(w) : w[k][1] \in Globs \ {g}
             /\ \A k, l \in 1 .. Len(w) : k < l => born[w[k][1]] < born[w[l][1]]
             /\ \A h \in Globs \ {g} :
                  (\E k \in 1 .. Len(w) : w[k][1] = h) <=> R!Places(h) # {}
  <1>1. R!TypeOK BY DEF Registered
  <1>2. /\ m_globs \in Seq(Globs \X Servlets) /\ Len(m_globs) \in Nat
        /\ DOMAIN m_globs = 1 .. Len(m_globs)
        /\ \A i \in 1 .. Len(m_globs) : m_globs[i] \in Globs \X Servlets
        /\ \A i \in 1 .. Len(m_globs) : m_globs[i][1] \in Globs
    BY <1>1, RouteTypes
  <1>3. \A k, l \in 1 .. Len(m_globs) : k < l => born[m_globs[k][1]] < born[m_globs[l][1]]
    BY <1>2 DEF Registered
  <1>4. \A h \in Globs, k \in 1 .. Len(m_globs) : k \in R!Places(h) <=> m_globs[k][1] = h
    BY <1>2 DEF R!Places
  <1>5. \A h \in Globs : R!Places(h) \subseteq 1 .. Len(m_globs) BY <1>2 DEF R!Places
  <1>6. CASE R!Places(g) = {}
    <2>1. R!Without(g) = m_globs BY <1>6 DEF R!Without
    <2>2. \A k \in 1 .. Len(m_globs) : m_globs[k][1] \in Globs \ {g} BY <1>2, <1>4, <1>6
    <2>3. \A h \in Globs \ {g} :
            (\E k \in 1 .. Len(m_globs) : m_globs[k][1] = h) <=> R!Places(h) # {}
      BY <1>4, <1>5
    <2>. QED BY <1>2, <1>3, <2>1, <2>2, <2>3
  <1>7. CASE R!Places(g) # {}
    <2> DEFINE i == CHOOSE i \in R!Places(g) : \A j \in R!Places(g) : i <= j
               w == R!Without(g)
               n == Len(m_globs)
               Old(k) == IF k < i THEN k ELSE k + 1
    <2>1. \E x \in R!Places(g) : \A y \in R!Places(g) : x <= y
      <3>1. R!Places(g) \subseteq Nat BY <1>2, <1>5
      <3>. QED BY <1>7, <3>1, LeastOf
    <2>2. i \in R!Places(g) BY <2>1
    <2>3. R!Without(g) = SubSeq(m_globs, 1, i - 1) \o SubSeq(m_globs, i + 1, Len(m_globs))
      BY <1>7 DEF R!Without, R!RemoveAt
    <2> HIDE DEF i
    <2>4. i \in 1 .. n /\ n \in Nat /\ m_globs[i][1] = g BY <1>2, <1>4, <1>5, <2>2
    <2>5. /\ w \in Seq(Globs \X Servlets) /\ Len(w) = n - 1
          /\ \A k \in 1 .. n - 1 : w[k] = m_globs[Old(k)]
      <3> HIDE DEF w
      <3> DEFINE a == SubSeq(m_globs, 1, i - 1)
                 b == SubSeq(m_globs, i + 1, n)
      <3>1. /\ a \in Seq(Globs \X Servlets) /\ Len(a) = i - 1
            /\ \A k \in 1 .. i - 1 : a[k] = m_globs[k]
        BY <1>2, <2>4
      <3>2. /\ b \in Seq(Globs \X Servlets) /\ Len(b) = n - i
            /\ \A k \in 1 .. n - i : b[k] = m_globs[i + k]
        <4>1. n - (i + 1) + 1 = n - i /\ i + 1 \in 1 .. n + 1 BY <2>4
        <4>2. b = [k \in 1 .. n - (i + 1) + 1 |-> m_globs[(i + 1) + k - 1]] BY <1>2, <2>4
        <4>3. \A k \in 1 .. n - i : (i + 1) + k - 1 = i + k /\ i + k \in 1 .. n BY <2>4
        <4>4. b = [k \in 1 .. n - i |-> m_globs[i + k]] BY <4>1, <4>2, <4>3
        <4>5. \A k \in 1 .. n - i : m_globs[i + k] \in Globs \X Servlets BY <1>2, <4>3
        <4>6. n - i \in Nat BY <2>4
        <4> HIDE DEF b, n
        <4>7. b \in Seq(Globs \X Servlets) BY ONLY <4>4, <4>5, <4>6
        <4>8. Len(b) = n - i BY ONLY <4>4, <4>6, <4>7
        <4>. QED BY <4>4, <4>7, <4>8
      <3>3. w = a \o b BY <2>3 DEF w
      <3> HIDE DEF a, b, n
      <3>4. /\ w \in Seq(Globs \X Servlets) /\ Len(w) = n - 1
            /\ \A k \in 1 .. n - 1 : w[k] = IF k <= i - 1 THEN a[k] ELSE b[k - (i - 1)]
        BY <2>4, <3>1, <3>2, <3>3
      <3>5. ASSUME NEW k \in 1 .. n - 1 PROVE w[k] = m_globs[Old(k)]
        <4>1. CASE k <= i - 1 BY <2>4, <3>1, <3>4, <4>1
        <4>2. CASE ~(k <= i - 1)
          <5>1. k - (i - 1) \in 1 .. n - i /\ i + (k - (i - 1)) = k + 1 BY <2>4, <4>2
          <5>. QED BY <2>4, <3>2, <3>4, <4>2, <5>1
        <4>. QED BY <4>1, <4>2
      <3>. QED BY <3>4, <3>5
    <2>6. /\ \A k \in 1 .. n - 1 : Old(k) \in 1 .. n /\ Old(k) # i
          /\ \A k, l \in 1 .. n - 1 : k < l => Old(k) < Old(l)
          /\ \A m \in 1 .. n : m # i => \E k \in 1 .. n - 1 : Old(k) = m
      <3>1. ASSUME NEW m \in 1 .. n, m # i PROVE \E k \in 1 .. n - 1 : Old(k) = m
        <4>1. CASE m < i
          <5>1. m \in 1 .. n - 1 /\ Old(m) = m BY <2>4, <4>1
          <5>. QED BY <5>1
        <4>2. CASE ~(m < i)
          <5>1. m - 1 \in 1 .. n - 1 /\ Old(m - 1) = m BY <2>4, <3>1, <4>2
          <5>. QED BY <5>1
        <4>. QED BY <4>1, <4>2
      <3>. QED BY <2>4, <3>1
    <2> HIDE DEF w, n, Old
    <2>7. \A m \in 1 .. n : m_globs[m][1] = g => m = i
      BY <1>4, <2>2, OnePlace DEF n
    <2>8. \A k \in 1 .. n - 1 : w[k][1] \in Globs \ {g} BY <1>2, <2>5, <2>6, <2>7 DEF n
    <2>9. \A k, l \in 1 .. n - 1 : k < l => born[w[k][1]] < born[w[l][1]]
      BY <1>3, <2>5, <2>6 DEF n
    <2>10. ASSUME NEW h \in Globs \ {g}
           PROVE  (\E k \in 1 .. n - 1 : w[k][1] = h) <=> R!Places(h) # {}
      <3>1. ASSUME NEW k \in 1 .. n - 1, w[k][1] = h PROVE R!Places(h) # {}
        BY <1>4, <2>5, <2>6, <3>1 DEF n
      <3>2. ASSUME NEW m \in R!Places(h) PROVE \E k \in 1 .. n - 1 : w[k][1] = h
        <4>1. m \in 1 .. n /\ m_globs[m][1] = h /\ m # i BY <1>4, <1>5, <2>4 DEF n
        <4>2. PICK k \in 1 .. n - 1 : Old(k) = m BY <2>6, <4>1
        <4>. QED BY <2>5, <4>1, <4>2
      <3>. QED BY <3>1, <3>2
    <2>11. Len(w) \in Nat /\ Len(w) = n - 1 BY <2>4, <2>5
    <2>. QED BY <2>5, <2>8, <2>9, <2>10, <2>11 DEF w
  <1>. QED BY <1>6, <1>7

LEMMA RegisteredAtFirst == R!Init => Registered
  <1> SUFFICES ASSUME R!Init PROVE Registered OBVIOUS
  <1>1. /\ m_datas = [u \in Uris |-> None] /\ m_globs = <<>> /\ clock = 0
        /\ born = [g \in Globs |-> 0] /\ MaxClock \in Nat
    BY HttpAssumption DEF R!Init
  <1>2. /\ m_globs \in Seq(Globs \X Servlets) /\ DOMAIN m_globs = {}
    BY <1>1
  <1>3. R!TypeOK BY <1>1, <1>2 DEF R!TypeOK
  <1>4. \A g \in Globs : born[g] = 0 /\ R!Places(g) = {} BY <1>1, <1>2 DEF R!Places
  <1>. QED BY <1>2, <1>3, <1>4 DEF Registered

LEMMA AddGlobStep ==
  ASSUME Registered, NEW g \in Globs, NEW s \in Servlets, R!AddGlobServlet(g, s)
  PROVE  Registered'
  <1> DEFINE w == R!Without(g)
             n == Len(w)
  <1>1. /\ w \in Seq(Globs \X Servlets) /\ n \in Nat
        /\ \A k \in 1 .. n : w[k][1] \in Globs \ {g}
        /\ \A k, l \in 1 .. n : k < l => born[w[k][1]] < born[w[l][1]]
        /\ \A h \in Globs \ {g} : (\E k \in 1 .. n : w[k][1] = h) <=> R!Places(h) # {}
    BY RoutesWithout
  <1>2. /\ clock < MaxClock /\ clock' = clock + 1 /\ m_globs' = Append(w, <<g, s>>)
        /\ born' = [born EXCEPT ![g] = clock'] /\ m_datas' = m_datas
    BY DEF R!AddGlobServlet
  <1> HIDE DEF w
  <1>3. /\ clock \in Nat /\ clock' \in 0 .. MaxClock /\ clock' \in Nat
        /\ \A h \in Globs : born[h] \in 0 .. clock
    BY <1>2, RouteTypes DEF Registered
  <1>4. /\ m_globs' \in Seq(Globs \X Servlets) /\ Len(m_globs') = n + 1
        /\ DOMAIN m_globs' = 1 .. n + 1
        /\ \A k \in 1 .. n : m_globs'[k] = w[k]
        /\ m_globs'[n + 1] = <<g, s>> /\ m_globs'[n + 1][1] = g
    BY <1>1, <1>2
  <1>5. born \in [Globs -> 0 .. clock] BY DEF Registered, R!TypeOK
  <1>6. /\ born'[g] = clock + 1
        /\ \A h \in Globs \ {g} : born'[h] = born[h]
    BY <1>2, <1>5
  <1>7. R!TypeOK'
    <2>1. born' \in [Globs -> 0 .. clock'] BY <1>2, <1>3, <1>5
    <2>. QED BY <1>2, <1>3, <1>4, <2>1 DEF Registered, R!TypeOK
  <1> HIDE DEF n
  <1>8. ASSUME NEW h \in Globs PROVE born'[h] # 0 <=> R!Places(h)' # {}
    <2>1. CASE h = g
      <3>1. n + 1 \in R!Places(h)' BY <1>1, <1>4, <2>1 DEF R!Places, n
      <3>. QED BY <1>3, <1>6, <2>1, <3>1
    <2>2. CASE h # g
      <3>1. R!Places(h)' # {} <=> \E k \in 1 .. n : w[k][1] = h
        <4>1. \A k \in 1 .. n + 1 : k \in 1 .. n \/ k = n + 1 BY <1>1 DEF n
        <4>2. \A k \in 1 .. n : k \in 1 .. n + 1 BY <1>1 DEF n
        <4>3. R!Places(h)' = {k \in 1 .. n + 1 : m_globs'[k][1] = h} BY <1>4 DEF R!Places
        <4>4. \A k \in 1 .. n : m_globs'[k][1] = w[k][1] BY <1>4
        <4>5. m_globs'[n + 1][1] # h BY <1>4, <2>2
        <4>. QED BY ONLY <4>1, <4>2, <4>3, <4>4, <4>5
      <3>2. born[h] # 0 <=> R!Places(h) # {} BY DEF Registered
      <3>. QED BY <1>1, <1>6, <2>2, <3>1, <3>2
    <2>. QED BY <2>1, <2>2
  <1>9. ASSUME NEW i \in 1 .. n + 1, NEW j \in 1 .. n + 1, i < j
        PROVE  born'[m_globs'[i][1]] < born'[m_globs'[j][1]]
    <2>1. i \in 1 .. n /\ (j \in 1 .. n \/ j = n + 1) BY <1>1, <1>9 DEF n
    <2>2. /\ w[i][1] \in Globs \ {g} /\ m_globs'[i][1] = w[i][1]
          /\ born'[m_globs'[i][1]] = born[w[i][1]] /\ born[w[i][1]] \in 0 .. clock
      BY <1>1, <1>3, <1>4, <1>6, <2>1
    <2>3. CASE j \in 1 .. n
      <3>1. w[j][1] \in Globs \ {g} /\ born'[m_globs'[j][1]] = born[w[j][1]]
        BY <1>1, <1>4, <1>6, <2>3
      <3>. QED BY <1>1, <1>9, <2>1, <2>2, <2>3, <3>1
    <2>4. CASE j = n + 1 BY <1>3, <1>4, <1>6, <2>2, <2>4
    <2>. QED BY <2>1, <2>3, <2>4
  <1>10. \A i, j \in DOMAIN m_globs' : i < j =>
            born'[m_globs'[i][1]] < born'[m_globs'[j][1]]
    BY <1>4, <1>9
  <1>. QED BY <1>7, <1>8, <1>10 DEF Registered

LEMMA DelGlobStep ==
  ASSUME Registered, NEW g \in Globs, R!DelGlobServlet(g)
  PROVE  Registered'
  <1> DEFINE w == R!Without(g)
             n == Len(w)
  <1>1. /\ w \in Seq(Globs \X Servlets) /\ n \in Nat
        /\ \A k \in 1 .. n : w[k][1] \in Globs \ {g}
        /\ \A k, l \in 1 .. n : k < l => born[w[k][1]] < born[w[l][1]]
        /\ \A h \in Globs \ {g} : (\E k \in 1 .. n : w[k][1] = h) <=> R!Places(h) # {}
    BY RoutesWithout
  <1>2. /\ clock' = clock /\ m_globs' = w
        /\ born' = [born EXCEPT ![g] = 0] /\ m_datas' = m_datas
    BY DEF R!DelGlobServlet
  <1> HIDE DEF w
  <1>3. born \in [Globs -> 0 .. clock] /\ clock \in Nat BY RouteTypes DEF Registered, R!TypeOK
  <1>4. m_globs' \in Seq(Globs \X Servlets) /\ DOMAIN m_globs' = 1 .. n BY <1>1, <1>2
  <1>5. born'[g] = 0 /\ \A h \in Globs \ {g} : born'[h] = born[h] BY <1>2, <1>3
  <1>6. R!TypeOK'
    <2>1. born' \in [Globs -> 0 .. clock'] BY <1>2, <1>3
    <2>. QED BY <1>2, <1>4, <2>1 DEF Registered, R!TypeOK
  <1> HIDE DEF n
  <1>7. ASSUME NEW h \in Globs PROVE born'[h] # 0 <=> R!Places(h)' # {}
    <2>1. R!Places(h)' = {k \in 1 .. n : w[k][1] = h} BY <1>2, <1>4 DEF R!Places
    <2>2. CASE h = g BY <1>1, <1>5, <2>1, <2>2
    <2>3. CASE h # g BY <1>1, <1>5, <2>1, <2>3 DEF Registered
    <2>. QED BY <2>2, <2>3
  <1>8. ASSUME NEW i \in 1 .. n, NEW j \in 1 .. n, i < j
        PROVE  born'[m_globs'[i][1]] < born'[m_globs'[j][1]]
    BY <1>1, <1>2, <1>5, <1>8
  <1>9. \A i, j \in DOMAIN m_globs' : i < j =>
            born'[m_globs'[i][1]] < born'[m_globs'[j][1]]
    BY <1>4, <1>8
  <1>. QED BY <1>6, <1>7, <1>9 DEF Registered

LEMMA RegisteredStays == Registered /\ [R!Next]_routes => Registered'
  <1> SUFFICES ASSUME Registered, [R!Next]_routes PROVE Registered' OBVIOUS
  <1>1. CASE UNCHANGED routes BY <1>1 DEF routes, Registered, R!TypeOK, R!Places
  <1>2. ASSUME NEW u \in Uris, NEW s \in Servlets \cup {None}, R!SetServlet(u, s)
        PROVE  Registered'
    BY <1>2 DEF R!SetServlet, Registered, R!TypeOK, R!Places
  <1>3. ASSUME NEW g \in Globs, R!DelGlobServlet(g) PROVE Registered' BY <1>3, DelGlobStep
  <1>4. ASSUME NEW g \in Globs, NEW s \in Servlets, R!AddGlobServlet(g, s) PROVE Registered'
    BY <1>4, AddGlobStep
  <1>. QED BY <1>1, <1>2, <1>3, <1>4 DEF R!Next

\* What answers a URI: the first of the patterns that match it is the one that
\* was registered first.
LEMMA FirstAnswers == Registered => GlobOrder
  <1> SUFFICES ASSUME Registered PROVE GlobOrder OBVIOUS
  <1>1. /\ DOMAIN m_globs = 1 .. Len(m_globs) /\ Len(m_globs) \in Nat
        /\ \A i \in 1 .. Len(m_globs) : m_globs[i][1] \in Globs
        /\ \A g \in Globs : born[g] \in Nat
    BY RouteTypes DEF Registered
  <1>2. ASSUME NEW u \in Uris,
               NEW x \in {g \in Globs : born[g] # 0 /\ <<g, u>> \in Matches}, m_datas[u] = None
        PROVE  \E g \in {g \in Globs : born[g] # 0 /\ <<g, u>> \in Matches} :
                 /\ \A h \in {f \in Globs : born[f] # 0 /\ <<f, u>> \in Matches} :
                      born[g] <= born[h]
                 /\ \E i \in R!Places(g) : R!GetMatchedServlet(u) = m_globs[i][2]
    <2> DEFINE live == {g \in Globs : born[g] # 0 /\ <<g, u>> \in Matches}
               hits == {i \in DOMAIN m_globs : <<m_globs[i][1], u>> \in Matches}
               first == CHOOSE i \in hits : \A j \in hits : i <= j
    <2>1. ASSUME NEW g \in live
          PROVE  \E i \in hits : i \in R!Places(g) /\ m_globs[i][1] = g
      <3>1. R!Places(g) # {} BY DEF Registered
      <3>. QED BY <3>1 DEF R!Places
    <2>2. hits # {} BY <2>1
    <2>3. hits \subseteq 1 .. Len(m_globs) /\ hits \subseteq Nat BY <1>1
    <2>4. \E i \in hits : \A j \in hits : i <= j
      <3> HIDE DEF hits
      <3>. QED BY <2>2, <2>3, LeastOf
    <2>5. first \in hits /\ \A j \in hits : first <= j
      <3> HIDE DEF hits
      <3>. QED BY <2>4
    <2>6. R!GetMatchedServlet(u) = m_globs[first][2]
      BY <1>2, <2>2 DEF R!GetMatchedServlet
    <2> HIDE DEF first
    <2> DEFINE g == m_globs[first][1]
    <2>7. first \in 1 .. Len(m_globs) /\ g \in Globs /\ <<g, u>> \in Matches /\ first \in R!Places(g)
      BY <1>1, <2>3, <2>5 DEF R!Places
    <2>8. g \in live BY <2>7 DEF Registered
    <2>9. ASSUME NEW h \in live PROVE born[g] <= born[h]
      <3>1. PICK j \in hits : m_globs[j][1] = h BY <2>1
      <3>2. first <= j /\ j \in 1 .. Len(m_globs) BY <2>3, <2>5, <3>1
      <3>3. first = j \/ first < j BY <2>7, <3>2
      <3>4. first < j => born[g] < born[h] BY <1>1, <2>7, <3>1, <3>2 DEF Registered
      <3>. QED BY <1>1, <2>7, <3>1, <3>3, <3>4
    <2> HIDE DEF g
    <2>. QED BY <2>6, <2>7, <2>8, <2>9
  <1>. QED BY <1>2 DEF Registered, GlobOrder, R!GlobOrder

-----------------------------------------------------------------------------
(* Http11Table: where the rules of the automaton lead, and what they do.  What *)
(* a rule does follows from the two states it connects.                        *)

InMethod == {1, 2} \cup 175 .. 193
InPath == {3, 19} \cup 24 .. 28 \cup 33 .. 174
InQuery == 29 .. 32
InFragment == 20 .. 23
InMessage == {196, 197} \cup 199 .. 201
InJsonPath == {198} \cup 202 .. 347

Edge(from, to) ==
  \/ from = 1 /\ to \in {2, 194, 198}
  \/ from \in InMethod \ {1} /\ to \in (175 .. 193) \cup {3}
  \/ from \in InPath /\ to \in (InPath \ {3}) \cup {4, 20, 29}
  \/ from \in InQuery /\ to \in {4, 20, 30, 31, 32}
  \/ from \in InFragment /\ to \in {4, 21, 22, 23}
  \/ from \in 4 .. 11 /\ to = from + 1
  \/ from = 12 /\ to \in {13, 17}
  \/ from = 13 /\ to \in {14, 18, 348}
  \/ from = 14 /\ to \in {14, 15}
  \/ from = 15 /\ to \in {13, 15, 16, 17}
  \/ from = 16 /\ to \in {13, 16, 17}
  \/ from = 17 /\ to = 13
  \/ from = 18 /\ to \in {14, 15, 348}
  \/ from = 348 /\ to \in {14, 15}
  \/ from = 194 /\ to = 195
  \/ from = 195 /\ to \in {195, 196}
  \/ from \in InJsonPath /\ to \in (InJsonPath \ {198}) \cup {199}
  \/ from \in InMessage /\ to \in (InMessage \ {199}) \cup {349}

Does(from, to, do) ==
  /\ "mark" \in do <=> from \in {1, 3, 4, 15, 20, 174, 199}
  /\ "start_query" \in do <=> from = 29
  /\ "start_field" \in do <=> from = 13
  /\ "write_field" \in do <=> from \in {14, 18, 348} /\ to = 15
  /\ "request_method" \in do <=> from \in InMethod /\ to = 3
  /\ "request_path" \in do <=> \/ from \in InPath /\ to \in {4, 20, 29}
                               \/ from = 195 /\ to = 196
                               \/ from \in InJsonPath /\ to = 199
  /\ "query_string" \in do <=> from \in InQuery /\ to \in {4, 20}
  /\ "http_version" \in do <=> from = 12
  /\ "http_field" \in do <=> from \in {15, 16} /\ to \in {13, 17}

Lawful(t) == Edge(t.from, t.rule.to) /\ Does(t.from, t.rule.to, t.rule.do)

LEMMA RequestLineLawful ==
  \A t \in P!MethodStart \cup P!MethodRest \cup P!UriStart \cup P!RelativePath \cup
           P!Scheme \cup P!Path \cup P!Query \cup P!Fragment \cup P!Slashes \cup P!RegName
           \cup P!PortOrUserInfo \cup P!Host :
    Lawful(t)
  <1> USE DEF P!From, P!Rule, P!To, P!Char, P!Escape, P!Ends, P!JsonPath,
              Lawful, Edge, Does, InMethod, InPath, InQuery, InFragment, InMessage, InJsonPath
  <1>1. \A t \in P!MethodStart : Lawful(t) BY DEF P!MethodStart
  <1>2. \A t \in P!MethodRest : Lawful(t) BY DEF P!MethodRest
  <1>3. \A t \in P!UriStart : Lawful(t) BY DEF P!UriStart
  <1>4. \A t \in P!RelativePath : Lawful(t) BY DEF P!RelativePath
  <1>5. \A t \in P!Scheme : Lawful(t) BY DEF P!Scheme
  <1>6. \A t \in P!Path : Lawful(t) BY DEF P!Path
  <1>7. \A t \in P!Query : Lawful(t) BY DEF P!Query
  <1>8. \A t \in P!Fragment : Lawful(t) BY DEF P!Fragment
  <1>9. \A t \in P!Slashes : Lawful(t) BY DEF P!Slashes
  <1>10. \A t \in P!RegName : Lawful(t) BY DEF P!RegName
  <1>11. \A t \in P!PortOrUserInfo : Lawful(t) BY DEF P!PortOrUserInfo
  <1>12. \A t \in P!Host : Lawful(t) BY DEF P!Host
  <1> HIDE DEF Lawful
  <1>. QED BY <1>1, <1>2, <1>3, <1>4, <1>5, <1>6, <1>7, <1>8, <1>9, <1>10, <1>11, <1>12

\* The two copies of the literal.
LEMMA LiteralLawful ==
  ASSUME NEW o \in {0, 175}
  PROVE  /\ \A t \in P!LiteralStart(o) : Lawful(t)
         /\ \A t \in P!SecondOctet(o) : Lawful(t)
         /\ \A t \in P!ThirdOctet(o) : Lawful(t)
         /\ \A t \in P!LastOctet(o) : Lawful(t)
         /\ \A t \in P!LowStart(o) : Lawful(t)
         /\ \A t \in P!LowDigits(o) : Lawful(t)
         /\ \A t \in P!LowDecimals(o) : Lawful(t)
         /\ \A t \in P!LastGroup(o) : Lawful(t)
         /\ \A t \in P!FirstGroups(o) : Lawful(t)
         /\ \A t \in P!MiddleGroups(o) : Lawful(t)
         /\ \A t \in P!LastGroups(o) : Lawful(t)
         /\ \A t \in P!MoreGroups(o) : Lawful(t)
         /\ \A t \in P!Elided(o) : Lawful(t)
         /\ \A t \in P!ElidedDigits(o) : Lawful(t)
         /\ \A t \in P!ElidedDecimals(o) : Lawful(t)
         /\ \A t \in P!SecondDigits(o) : Lawful(t)
         /\ \A t \in P!SecondDecimals(o) : Lawful(t)
         /\ \A t \in P!ElidedOne(o) : Lawful(t)
         /\ \A t \in P!ElidedOneDecimals(o) : Lawful(t)
         /\ \A t \in P!ElidedMore(o) : Lawful(t)
         /\ \A t \in P!FutureAddress(o) : Lawful(t)
  <1> USE DEF P!From, P!Rule, P!To, P!Char, P!Escape, P!Ends, P!JsonPath,
              Lawful, Edge, Does, InMethod, InPath, InQuery, InFragment, InMessage, InJsonPath
  <1> USE DEF P!Group, P!Between, P!HexDigits, P!DecDigits, P!Octet, P!First, P!Close
  <1>1. \A t \in P!LiteralStart(o) : Lawful(t) BY DEF P!LiteralStart
  <1>2. \A t \in P!SecondOctet(o) : Lawful(t) BY DEF P!SecondOctet
  <1>3. \A t \in P!ThirdOctet(o) : Lawful(t) BY DEF P!ThirdOctet
  <1>4. \A t \in P!LastOctet(o) : Lawful(t) BY DEF P!LastOctet
  <1>5. \A t \in P!LowStart(o) : Lawful(t) BY DEF P!LowStart
  <1>6. \A t \in P!LowDigits(o) : Lawful(t) BY DEF P!LowDigits
  <1>7. \A t \in P!LowDecimals(o) : Lawful(t) BY DEF P!LowDecimals
  <1>8. \A t \in P!LastGroup(o) : Lawful(t) BY DEF P!LastGroup
  <1>9. \A t \in P!FirstGroups(o) : Lawful(t) BY DEF P!FirstGroups
  <1>10. \A t \in P!MiddleGroups(o) : Lawful(t) BY DEF P!MiddleGroups
  <1>11. \A t \in P!LastGroups(o) : Lawful(t) BY DEF P!LastGroups
  <1>12. \A t \in P!MoreGroups(o) : Lawful(t) BY DEF P!MoreGroups
  <1>13. \A t \in P!Elided(o) : Lawful(t) BY DEF P!Elided
  <1>14. \A t \in P!ElidedDigits(o) : Lawful(t) BY DEF P!ElidedDigits
  <1>15. \A t \in P!ElidedDecimals(o) : Lawful(t) BY DEF P!ElidedDecimals
  <1>16. \A t \in P!SecondDigits(o) : Lawful(t) BY DEF P!SecondDigits
  <1>17. \A t \in P!SecondDecimals(o) : Lawful(t) BY DEF P!SecondDecimals
  <1>18. \A t \in P!ElidedOne(o) : Lawful(t) BY DEF P!ElidedOne
  <1>19. \A t \in P!ElidedOneDecimals(o) : Lawful(t) BY DEF P!ElidedOneDecimals
  <1>20. \A t \in P!ElidedMore(o) : Lawful(t) BY DEF P!ElidedMore
  <1>21. \A t \in P!FutureAddress(o) : Lawful(t) BY DEF P!FutureAddress
  <1> HIDE DEF Lawful
  <1>. QED
    BY <1>1, <1>2, <1>3, <1>4, <1>5, <1>6, <1>7, <1>8, <1>9, <1>10, <1>11, <1>12,
       <1>13, <1>14, <1>15, <1>16, <1>17, <1>18, <1>19, <1>20, <1>21

LEMMA HeaderLawful ==
  \A t \in P!Version \cup P!FieldName \cup P!FieldValue \cup P!EmptyLine :
    Lawful(t)
  <1> USE DEF P!From, P!Rule, P!To, P!Char, P!Escape, P!Ends, P!JsonPath,
              Lawful, Edge, Does, InMethod, InPath, InQuery, InFragment, InMessage, InJsonPath
  <1>1. \A t \in P!Version : Lawful(t) BY DEF P!Version
  <1>2. \A t \in P!FieldName : Lawful(t) BY DEF P!FieldName
  <1>3. \A t \in P!FieldValue : Lawful(t) BY DEF P!FieldValue
  <1>4. \A t \in P!EmptyLine : Lawful(t) BY DEF P!EmptyLine
  <1> HIDE DEF Lawful
  <1>. QED BY <1>1, <1>2, <1>3, <1>4

LEMMA MessagesLawful ==
  \A t \in P!XmlSocket \cup P!JsonStart \cup P!JsonRelative \cup P!JsonSlashes \cup
           P!JsonPortOrUserInfo \cup P!JsonHost \cup P!JsonAfterLiteral :
    Lawful(t)
  <1> USE DEF P!From, P!Rule, P!To, P!Char, P!Escape, P!Ends, P!JsonPath,
              Lawful, Edge, Does, InMethod, InPath, InQuery, InFragment, InMessage, InJsonPath
  <1>1. \A t \in P!XmlSocket : Lawful(t) BY DEF P!XmlSocket
  <1>2. \A t \in P!JsonStart : Lawful(t) BY DEF P!JsonStart
  <1>3. \A t \in P!JsonRelative : Lawful(t) BY DEF P!JsonRelative
  <1>4. \A t \in P!JsonSlashes : Lawful(t) BY DEF P!JsonSlashes
  <1>5. \A t \in P!JsonPortOrUserInfo : Lawful(t) BY DEF P!JsonPortOrUserInfo
  <1>6. \A t \in P!JsonHost : Lawful(t) BY DEF P!JsonHost
  <1>7. \A t \in P!JsonAfterLiteral : Lawful(t) BY DEF P!JsonAfterLiteral
  <1> HIDE DEF Lawful
  <1>. QED BY <1>1, <1>2, <1>3, <1>4, <1>5, <1>6, <1>7

LEMMA AfterLiteralLawful == \A t \in P!AfterLiteral : Lawful(t)
  BY DEF P!AfterLiteral, P!From, P!Rule, P!To, P!Ends, Lawful, Edge, Does,
         InMethod, InPath, InQuery, InFragment, InMessage, InJsonPath

LEMMA TableLawful ==
  ASSUME NEW n \in P!States, NEW r \in P!Delta[n]
  PROVE  Edge(n, r.to) /\ Does(n, r.to, r.do)
  <1>1. PICK t \in P!Transitions : t.from = n /\ t.rule = r BY DEF P!Delta
  <1>2. Lawful(t)
    <2>1. \/ t \in P!MethodStart \cup P!MethodRest \cup P!UriStart \cup P!RelativePath \cup
                     P!Scheme \cup P!Path \cup P!Query \cup P!Fragment \cup P!Slashes \cup
                     P!RegName \cup P!PortOrUserInfo \cup P!Host
          \/ t \in P!Version \cup P!FieldName \cup P!FieldValue \cup P!EmptyLine
          \/ t \in P!XmlSocket \cup P!JsonStart \cup P!JsonRelative \cup P!JsonSlashes \cup
                     P!JsonPortOrUserInfo \cup P!JsonHost \cup P!JsonAfterLiteral
          \/ t \in P!AfterLiteral
          \/ \E o \in {0, 175} :
               \/ t \in P!LiteralStart(o) \/ t \in P!SecondOctet(o) \/ t \in P!ThirdOctet(o)
               \/ t \in P!LastOctet(o) \/ t \in P!LowStart(o) \/ t \in P!LowDigits(o)
               \/ t \in P!LowDecimals(o) \/ t \in P!LastGroup(o) \/ t \in P!FirstGroups(o)
               \/ t \in P!MiddleGroups(o) \/ t \in P!LastGroups(o) \/ t \in P!MoreGroups(o)
               \/ t \in P!Elided(o) \/ t \in P!ElidedDigits(o) \/ t \in P!ElidedDecimals(o)
               \/ t \in P!SecondDigits(o) \/ t \in P!SecondDecimals(o) \/ t \in P!ElidedOne(o)
               \/ t \in P!ElidedOneDecimals(o) \/ t \in P!ElidedMore(o)
               \/ t \in P!FutureAddress(o)
      BY <1>1 DEF P!Transitions, P!Literal, P!JsonLiteralStart, P!JsonOctets, P!JsonLowGroups,
                  P!JsonLowDecimals, P!JsonFirstGroups, P!JsonMiddleGroups, P!JsonLastGroups,
                  P!JsonMoreGroups, P!JsonSecondDigits, P!JsonSecondDecimals,
                  P!JsonElidedDecimals, P!JsonElidedOne, P!JsonElidedOneDecimals,
                  P!JsonElidedMore, P!JsonFutureAddress
    <2>2. ASSUME NEW o \in {0, 175},
               \/ t \in P!LiteralStart(o) \/ t \in P!SecondOctet(o) \/ t \in P!ThirdOctet(o)
               \/ t \in P!LastOctet(o) \/ t \in P!LowStart(o) \/ t \in P!LowDigits(o)
               \/ t \in P!LowDecimals(o) \/ t \in P!LastGroup(o) \/ t \in P!FirstGroups(o)
               \/ t \in P!MiddleGroups(o) \/ t \in P!LastGroups(o) \/ t \in P!MoreGroups(o)
               \/ t \in P!Elided(o) \/ t \in P!ElidedDigits(o) \/ t \in P!ElidedDecimals(o)
               \/ t \in P!SecondDigits(o) \/ t \in P!SecondDecimals(o) \/ t \in P!ElidedOne(o)
               \/ t \in P!ElidedOneDecimals(o) \/ t \in P!ElidedMore(o)
               \/ t \in P!FutureAddress(o)
          PROVE  Lawful(t)
      BY <2>2, LiteralLawful
    <2>. QED
      BY <2>1, <2>2, RequestLineLawful, HeaderLawful, MessagesLawful, AfterLiteralLawful
  <1>. QED BY <1>1, <1>2 DEF Lawful

LEMMA EdgeEnds ==
  ASSUME NEW n \in P!States, NEW m, Edge(n, m)
  PROVE  m \in P!States
  BY DEF Edge, P!States, InMethod, InPath, InQuery, InFragment, InMessage, InJsonPath

-----------------------------------------------------------------------------
(* HttpRequestParser: what has been handed over. *)

\* While nothing is wrong, the state of the automaton tells what has been handed
\* over.
HandedOver ==
  /\ cs \in InMethod => ~m_error
  /\ ~m_error =>
       /\ cs \in InMethod \cup {194, 195} \cup InJsonPath =>
            \A e \in P!Elements : request[e] = "none"
       /\ cs \in InPath =>
            request["method"] # "none" /\ \A e \in P!Elements \ {"method"} : request[e] = "none"
       /\ cs \in InQuery =>
            /\ request["method"] # "none" /\ request["path"] # "none"
            /\ \A e \in {"query", "version", "field"} : request[e] = "none"
       /\ cs \in InFragment \cup 4 .. 12 =>
            /\ request["method"] # "none" /\ request["path"] # "none"
            /\ request["version"] = "none" /\ request["field"] = "none"
       /\ cs \in 13 .. 18 \cup {348} =>
            \A e \in {"method", "path", "version"} : request[e] # "none"
       /\ cs \in InMessage \cup {349} =>
            request["path"] # "none" /\ \A e \in P!Elements \ {"path"} : request[e] = "none"

\* In one piece every mark is that of the element which is being read.
OnePiece ==
  /\ phase # "thrown"
  /\ \A e \in P!Elements : request[e] # "cut"
  /\ m_error => request["method"] = "none"
  /\ cs \in (InMethod \ {1}) \cup {194, 195} \cup InJsonPath => mark = 1
  /\ cs \in InPath \ {3, 174} => mark \in {3, 174}
  /\ cs \in 30 .. 32 => query_start = "here"
  /\ cs \in 5 .. 12 => mark = 4
  /\ cs \in {14, 18} => field_start # 0
  /\ cs \in {15, 16} => field_len = "whole"
  /\ cs = 16 => mark = 15

\* The inductive invariant of the parser.
Reading ==
  /\ P!TypeOK
  /\ phase = "recv" => pieces < MaxPieces /\ cs \notin P!Final \cup {0} /\ ~m_error
  /\ pieces = 0 => cs = 1 /\ ~m_error /\ phase \in {"recv", "closed"}
  /\ phase = "finished" => ~m_error /\ cs \in P!Final
  /\ HandedOver
  /\ pieces <= 1 => OnePiece

LEMMA PiecesAndStates ==
  /\ MaxPieces \in Nat \ {0} /\ 1 \in P!States /\ P!Final \subseteq P!States
  /\ P!Elements = {"method", "path", "query", "version", "field"}
  /\ P!Values = {"none", "whole", "cut"}
  BY HttpAssumption DEF P!States, P!Final, P!Elements, P!Values

LEMMA ReadingAtFirst == P!Init => Reading
  <1> SUFFICES ASSUME P!Init PROVE Reading OBVIOUS
  <1> USE PiecesAndStates DEF P!Init
  <1>1. P!TypeOK
    <2>1. pieces \in 0 .. MaxPieces OBVIOUS
    <2>2. request \in [P!Elements -> P!Values]
      <3>1. request = [e \in P!Elements |-> "none"] /\ "none" \in P!Values OBVIOUS
      <3>. QED BY ONLY <3>1
    <2>3. cs \in P!States \cup {0} /\ field_len \in P!Values OBVIOUS
    <2> HIDE PiecesAndStates
    <2>. QED BY <2>1, <2>2, <2>3 DEF P!TypeOK
  <1>2. HandedOver
    BY DEF HandedOver, InMethod, InPath, InQuery, InFragment, InMessage, InJsonPath
  <1>3. OnePiece BY DEF OnePiece, InMethod, InPath, InJsonPath
  <1>. QED BY <1>1, <1>2, <1>3 DEF Reading, P!Final

\* What a byte that the automaton accepts does, by the states before and after it.
GivesMethod == cs \in InMethod /\ cs' = 3
GivesPath == \/ cs \in InPath /\ cs' \in {4, 20, 29}
             \/ cs = 195 /\ cs' = 196
             \/ cs \in InJsonPath /\ cs' = 199
GivesQuery == cs \in InQuery /\ cs' \in {4, 20}
GivesField == cs \in {15, 16} /\ cs' \in {13, 17}
NamesField == cs \in {14, 18, 348} /\ cs' = 15
Wholly(begins) == IF mark' \in begins THEN "whole" ELSE "cut"

Given ==
  [e \in P!Elements |->
     IF e = "method" /\ GivesMethod THEN Wholly({1})
     ELSE IF e = "path" /\ GivesPath THEN Wholly(IF cs \in 194 .. 347 THEN {1} ELSE {3, 174})
     ELSE IF e = "query" /\ GivesQuery THEN (IF query_start' = "here" THEN "whole" ELSE "cut")
     ELSE IF e = "version" /\ cs = 12 THEN Wholly({4})
     ELSE IF e = "field" /\ GivesField
       THEN IF field_len = "none" THEN request["field"]
            ELSE IF field_len = "cut" \/ request["field"] = "cut" THEN "cut"
            ELSE Wholly({13, 15})
     ELSE request[e]]

LEMMA AcceptIs ==
  ASSUME P!TypeOK, cs \in P!States \ P!Final, NEW b, NEW r \in P!Rules(b), P!Accept(r)
  PROVE  /\ Edge(cs, cs') /\ cs' \in P!States
         /\ mark' = IF cs \in {1, 3, 4, 15, 20, 174, 199} THEN cs ELSE mark
         /\ query_start' = IF cs = 29 THEN "here" ELSE query_start
         /\ field_start' = IF cs = 13 THEN cs ELSE field_start
         /\ field_len' \in P!Values
         /\ ~NamesField => field_len' = field_len
         /\ NamesField /\ field_start # 0 => field_len' = "whole"
         /\ \/ request' = Given /\ m_error' = m_error
            \/ GivesMethod /\ m_error' /\ request' = [Given EXCEPT !["method"] = request["method"]]
            \/ /\ cs = 12 /\ mark' # 4 /\ m_error'
               /\ request' = [Given EXCEPT !["version"] = request["version"]]
         /\ UNCHANGED <<phase, pieces, uri_relaxed>>
  <1>1. r \in P!Delta[cs] BY DEF P!Rules
  <1>2. Edge(cs, r.to) /\ Does(cs, r.to, r.do) BY <1>1, TableLawful
  <1>3. cs' = r.to /\ cs' \in P!States BY <1>2, EdgeEnds DEF P!Accept
  <1>4. /\ P!Marked(r) = IF cs \in {1, 3, 4, 15, 20, 174, 199} THEN cs ELSE mark
        /\ P!QueryMarked(r) = IF cs = 29 THEN "here" ELSE query_start
        /\ mark' = P!Marked(r) /\ query_start' = P!QueryMarked(r)
        /\ field_start' = IF cs = 13 THEN cs ELSE field_start
    BY <1>2 DEF P!Accept, P!Marked, P!QueryMarked, Does
  <1>5. /\ field_len' \in P!Values
        /\ ~NamesField => field_len' = field_len
        /\ NamesField /\ field_start # 0 => field_len' = "whole"
    BY <1>2, <1>3, PiecesAndStates DEF P!Accept, P!FieldLen, Does, NamesField, P!TypeOK
  <1>6. /\ "request_method" \in r.do <=> GivesMethod
        /\ "request_path" \in r.do <=> GivesPath
        /\ "query_string" \in r.do <=> GivesQuery
        /\ "http_version" \in r.do <=> cs = 12
        /\ "http_field" \in r.do <=> GivesField
    BY <1>2, <1>3 DEF Does, GivesMethod, GivesPath, GivesQuery, GivesField
  <1>7. /\ P!Element("method", r) = Wholly({1})
        /\ P!Element("path", r) = Wholly(IF cs \in 194 .. 347 THEN {1} ELSE {3, 174})
        /\ P!Element("version", r) = Wholly({4})
        /\ P!Element("field", r) = Wholly({13, 15})
    BY <1>4 DEF P!Element, P!Begins, Wholly
  <1>8. P!Called(r) = Given
    <2>1. ASSUME NEW e \in P!Elements PROVE P!Called(r)[e] = Given[e]
      <3>1. CASE e = "method" BY <1>6, <1>7, <3>1 DEF P!Called, Given
      <3>2. CASE e = "path" BY <1>6, <1>7, <3>2 DEF P!Called, Given
      <3>3. CASE e = "query" BY <1>4, <1>6, <3>3 DEF P!Called, Given
      <3>4. CASE e = "version" BY <1>6, <1>7, <3>4 DEF P!Called, Given
      <3>5. CASE e = "field" BY <1>6, <1>7, <3>5 DEF P!Called, Given, P!Field
      <3>. QED BY <3>1, <3>2, <3>3, <3>4, <3>5, PiecesAndStates
    <2>2. P!Called(r) = [e \in P!Elements |-> P!Called(r)[e]] BY DEF P!Called
    <2>3. Given = [e \in P!Elements |-> Given[e]] BY DEF Given
    <2>. QED BY <2>1, <2>2, <2>3
  <1>9. P!Refusable(r) = (IF GivesMethod THEN {"method"} ELSE {}) \cup
                         (IF cs = 12 /\ mark' # 4 THEN {"version"} ELSE {})
    BY <1>6, <1>7 DEF P!Refusable, Wholly
  <1>10. UNCHANGED <<phase, pieces, uri_relaxed>> BY DEF P!Accept
  <1>11. \/ request' = P!Called(r) /\ m_error' = m_error
         \/ \E e \in P!Refusable(r) :
              request' = [P!Called(r) EXCEPT ![e] = request[e]] /\ m_error' = TRUE
    BY DEF P!Accept
  <1>. QED BY <1>2, <1>3, <1>4, <1>5, <1>8, <1>9, <1>10, <1>11

LEMMA GivenTypes ==
  ASSUME P!TypeOK
  PROVE  /\ request \in [P!Elements -> P!Values]
         /\ Given \in [P!Elements -> P!Values]
         /\ \A e \in P!Elements : request[e] # "none" => Given[e] # "none"
         /\ [Given EXCEPT !["method"] = request["method"]] \in [P!Elements -> P!Values]
         /\ [Given EXCEPT !["version"] = request["version"]] \in [P!Elements -> P!Values]
  <1>1. request \in [P!Elements -> P!Values] BY DEF P!TypeOK
  <1>2. ASSUME NEW e \in P!Elements
        PROVE  Given[e] \in P!Values /\ (request[e] # "none" => Given[e] # "none")
    BY <1>1, PiecesAndStates DEF Given, Wholly
  <1>3. Given \in [P!Elements -> P!Values] BY <1>2 DEF Given
  <1> HIDE DEF Given
  <1>. QED BY <1>1, <1>2, <1>3, PiecesAndStates

LEMMA AcceptTypes ==
  ASSUME P!TypeOK, phase = "parse", cs \in P!States \ P!Final,
         NEW b, NEW r \in P!Rules(b), P!Accept(r)
  PROVE  P!TypeOK'
  <1>1. cs' \in P!States /\ phase' = phase /\ pieces' = pieces /\ uri_relaxed' = uri_relaxed
    BY AcceptIs
  <1>2. mark' \in {cs, mark} /\ field_start' \in {cs, field_start}
        /\ query_start' \in {"here", query_start} /\ field_len' \in P!Values
    BY AcceptIs
  <1>3. request' \in [P!Elements -> P!Values] BY AcceptIs, GivenTypes
  <1>4. m_error' \in BOOLEAN BY DEF P!TypeOK, P!Accept
  <1>. QED BY <1>1, <1>2, <1>3, <1>4 DEF P!TypeOK

LEMMA AcceptHandsOver ==
  ASSUME Reading, phase = "parse", cs \in P!States \ P!Final,
         NEW b, NEW r \in P!Rules(b), P!Accept(r)
  PROVE  HandedOver'
  <1>1. P!TypeOK /\ HandedOver BY DEF Reading
  <1>2. /\ Edge(cs, cs')
        /\ \/ request' = Given /\ m_error' = m_error
           \/ m_error' /\ cs' \notin InMethod
    <2>1. Edge(cs, cs') BY <1>1, AcceptIs
    <2>2. GivesMethod \/ cs = 12 => cs' \notin InMethod
      BY <2>1 DEF GivesMethod, Edge, InMethod, InPath, InQuery, InFragment, InMessage, InJsonPath
    <2>. QED BY <1>1, <2>1, <2>2, AcceptIs
  <1>3. cs' \in InMethod => cs \in InMethod
    BY <1>2 DEF Edge, InMethod, InPath, InQuery, InFragment, InMessage, InJsonPath
  <1>4. cs' \in InMethod => ~m_error' BY <1>1, <1>2, <1>3 DEF HandedOver
  <1>5. CASE m_error' BY <1>4, <1>5 DEF HandedOver
  <1>6. CASE ~m_error'
    <2>1. ~m_error /\ request' = Given BY <1>2, <1>6
    <2>2. /\ \A e \in P!Elements : request[e] # "none" => request'[e] # "none"
          /\ GivesMethod => request'["method"] # "none"
          /\ ~GivesMethod => request'["method"] = request["method"]
          /\ GivesPath => request'["path"] # "none"
          /\ ~GivesPath => request'["path"] = request["path"]
          /\ ~GivesQuery => request'["query"] = request["query"]
          /\ cs = 12 => request'["version"] # "none"
          /\ cs # 12 => request'["version"] = request["version"]
          /\ ~GivesField => request'["field"] = request["field"]
      BY <1>1, <2>1, GivenTypes, PiecesAndStates, SMTT(30) DEF Given, Wholly
    <2> USE <1>2, <1>1, <2>1, <2>2, PiecesAndStates
        DEF Edge, HandedOver, GivesMethod, GivesPath, GivesQuery, GivesField,
            InMethod, InPath, InQuery, InFragment, InMessage, InJsonPath
    <2>3. ASSUME cs' \in InMethod \cup {194, 195} \cup InJsonPath
          PROVE  \A e \in P!Elements : request'[e] = "none"
      <3>1. cs \in InMethod \cup {194, 195} \cup InJsonPath /\ ~GivesMethod /\ ~GivesPath
        BY ONLY <1>2, <2>3, SMTT(30)
           DEF Edge, GivesMethod, GivesPath, InMethod, InPath, InQuery, InFragment, InMessage,
               InJsonPath
      <3>2. ~GivesQuery /\ ~GivesField /\ cs # 12
        BY ONLY <3>1 DEF GivesQuery, GivesField, InMethod, InQuery, InJsonPath
      <3>. QED BY ONLY <1>1, <2>1, <2>2, <3>1, <3>2, PiecesAndStates DEF HandedOver
    <2>4. ASSUME cs' \in InPath
          PROVE  /\ request'["method"] # "none"
                 /\ \A e \in P!Elements \ {"method"} : request'[e] = "none"
      <3>1. \/ GivesMethod /\ cs \in InMethod
            \/ ~GivesMethod /\ cs \in InPath
        BY ONLY <1>2, <2>4
           DEF Edge, GivesMethod, InMethod, InPath, InQuery, InFragment, InMessage, InJsonPath
      <3>2. ~GivesPath BY ONLY <2>4 DEF GivesPath, InPath
      <3>3. ~GivesQuery /\ ~GivesField /\ cs # 12
        BY ONLY <3>1 DEF GivesQuery, GivesField, InMethod, InPath, InQuery
      <3>. QED BY ONLY <1>1, <2>1, <2>2, <3>1, <3>2, <3>3, PiecesAndStates DEF HandedOver
    <2>5. cs' \in InQuery =>
            /\ request'["method"] # "none" /\ request'["path"] # "none"
            /\ \A e \in {"query", "version", "field"} : request'[e] = "none"
      OBVIOUS
    <2>6. cs' \in InFragment \cup 4 .. 12 =>
            /\ request'["method"] # "none" /\ request'["path"] # "none"
            /\ request'["version"] = "none" /\ request'["field"] = "none"
      OBVIOUS
    <2>7. cs' \in 13 .. 18 \cup {348} =>
            \A e \in {"method", "path", "version"} : request'[e] # "none"
      OBVIOUS
    <2>8. cs' \in InMessage \cup {349} =>
            request'["path"] # "none" /\ \A e \in P!Elements \ {"path"} : request'[e] = "none"
      OBVIOUS
    <2> HIDE DEF Edge, InMethod, InPath, InQuery, InFragment, InMessage, InJsonPath
    <2>. QED BY <1>4, <2>3, <2>4, <2>5, <2>6, <2>7, <2>8
  <1>. QED BY <1>5, <1>6

LEMMA AcceptOnePiece ==
  ASSUME Reading, phase = "parse", cs \in P!States \ P!Final, pieces <= 1,
         NEW b, NEW r \in P!Rules(b), P!Accept(r)
  PROVE  OnePiece'
  <1>1. P!TypeOK /\ HandedOver /\ OnePiece BY DEF Reading
  <1>2. /\ Edge(cs, cs') /\ cs' \in P!States
        /\ mark' = IF cs \in {1, 3, 4, 15, 20, 174, 199} THEN cs ELSE mark
        /\ query_start' = IF cs = 29 THEN "here" ELSE query_start
        /\ field_start' = IF cs = 13 THEN cs ELSE field_start
        /\ ~NamesField => field_len' = field_len
        /\ NamesField /\ field_start # 0 => field_len' = "whole"
        /\ phase' = phase
    BY <1>1, AcceptIs
  <1> USE DEF Edge, P!Final, P!States, OnePiece,
              InMethod, InPath, InQuery, InFragment, InMessage, InJsonPath
  <1>3. cs' \in (InMethod \ {1}) \cup {194, 195} \cup InJsonPath => mark' = 1 BY <1>1, <1>2
  <1>4. cs' \in InPath \ {3, 174} => mark' \in {3, 174} BY <1>1, <1>2
  <1>5. cs' \in 30 .. 32 => query_start' = "here" BY <1>1, <1>2
  <1>6. cs' \in 5 .. 12 => mark' = 4 BY <1>1, <1>2
  <1>7. cs' \in {14, 18} => field_start' # 0 BY <1>1, <1>2
  <1>8. cs' \in {15, 16} => field_len' = "whole" BY <1>1, <1>2 DEF NamesField
  <1>9. cs' = 16 => mark' = 15 BY <1>1, <1>2
  <1>10. /\ GivesMethod => mark' = 1
         /\ GivesPath => mark' \in (IF cs \in 194 .. 347 THEN {1} ELSE {3, 174})
         /\ GivesQuery => query_start' = "here"
         /\ cs = 12 => mark' = 4
         /\ GivesField => field_len = "whole" /\ mark' = 15
    BY <1>1, <1>2 DEF GivesMethod, GivesPath, GivesQuery, GivesField
  <1> HIDE DEF Edge, P!Final, P!States, InMethod, InPath, InQuery, InFragment, InMessage, InJsonPath
  <1>11. \A e \in P!Elements : request[e] # "cut" BY <1>1
  <1>12. \A e \in P!Elements : Given[e] # "cut"
    BY <1>10, <1>11, PiecesAndStates DEF Given, Wholly
  <1>13. request \in [P!Elements -> P!Values] /\ Given \in [P!Elements -> P!Values]
    BY <1>1, GivenTypes
  <1>14. \/ request' = Given /\ m_error' = m_error
         \/ /\ GivesMethod /\ m_error'
            /\ request' = [Given EXCEPT !["method"] = request["method"]]
    BY <1>1, <1>10, AcceptIs
  <1>15. \A e \in P!Elements : request'[e] # "cut"
    BY <1>11, <1>12, <1>13, <1>14, PiecesAndStates
  <1>16. m_error' => request'["method"] = "none"
    <2>1. CASE request' = Given /\ m_error' = m_error
      <3>1. m_error => ~GivesMethod BY <1>1 DEF HandedOver, GivesMethod
      <3>2. m_error => request["method"] = "none" BY <1>1
      <3>. QED BY <2>1, <3>1, <3>2, PiecesAndStates DEF Given
    <2>2. CASE GivesMethod /\ request' = [Given EXCEPT !["method"] = request["method"]]
      <3>1. ~m_error /\ cs \in InMethod BY <1>1, <2>2 DEF HandedOver, GivesMethod
      <3>2. request["method"] = "none" BY <1>1, <3>1, PiecesAndStates DEF HandedOver
      <3>. QED BY <1>13, <2>2, <3>2, PiecesAndStates
    <2>. QED BY <1>14, <2>1, <2>2
  <1>17. phase' # "thrown" BY <1>2
  <1>. QED BY <1>3, <1>4, <1>5, <1>6, <1>7, <1>8, <1>9, <1>15, <1>16, <1>17 DEF OnePiece

\* The steps that read no byte, or one that the automaton does not accept.
LEMMA ParserMoves ==
  ASSUME Reading,
         \/ P!Execute \/ P!RecvFails \/ P!Return \/ UNCHANGED parser
         \/ P!TypeOK /\ phase = "parse" /\ cs \in P!States \ P!Final
              /\ \E b \in P!Bytes : P!Reject(b)
         \/ phase = "parse" /\ \E b \in P!Bytes : \E r \in P!Rules(b) : P!Throw(r)
  PROVE  P!TypeOK' /\ HandedOver'
  <1>1. P!TypeOK /\ HandedOver BY DEF Reading
  <1>2. /\ cs' \in {cs, 0} /\ request' = request /\ m_error' = m_error
        /\ uri_relaxed' = uri_relaxed
        /\ mark' \in {mark, 0} /\ field_start' \in {field_start, 0}
        /\ field_len' \in {field_len, "none"} /\ query_start' \in {query_start, "earlier"}
    BY DEF P!Execute, P!RecvFails, P!Return, P!Reject, P!Throw, parser
  <1>3. phase' \in {"recv", "parse", "closed", "finished", "thrown"}
    BY <1>1 DEF P!Execute, P!RecvFails, P!Return, P!Reject, P!Throw, parser, P!TypeOK
  <1>4. pieces' \in 0 .. MaxPieces
    BY <1>1, PiecesAndStates
       DEF P!Execute, P!RecvFails, P!Return, P!Reject, P!Throw, parser, P!TypeOK
  <1>5. P!TypeOK' BY <1>1, <1>2, <1>3, <1>4 DEF P!TypeOK, P!Values
  <1>6. HandedOver'
    BY <1>1, <1>2 DEF HandedOver, InMethod, InPath, InQuery, InFragment, InMessage, InJsonPath
  <1>. QED BY <1>5, <1>6

LEMMA ExecuteStep == ASSUME Reading, P!Execute PROVE Reading'
  <1>1. P!TypeOK' /\ HandedOver' BY ParserMoves
  <1>2. /\ phase = "recv" /\ phase' = "parse" /\ pieces < MaxPieces /\ pieces' = pieces + 1
        /\ pieces \in Nat /\ UNCHANGED <<cs, request, m_error>>
    BY PiecesAndStates DEF P!Execute, Reading, P!TypeOK
  <1>3. ASSUME pieces' <= 1 PROVE OnePiece'
    <2>1. pieces = 0 /\ cs' = 1 /\ ~m_error' BY <1>2, <1>3 DEF Reading
    <2>2. \A e \in P!Elements : request'[e] = "none" BY <1>1, <2>1 DEF HandedOver, InMethod
    <2>. QED BY <1>2, <2>1, <2>2 DEF OnePiece, InMethod, InPath, InJsonPath
  <1>. QED BY <1>1, <1>2, <1>3 DEF Reading

LEMMA ReturnStep == ASSUME Reading, P!Return \/ P!RecvFails \/ UNCHANGED parser PROVE Reading'
  <1>1. P!TypeOK' /\ HandedOver' BY ParserMoves
  <1>2. /\ UNCHANGED <<pieces, cs, mark, field_start, query_start, field_len, request, m_error>>
        /\ phase' \in {phase, "closed"} \/ P!Return
    BY DEF P!Return, P!RecvFails, parser
  <1>3. phase' = "recv" => pieces < MaxPieces /\ cs \notin P!Final \cup {0} /\ ~m_error
    BY <1>2 DEF P!Return, P!RecvFails, parser, Reading
  <1>4. phase' = "finished" => ~m_error /\ cs \in P!Final
    BY <1>2 DEF P!Return, P!RecvFails, parser, Reading
  <1>5. pieces = 0 => phase' \in {"recv", "closed"}
    BY <1>2 DEF P!Return, P!RecvFails, parser, Reading
  <1>6. pieces <= 1 => phase' # "thrown" BY <1>2 DEF P!Return, Reading, OnePiece
  <1>. QED BY <1>1, <1>2, <1>3, <1>4, <1>5, <1>6 DEF Reading, OnePiece

LEMMA ParseStep == ASSUME Reading, NEW b \in P!Bytes, P!Parse(b) PROVE Reading'
  <1>1. P!TypeOK /\ phase = "parse" /\ cs \in P!States \ P!Final /\ pieces # 0
    BY DEF P!Parse, Reading
  <1>2. ASSUME NEW r \in P!Rules(b), P!Accept(r) PROVE Reading'
    <2>1. P!TypeOK' BY <1>1, <1>2, AcceptTypes
    <2>2. HandedOver' BY <1>1, <1>2, AcceptHandsOver
    <2>3. pieces <= 1 => OnePiece' BY <1>1, <1>2, AcceptOnePiece
    <2>4. phase' = phase /\ pieces' = pieces BY <1>2 DEF P!Accept
    <2>. QED BY <1>1, <2>1, <2>2, <2>3, <2>4 DEF Reading
  <1>3. ASSUME NEW r \in P!Rules(b), P!Throw(r) PROVE Reading'
    <2>1. P!TypeOK' /\ HandedOver' BY <1>1, <1>3, ParserMoves
    <2>2. phase' = "thrown" /\ pieces' = pieces BY <1>3 DEF P!Throw
    <2>3. ~(pieces <= 1)
      <3>1. "query_string" \in r.do /\ P!QueryMarked(r) # "here" BY <1>3 DEF P!Throw
      <3>2. Does(cs, r.to, r.do) BY <1>1, TableLawful DEF P!Rules
      <3>3. cs \in 30 .. 32 /\ query_start # "here"
        BY <3>1, <3>2 DEF Does, P!QueryMarked, InQuery
      <3>. QED BY <3>3 DEF Reading, OnePiece
    <2>. QED BY <1>1, <2>1, <2>2, <2>3 DEF Reading
  <1>4. ASSUME P!Reject(b) PROVE Reading'
    <2>1. P!TypeOK' /\ HandedOver' BY <1>1, <1>4, ParserMoves
    <2>2. /\ cs' = 0
          /\ UNCHANGED <<phase, pieces, mark, field_start, query_start, field_len, request, m_error>>
      BY <1>4 DEF P!Reject
    <2>3. pieces <= 1 => OnePiece'
      BY <2>2 DEF Reading, OnePiece, InMethod, InPath, InJsonPath
    <2>. QED BY <1>1, <2>1, <2>2, <2>3 DEF Reading
  <1>. QED BY <1>2, <1>3, <1>4 DEF P!Parse

LEMMA ReadingStays == Reading /\ [P!Next]_parser => Reading'
  BY ExecuteStep, ReturnStep, ParseStep DEF P!Next

LEMMA ReadingIsSound == Reading => RequestSound
  <1> SUFFICES ASSUME Reading PROVE P!WholeInOnePiece /\ P!CompleteRequest
    BY DEF RequestSound, P!RequestSound
  <1>1. P!WholeInOnePiece BY DEF P!WholeInOnePiece, Reading, OnePiece
  <1>2. P!CompleteRequest
    BY PiecesAndStates DEF P!CompleteRequest, Reading, HandedOver, P!Final, InMessage
  <1>. QED BY <1>1, <1>2

-----------------------------------------------------------------------------
(* The automaton against the grammar. *)

\* What the grammar sees of a state of the parser.
PartOf(n) ==
  IF n \in P!Final THEN "complete" ELSE IF n \in InMethod THEN "method"
  ELSE IF n \in InPath \cup InQuery \cup InFragment THEN "target"
  ELSE IF n \in 4 .. 12 THEN "version" ELSE IF n \in 13 .. 18 THEN "fields" ELSE "message"

SeesPart == P!TypeOK => P!Part = IF P!Refused THEN "refused" ELSE PartOf(cs)

Handed == IF P!Refused THEN {} ELSE {e \in P!Elements : request[e] # "none"}

LEMMA PartIs == SeesPart
  <1> SUFFICES ASSUME P!TypeOK PROVE P!Part = IF P!Refused THEN "refused" ELSE PartOf(cs)
    BY DEF SeesPart
  <1>1. CASE P!Refused BY <1>1 DEF P!Part
  <1>2. CASE ~P!Refused
    <2>1. cs \in 1 .. 349 BY <1>2 DEF P!TypeOK, P!States, P!Refused
    <2> USE <1>2 DEF P!Part, PartOf, P!Final, InMethod, InPath, InQuery, InFragment
    <2>2. CASE cs \in P!Final BY <2>2
    <2>3. CASE cs \in {1, 2} \cup 175 .. 193 BY <2>3
    <2>4. CASE cs \in {3} \cup 19 .. 174 BY <2>4, SMTT(30)
    <2>5. CASE cs \in 4 .. 12 BY <2>5
    <2>6. CASE cs \in 13 .. 18 BY <2>6
    <2>7. CASE cs \in 194 .. 347 BY <2>7
    <2>8. \/ cs \in P!Final \/ cs \in {1, 2} \cup 175 .. 193 \/ cs \in {3} \cup 19 .. 174
          \/ cs \in 4 .. 12 \/ cs \in 13 .. 18 \/ cs \in 194 .. 347
      BY ONLY <2>1 DEF P!Final
    <2>. QED BY ONLY <2>2, <2>3, <2>4, <2>5, <2>6, <2>7, <2>8
  <1>. QED BY <1>1, <1>2

LEMMA PartWillBe == SeesPart'
  BY PartIs, PTL

LEMMA SeesVars ==
  ASSUME P!Part' = P!Part, Handed' = Handed
  PROVE  UNCHANGED P!Grammar!vars
  BY DEF P!Grammar!vars, Handed

\* Nothing is handed over, and the part is the same.
LEMMA Unseen ==
  ASSUME P!TypeOK, P!TypeOK', P!Refused' <=> P!Refused,
         PartOf(cs') = PartOf(cs) \/ P!Refused, request' = request
  PROVE  UNCHANGED P!Grammar!vars
  <1>1. P!Part' = P!Part BY PartIs, PartWillBe DEF SeesPart
  <1>2. Handed' = Handed BY DEF Handed
  <1>. QED BY <1>1, <1>2, SeesVars

\* What the parser has not refused, it may refuse at any time before the end.
LEMMA Refuses ==
  ASSUME P!TypeOK, P!TypeOK', ~P!Refused, P!Refused', cs \notin P!Final
  PROVE  P!Grammar!Refuse
  <1>1. P!Part # "complete" BY PartIs DEF SeesPart, PartOf
  <1>2. P!Part' = "refused" BY PartWillBe DEF SeesPart
  <1>. QED BY <1>1, <1>2 DEF P!Grammar!Refuse

\* What an accepted byte shows to the grammar, by the states it connects.
LEMMA AcceptShows ==
  ASSUME Reading, P!TypeOK', ~P!Refused, ~m_error', phase = "parse", cs \in P!States \ P!Final,
         NEW b, NEW r \in P!Rules(b), P!Accept(r)
  PROVE  /\ ~P!Refused' /\ Edge(cs, cs')
         /\ P!Part = PartOf(cs) /\ P!Part' = PartOf(cs')
         /\ Handed = {e \in P!Elements : request[e] # "none"}
         /\ GivesMethod => Handed' = Handed \cup {"method"}
         /\ GivesPath => Handed' = Handed \cup {"path"}
         /\ GivesQuery => Handed' = Handed \cup {"query"}
         /\ cs = 12 => Handed' = Handed \cup {"version"}
         /\ GivesField => Handed' = Handed \/ Handed' = Handed \cup {"field"}
         /\ ~(GivesMethod \/ GivesPath \/ GivesQuery \/ cs = 12 \/ GivesField) => Handed' = Handed
  <1>1. P!TypeOK /\ HandedOver BY DEF Reading
  <1>2. Edge(cs, cs') /\ cs' \in P!States /\ request' = Given /\ phase' = phase
    BY <1>1, AcceptIs
  <1>3. ~P!Refused' BY <1>2 DEF P!Refused, P!States
  <1>4. P!Part = PartOf(cs) /\ P!Part' = PartOf(cs')
    BY <1>1, <1>3, PartIs, PartWillBe DEF SeesPart
  <1>5. /\ Handed = {e \in P!Elements : request[e] # "none"}
        /\ Handed' = {e \in P!Elements : Given[e] # "none"}
    BY <1>2, <1>3 DEF Handed
  <1>6. /\ \A e \in P!Elements : request[e] # "none" => Given[e] # "none"
        /\ GivesMethod => Given["method"] # "none"
        /\ ~GivesMethod => Given["method"] = request["method"]
        /\ GivesPath => Given["path"] # "none"
        /\ ~GivesPath => Given["path"] = request["path"]
        /\ GivesQuery => Given["query"] # "none"
        /\ ~GivesQuery => Given["query"] = request["query"]
        /\ cs = 12 => Given["version"] # "none"
        /\ cs # 12 => Given["version"] = request["version"]
        /\ ~GivesField => Given["field"] = request["field"]
    BY <1>1, GivenTypes, PiecesAndStates DEF Given, Wholly
  <1>7. /\ GivesMethod => ~GivesPath /\ ~GivesQuery /\ cs # 12 /\ ~GivesField
        /\ GivesPath => ~GivesQuery /\ cs # 12 /\ ~GivesField
        /\ GivesQuery => cs # 12 /\ ~GivesField
        /\ cs = 12 => ~GivesField
    BY DEF GivesMethod, GivesPath, GivesQuery, GivesField, InMethod, InPath, InQuery, InJsonPath
  <1> HIDE DEF Given, Handed, GivesMethod, GivesPath, GivesQuery, GivesField
  <1>8. GivesMethod => Handed' = Handed \cup {"method"} BY <1>5, <1>6, <1>7, PiecesAndStates
  <1>9. GivesPath => Handed' = Handed \cup {"path"} BY <1>5, <1>6, <1>7, PiecesAndStates
  <1>10. GivesQuery => Handed' = Handed \cup {"query"} BY <1>5, <1>6, <1>7, PiecesAndStates
  <1>11. cs = 12 => Handed' = Handed \cup {"version"} BY <1>5, <1>6, <1>7, PiecesAndStates
  <1>12. GivesField => Handed' = Handed \/ Handed' = Handed \cup {"field"}
    BY <1>5, <1>6, <1>7, PiecesAndStates
  <1>13. ~(GivesMethod \/ GivesPath \/ GivesQuery \/ cs = 12 \/ GivesField) => Handed' = Handed
    BY <1>5, <1>6, PiecesAndStates
  <1>. QED BY <1>2, <1>3, <1>4, <1>5, <1>8, <1>9, <1>10, <1>11, <1>12, <1>13

\* An accepted byte is a step of the grammar, or nothing that it sees.
LEMMA AcceptFollowsGrammar ==
  ASSUME Reading, P!TypeOK', ~P!Refused, ~m_error', phase = "parse", cs \in P!States \ P!Final,
         NEW b, NEW r \in P!Rules(b), P!Accept(r)
  PROVE  P!Grammar!Next \/ UNCHANGED P!Grammar!vars
  <1>1. /\ ~P!Refused' /\ Edge(cs, cs') /\ HandedOver /\ ~m_error /\ cs \in 1 .. 347
        /\ P!Part = PartOf(cs) /\ P!Part' = PartOf(cs')
        /\ Handed = {e \in P!Elements : request[e] # "none"}
    BY AcceptShows DEF Reading, P!Refused, P!Final, P!States
  <1> USE DEF InMethod, InPath, InQuery, InFragment, InMessage, InJsonPath, P!Final
  <1>2. CASE cs \in InMethod /\ cs' \notin {3, 194, 198}
    <2>1. PartOf(cs') = PartOf(cs) BY <1>1, <1>2 DEF Edge, PartOf
    <2>2. Handed' = Handed
      BY <1>1, <1>2, AcceptShows DEF Edge, GivesMethod, GivesPath, GivesQuery, GivesField
    <2>. QED BY <1>1, <2>1, <2>2, SeesVars
  <1>3. CASE cs = 1 /\ cs' \in {194, 198}
    <2>1. PartOf(cs) = "method" /\ PartOf(cs') = "message" BY <1>3 DEF PartOf
    <2>2. Handed' = Handed
      BY <1>3, AcceptShows DEF GivesMethod, GivesPath, GivesQuery, GivesField
    <2>3. P!Grammar!Message BY <1>1, <2>1, <2>2 DEF P!Grammar!Message, Handed
    <2>. QED BY <2>3 DEF P!Grammar!Next
  <1>4. CASE cs \in InMethod /\ cs' = 3
    <2>1. PartOf(cs) = "method" /\ PartOf(cs') = "target" BY <1>4 DEF PartOf
    <2>2. Handed = {} BY <1>1, <1>4 DEF HandedOver
    <2>3. Handed' = {"method"} BY <1>4, <2>2, AcceptShows DEF GivesMethod
    <2>4. P!Grammar!Method BY <1>1, <2>1, <2>2, <2>3 DEF P!Grammar!Method, Handed
    <2>. QED BY <2>4 DEF P!Grammar!Next
  <1>5. CASE cs \in InPath
    <2>1. PartOf(cs) = "target" BY <1>5 DEF PartOf
    <2>2. CASE cs' \in InPath
      <3>1. PartOf(cs') = PartOf(cs) BY <1>5, <2>2 DEF PartOf
      <3>2. Handed' = Handed
        BY <1>5, <2>2, AcceptShows DEF GivesMethod, GivesPath, GivesQuery, GivesField
      <3>. QED BY <1>1, <3>1, <3>2, SeesVars
    <2>3. CASE cs' \in {4, 20, 29}
      <3>1. PartOf(cs') \in {"target", "version"} BY <2>3 DEF PartOf
      <3>2. "path" \notin Handed BY <1>1, <1>5, PiecesAndStates DEF HandedOver
      <3>3. Handed' = Handed \cup {"path"} BY <1>5, <2>3, AcceptShows DEF GivesPath
      <3>4. P!Grammar!Target("path")
        BY <1>1, <2>1, <3>1, <3>2, <3>3 DEF P!Grammar!Target, Handed
      <3>. QED BY <3>4 DEF P!Grammar!Next
    <2>. QED BY <1>1, <1>5, <2>2, <2>3 DEF Edge
  <1>6. CASE cs \in InQuery
    <2>1. PartOf(cs) = "target" BY <1>6 DEF PartOf
    <2>2. CASE cs' \in {30, 31, 32}
      <3>1. PartOf(cs') = PartOf(cs) BY <2>1, <2>2 DEF PartOf
      <3>2. Handed' = Handed
        BY <1>6, <2>2, AcceptShows DEF GivesMethod, GivesPath, GivesQuery, GivesField
      <3>. QED BY <1>1, <3>1, <3>2, SeesVars
    <2>3. CASE cs' \in {4, 20}
      <3>1. PartOf(cs') \in {"target", "version"} BY <2>3 DEF PartOf
      <3>2. "path" \in Handed /\ "query" \notin Handed
        BY <1>1, <1>6, PiecesAndStates DEF HandedOver
      <3>3. Handed' = Handed \cup {"query"} BY <1>6, <2>3, AcceptShows DEF GivesQuery
      <3>4. P!Grammar!Target("query")
        BY <1>1, <2>1, <3>1, <3>2, <3>3 DEF P!Grammar!Target, Handed
      <3>. QED BY <3>4 DEF P!Grammar!Next
    <2>. QED BY <1>1, <1>6, <2>2, <2>3 DEF Edge
  <1>7. CASE cs \in InFragment
    <2>1. PartOf(cs) = "target" BY <1>7 DEF PartOf
    <2>2. Handed' = Handed
      BY <1>7, AcceptShows DEF GivesMethod, GivesPath, GivesQuery, GivesField
    <2>3. CASE cs' \in {21, 22, 23}
      <3>1. PartOf(cs') = PartOf(cs) BY <2>1, <2>3 DEF PartOf
      <3>. QED BY <1>1, <2>2, <3>1, SeesVars
    <2>4. CASE cs' = 4
      <3>1. PartOf(cs') = "version" BY <2>4 DEF PartOf
      <3>2. "path" \in Handed BY <1>1, <1>7, PiecesAndStates DEF HandedOver
      <3>3. P!Grammar!EndTarget
        BY <1>1, <2>1, <2>2, <3>1, <3>2 DEF P!Grammar!EndTarget, Handed
      <3>. QED BY <3>3 DEF P!Grammar!Next
    <2>. QED BY <1>1, <1>7, <2>3, <2>4 DEF Edge
  <1>8. CASE cs \in 4 .. 11
    <2>1. cs' = cs + 1 BY <1>1, <1>8 DEF Edge
    <2>2. PartOf(cs') = PartOf(cs) BY <1>8, <2>1 DEF PartOf
    <2>3. Handed' = Handed
      BY <1>8, AcceptShows DEF GivesMethod, GivesPath, GivesQuery, GivesField
    <2>. QED BY <1>1, <2>2, <2>3, SeesVars
  <1>9. CASE cs = 12
    <2>1. PartOf(cs) = "version" /\ PartOf(cs') = "fields" BY <1>1, <1>9 DEF PartOf, Edge
    <2>2. "version" \notin Handed BY <1>1, <1>9, PiecesAndStates DEF HandedOver
    <2>3. Handed' = Handed \cup {"version"} BY <1>9, AcceptShows
    <2>4. P!Grammar!Version BY <1>1, <2>1, <2>2, <2>3 DEF P!Grammar!Version, Handed
    <2>. QED BY <2>4 DEF P!Grammar!Next
  <1>10. CASE cs \in 13 .. 18
    <2>1. PartOf(cs) = "fields" BY <1>10 DEF PartOf
    <2>2. CASE cs' = 348
      <3>1. PartOf(cs') = "complete" BY <2>2 DEF PartOf
      <3>2. Handed' = Handed
        BY <1>10, <2>2, AcceptShows DEF GivesMethod, GivesPath, GivesQuery, GivesField
      <3>3. P!Grammar!Complete BY <1>1, <2>1, <3>1, <3>2 DEF P!Grammar!Complete, Handed
      <3>. QED BY <3>3 DEF P!Grammar!Next
    <2>3. CASE cs' # 348
      <3>1. PartOf(cs') = "fields" BY <1>1, <1>10, <2>3 DEF PartOf, Edge
      <3>2. Handed' = Handed \/ Handed' = Handed \cup {"field"}
        BY <1>10, AcceptShows DEF GivesMethod, GivesPath, GivesQuery, GivesField
      <3>3. Handed' = Handed \cup {"field"} => P!Grammar!Field
        BY <1>1, <2>1, <3>1 DEF P!Grammar!Field, Handed
      <3>. QED BY <1>1, <2>1, <3>1, <3>2, <3>3, SeesVars DEF P!Grammar!Next
    <2>. QED BY <2>2, <2>3
  <1>11. CASE cs \in 194 .. 347
    <2>1. PartOf(cs) = "message" BY <1>11 DEF PartOf
    <2>2. CASE cs' = 349
      <3>1. PartOf(cs') = "complete" /\ cs \in InMessage BY <1>1, <1>11, <2>2 DEF PartOf, Edge
      <3>2. Handed' = Handed
        BY <1>11, <2>2, AcceptShows DEF GivesMethod, GivesPath, GivesQuery, GivesField
      <3>3. Handed = {"path"} BY <1>1, <3>1, PiecesAndStates DEF HandedOver
      <3>4. P!Grammar!CompleteMessage
        BY <1>1, <2>1, <3>1, <3>2, <3>3 DEF P!Grammar!CompleteMessage, Handed
      <3>. QED BY <3>4 DEF P!Grammar!Next
    <2>3. CASE GivesPath
      <3>1. cs \in {195} \cup InJsonPath /\ PartOf(cs') = "message"
        BY <1>11, <2>3 DEF GivesPath, PartOf
      <3>2. Handed = {} BY <1>1, <3>1 DEF HandedOver
      <3>3. Handed' = {"path"} BY <2>3, <3>2, AcceptShows
      <3>4. P!Grammar!MessagePath
        BY <1>1, <2>1, <3>1, <3>2, <3>3 DEF P!Grammar!MessagePath, Handed
      <3>. QED BY <3>4 DEF P!Grammar!Next
    <2>4. CASE cs' # 349 /\ ~GivesPath
      <3>1. PartOf(cs') = "message" BY <1>1, <1>11, <2>4, SMTT(30) DEF PartOf, Edge
      <3>2. Handed' = Handed
        BY <1>11, <2>4, AcceptShows DEF GivesMethod, GivesQuery, GivesField
      <3>. QED BY <1>1, <2>1, <3>1, <3>2, SeesVars
    <2>. QED BY <2>2, <2>3, <2>4
  <1>12. \/ cs \in InMethod /\ cs' \notin {3, 194, 198}
         \/ cs = 1 /\ cs' \in {194, 198}
         \/ cs \in InMethod /\ cs' = 3
         \/ cs \in InPath \/ cs \in InQuery \/ cs \in InFragment
         \/ cs \in 4 .. 11 \/ cs = 12 \/ cs \in 13 .. 18 \/ cs \in 194 .. 347
    BY <1>1 DEF Edge
  <1>. QED BY <1>2, <1>3, <1>4, <1>5, <1>6, <1>7, <1>8, <1>9, <1>10, <1>11, <1>12

LEMMA ParserFollowsGrammar ==
  Reading /\ Reading' /\ [P!Next]_parser => [P!Grammar!Next]_(P!Grammar!vars)
  <1> SUFFICES ASSUME Reading, Reading', [P!Next]_parser
               PROVE  P!Grammar!Next \/ UNCHANGED P!Grammar!vars
    OBVIOUS
  <1>1. P!TypeOK /\ P!TypeOK' BY DEF Reading
  <1>2. ASSUME request' = request, cs' = cs, P!Refused' <=> P!Refused
        PROVE  UNCHANGED P!Grammar!vars
    BY <1>1, <1>2, Unseen
  <1>3. ASSUME ~P!Refused, P!Refused', cs \notin P!Final PROVE P!Grammar!Next
    BY <1>1, <1>3, Refuses DEF P!Grammar!Next
  <1>4. ASSUME P!Refused, P!Refused' PROVE UNCHANGED P!Grammar!vars
    <2>1. P!Part' = P!Part BY <1>1, <1>4, PartIs, PartWillBe DEF SeesPart
    <2>2. Handed' = Handed BY <1>4 DEF Handed
    <2>. QED BY <2>1, <2>2, SeesVars
  <1>5. CASE UNCHANGED parser BY <1>2, <1>5 DEF parser, P!Refused
  <1>6. CASE P!Execute BY <1>2, <1>6 DEF P!Execute, P!Refused
  <1>7. CASE P!RecvFails
    <2>1. ~P!Refused /\ P!Refused' /\ cs \notin P!Final
      BY <1>7 DEF P!RecvFails, P!Refused, Reading
    <2>. QED BY <1>3, <2>1
  <1>8. CASE P!Return BY <1>2, <1>8 DEF P!Return, P!Refused
  <1>9. ASSUME NEW b \in P!Bytes, P!Parse(b)
        PROVE  P!Grammar!Next \/ UNCHANGED P!Grammar!vars
    <2>1. phase = "parse" /\ cs \in P!States \ P!Final BY <1>9 DEF P!Parse
    <2>2. ASSUME NEW r \in P!Rules(b), P!Throw(r) PROVE P!Grammar!Next \/ UNCHANGED P!Grammar!vars
      <3>1. P!Refused' BY <2>2 DEF P!Throw, P!Refused
      <3>. QED BY <1>3, <1>4, <2>1, <3>1
    <2>3. ASSUME P!Reject(b) PROVE P!Grammar!Next \/ UNCHANGED P!Grammar!vars
      <3>1. P!Refused' BY <2>3 DEF P!Reject, P!Refused
      <3>. QED BY <1>3, <1>4, <2>1, <3>1
    <2>4. ASSUME NEW r \in P!Rules(b), P!Accept(r)
          PROVE  P!Grammar!Next \/ UNCHANGED P!Grammar!vars
      <3>1. CASE m_error'
        <4>1. P!Refused' BY <3>1 DEF P!Refused
        <4>. QED BY <1>3, <1>4, <2>1, <4>1
      <3>2. CASE ~m_error'
        <4>1. ~m_error BY <3>2, <2>4 DEF P!Accept
        <4>2. ~P!Refused BY <2>1, <4>1 DEF P!Refused, P!States
        <4>. QED BY <1>1, <2>1, <2>4, <3>2, <4>2, AcceptFollowsGrammar
      <3>. QED BY <3>1, <3>2
    <2>. QED BY <1>9, <2>2, <2>3, <2>4 DEF P!Parse
  <1>. QED BY <1>5, <1>6, <1>7, <1>8, <1>9 DEF P!Next

LEMMA GrammarAtFirst == P!Init => P!Grammar!Init
  <1> SUFFICES ASSUME P!Init PROVE P!Grammar!Init OBVIOUS
  <1>1. ~P!Refused /\ cs = 1 /\ \A e \in P!Elements : request[e] = "none"
    BY DEF P!Init, P!Refused
  <1>2. P!TypeOK BY ReadingAtFirst DEF Reading
  <1>3. P!Part = "method" BY <1>1, <1>2, PartIs DEF SeesPart, PartOf, P!Final, InMethod
  <1>. QED BY <1>1, <1>3 DEF P!Grammar!Init

-----------------------------------------------------------------------------
(* The parts together. *)

\* Each part of a step of the server is a step of that part, or nothing.
LEMMA ServerSteps ==
  [Next]_vars =>
    [P!Next]_parser /\ [S!Next]_session /\ [D!Next]_sessions /\ [R!Next]_routes
  BY DEF Next, vars

LEMMA ServerAtFirst == Init => P!Init /\ S!Init /\ D!Init /\ R!Init
  BY DEF Init

\* Every variable of the parts has its type: the parser is in a state of the
\* automaton, and a timer that ends leaves no key behind.
THEOREM ServerTypes == Spec => []TypeOK
  <1>1. Init => Reading /\ Session /\ Collected /\ Registered
    BY ServerAtFirst, ReadingAtFirst, SessionAtFirst, CollectedAtFirst, RegisteredAtFirst
  <1>2. Reading /\ Session /\ Collected /\ Registered /\ [Next]_vars
          => (Reading /\ Session /\ Collected /\ Registered)'
    BY ServerSteps, ReadingStays, SessionStays, CollectedStays, RegisteredStays
  <1>3. Reading /\ Session /\ Collected /\ Registered => TypeOK
    BY DEF Reading, Session, Collected, Registered, TypeOK
  <1>. QED BY <1>1, <1>2, <1>3, PTL DEF Spec

\* Whatever bytes come, a request that comes in one piece is handed over whole,
\* and nothing is returned that is wrong or lacks its method, path or version,
\* into however many pieces it was cut.
THEOREM RequestsSound == Spec => []RequestSound
  <1>1. Init => Reading BY ServerAtFirst, ReadingAtFirst
  <1>2. Reading /\ [Next]_vars => Reading' BY ServerSteps, ReadingStays
  <1>. QED BY <1>1, <1>2, ReadingIsSound, PTL DEF Spec

\* Whatever bytes come, and into however many pieces they are cut, the callbacks
\* come in the order of the grammar.
THEOREM FollowsGrammar == Spec => ImplementsGrammar
  <1>1. Init => Reading /\ P!Grammar!Init BY ServerAtFirst, ReadingAtFirst, GrammarAtFirst
  <1>2. Reading /\ [Next]_vars => Reading' BY ServerSteps, ReadingStays
  <1>3. Reading /\ Reading' /\ [Next]_vars => [P!Grammar!Next]_(P!Grammar!vars)
    BY ServerSteps, ParserFollowsGrammar
  <1>. QED BY <1>1, <1>2, <1>3, PTL
           DEF Spec, ImplementsGrammar, P!ImplementsGrammar, P!Grammar!Spec

\* However the bytes of a request and of what follows it are cut into pieces, and
\* whatever the buffer holds when the head ends, the servlet is given the body, if
\* no piece ended inside the Content-Length, and none if one did.
THEOREM ServletGetsBody == Spec => []BodyExact
  <1>1. Init => Session BY ServerAtFirst, SessionAtFirst
  <1>2. Session /\ [Next]_vars => Session' BY ServerSteps, SessionStays
  <1>3. Session => BodyExact BY DEF Session
  <1>. QED BY <1>1, <1>2, <1>3, PTL DEF Spec

\* However long the timer waits between its reading of the clock, its search and
\* each of its deletions, it deletes no session that is in time, unless somebody
\* has used or added it since the clock was read.
THEOREM TimerDeletesStale == Spec => DeletesStale
  <1>1. Init => Collected BY ServerAtFirst, CollectedAtFirst
  <1>2. Collected /\ [Next]_vars => Collected' BY ServerSteps, CollectedStays
  <1>3. Collected /\ [Next]_vars =>
          [\A k \in overtimes \ overtimes' :
             age[k] # None => age[k] > TTime \/ k \in touched]_(D!vars)
    <2> SUFFICES ASSUME Collected, [Next]_vars, NEW k \in overtimes \ overtimes'
                 PROVE  age[k] # None => age[k] > TTime \/ k \in touched
      OBVIOUS
    <2>. QED BY ServerSteps, DeletesCollected
  <1>. QED BY <1>1, <1>2, <1>3, PTL DEF Spec, DeletesStale, D!DeletesStale

\* Whatever patterns are registered, again, and taken out, the one that answers is
\* the one among those that match which was registered first.
THEOREM GlobsInOrder == Spec => []GlobOrder
  <1>1. Init => Registered BY ServerAtFirst, RegisteredAtFirst
  <1>2. Registered /\ [Next]_vars => Registered' BY ServerSteps, RegisteredStays
  <1>3. Registered => GlobOrder BY FirstAnswers
  <1>. QED BY <1>1, <1>2, <1>3, PTL DEF Spec
=============================================================================
