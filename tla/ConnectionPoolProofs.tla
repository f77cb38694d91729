------------------------ MODULE ConnectionPoolProofs ------------------------
(***************************************************************************)
(* Proofs about ConnectionPool for any number of connections and users:    *)
(* its safety properties, and that it implements ResourcePool.             *)
(*                                                                         *)
(* The properties are inductive together.  NoLeak is what makes a new      *)
(* connection differ from all others, LentOnce is what keeps the order of  *)
(* age when one is put back and refreshed.                                 *)
(***************************************************************************)
EXTENDS ConnectionPool, FiniteSetTheorems, TLAPS

Holders == {u \in Users : conn[u] # None}

IInv == TypeOK /\ LentOnce /\ NoLeak /\ OldestFirst /\ Bounded

USE PoolAssumption

-----------------------------------------------------------------------------
(* What the list's operations do. *)

\* push_back: the elements stay where they are and one comes last.
LEMMA AppendFacts ==
  ASSUME NEW S, NEW s \in Seq(S), NEW c \in S
  PROVE  /\ Append(s, c) \in Seq(S)
         /\ Len(Append(s, c)) = Len(s) + 1
         /\ \A i \in 1..Len(s) : Append(s, c)[i] = s[i]
         /\ Append(s, c)[Len(s) + 1] = c
  OBVIOUS

\* pop_front: the elements move up by one.
LEMMA TailFacts ==
  ASSUME NEW S, NEW s \in Seq(S), s # <<>>
  PROVE  /\ Tail(s) \in Seq(S)
         /\ Len(s) \in Nat \ {0}
         /\ Len(Tail(s)) = Len(s) - 1
         /\ \A i \in 1..(Len(s) - 1) : Tail(s)[i] = s[i + 1]
         /\ Head(s) = s[1] /\ s[1] \in S
  OBVIOUS

\* The scanner's loop: the elements move up by n.
LEMMA SubSeqFacts ==
  ASSUME NEW S, NEW s \in Seq(S), NEW n \in 0..Len(s)
  PROVE  /\ SubSeq(s, n + 1, Len(s)) \in Seq(S)
         /\ Len(SubSeq(s, n + 1, Len(s))) = Len(s) - n
         /\ \A i \in 1..(Len(s) - n) : SubSeq(s, n + 1, Len(s))[i] = s[i + n]
  OBVIOUS

\* What is counted is a number.
LEMMA HoldersFinite == IsFiniteSet(Holders) /\ Cardinality(Holders) \in Nat
  BY FS_Subset, FS_CardinalityType DEF Holders

-----------------------------------------------------------------------------
(* The initial states, and the steps that leave the connections alone.      *)

LEMMA InitIInv == ASSUME Init PROVE IInv
  <1>1. PICK n \in Nat : list \in [1..n -> Conns] /\ \A i, j \in 1..n : list[i] = list[j] => i = j
    BY DEF Init
  <1>2. list \in Seq(Conns) /\ Len(list) = n
    BY <1>1
  <1>0. /\ count = Len(list) /\ live = Listed
        /\ idle = [c \in Conns |-> 0] /\ conn = [u \in Users |-> None]
        /\ waiting = {} /\ prod = "check" /\ scan = "check"
        /\ stop = FALSE /\ ctl = "out" /\ crashed = FALSE
    BY DEF Init
  <1>3. Holders = {}
    BY <1>0 DEF Holders
  <1>4. TypeOK
    <2>1. Listed \in SUBSET Conns BY <1>2 DEF Listed
    <2>2. count \in Int BY <1>1, <1>2, <1>0
    <2>3. idle \in [Conns -> 0..MaxIdle] BY <1>0
    <2>4. conn \in [Users -> Conns \cup {None}] BY <1>0
    <2>. QED BY <1>2, <1>0, <2>1, <2>2, <2>3, <2>4 DEF TypeOK
  <1>5. LentOnce /\ NoLeak
    BY <1>1, <1>2, <1>3, <1>0 DEF LentOnce, NoLeak, Holders
  <1>6. OldestFirst
    BY <1>1, <1>2, <1>0 DEF OldestFirst
  <1>7. Len(list) <= MaxConns
    BY <1>2 DEF Init
  <1>8. Bounded
    <2>1. Cardinality(Holders) = 0 BY <1>3, FS_EmptySet
    <2>2. count = Len(list) + Cardinality(Holders) BY <1>1, <1>2, <1>0, <2>1
    <2>. QED BY <1>7, <1>0, <2>2 DEF Bounded, Holders
  <1>. QED BY <1>4, <1>5, <1>6, <1>8 DEF IInv

\* All but the type invariant depends on these variables alone.
LEMMA Frame ==
  ASSUME IInv, TypeOK', UNCHANGED <<list, count, live, idle, conn>>
  PROVE  IInv'
  <1>1. LentOnce' BY DEF IInv, LentOnce, Listed
  <1>2. NoLeak' BY DEF IInv, NoLeak, Listed
  <1>3. OldestFirst' BY DEF IInv, OldestFirst
  <1>4. Bounded' BY DEF IInv, Bounded
  <1>. QED BY <1>1, <1>2, <1>3, <1>4 DEF IInv

\* Time passes for every connection alike.
LEMMA TickStep == ASSUME IInv, Tick PROVE IInv'
  <1>1. \A c \in Conns : idle[c] \in 0..MaxIdle
                         /\ idle'[c] = IF idle[c] < MaxIdle THEN idle[c] + 1 ELSE idle[c]
    BY DEF IInv, TypeOK, Tick
  <1>2. TypeOK' BY DEF IInv, TypeOK, Tick
  <1>3. LentOnce' BY DEF IInv, LentOnce, Listed, Tick
  <1>4. NoLeak' BY DEF IInv, NoLeak, Listed, Tick
  <1>5. OldestFirst'
    <2>1. SUFFICES ASSUME NEW i \in 1..Len(list), NEW j \in 1..Len(list), i < j
                   PROVE  idle'[list[i]] >= idle'[list[j]]
      BY DEF OldestFirst, Tick
    <2>2. list[i] \in Conns /\ list[j] \in Conns
      BY DEF IInv, TypeOK
    <2>3. idle[list[i]] >= idle[list[j]]
      BY <2>1 DEF IInv, OldestFirst
    <2>. QED BY <1>1, <2>2, <2>3
  <1>6. Bounded' BY DEF IInv, Bounded, Tick
  <1>. QED BY <1>2, <1>3, <1>4, <1>5, <1>6 DEF IInv

-----------------------------------------------------------------------------
(* The steps that move connections. *)

\* A connection put last is one more in the list, and a new one stays single.
LEMMA OneMore ==
  ASSUME list \in Seq(Conns), NEW c \in Conns, c \notin Listed, list' = Append(list, c),
         \A i, j \in 1..Len(list) : list[i] = list[j] => i = j
  PROVE  /\ Listed' = Listed \cup {c}
         /\ \A i, j \in 1..Len(list') : list'[i] = list'[j] => i = j
  <1> DEFINE n == Len(list)
  <1>1. /\ n \in Nat /\ Len(list') = n + 1 /\ list'[n + 1] = c
        /\ \A i \in 1..n : list'[i] = list[i]
    BY AppendFacts
  <1>2. \A i \in 1..(n + 1) : i = n + 1 \/ i \in 1..n
    BY <1>1
  <1>3. \A i \in 1..n : list[i] # c
    BY DEF Listed
  <1>4. Listed' \subseteq Listed \cup {c}
    BY <1>1, <1>2 DEF Listed
  <1>5. c \in Listed'
    <2>1. n + 1 \in 1..Len(list') BY <1>1
    <2>. QED BY <1>1, <2>1 DEF Listed
  <1>6. Listed \subseteq Listed'
    <2>1. \A i \in 1..n : i \in 1..Len(list') /\ list'[i] = list[i] BY <1>1
    <2>. QED BY <2>1 DEF Listed
  <1>7. \A i, j \in 1..Len(list') : list'[i] = list'[j] => i = j
    BY <1>1, <1>2, <1>3
  <1>. QED BY <1>4, <1>5, <1>6, <1>7

\* getConnection moves the first connection from the list to the user.
LEMMA TakeStep == ASSUME IInv, NEW u \in Users, Take(u) PROVE IInv'
  <1> DEFINE c == list[1]
  <1>1. /\ list \in Seq(Conns) /\ list # <<>> /\ conn \in [Users -> Conns \cup {None}]
        /\ conn[u] = None
    BY DEF IInv, TypeOK, Take
  <1>2. /\ c \in Conns /\ Len(list) \in Nat \ {0}
        /\ list' \in Seq(Conns) /\ Len(list') = Len(list) - 1
        /\ \A i \in 1..Len(list') : list'[i] = list[i + 1]
        /\ conn' = [conn EXCEPT ![u] = c]
    BY <1>1, TailFacts DEF Take, Lend
  <1>3. Listed = Listed' \cup {c} /\ c \notin Listed'
    <2>1. \A i \in 1..Len(list') : i + 1 \in 1..Len(list) /\ list'[i] \in Listed /\ list'[i] # c
      BY <1>2 DEF IInv, LentOnce, Listed
    <2>2. \A i \in 1..Len(list) : i = 1 \/ (i - 1 \in 1..Len(list') /\ list[i] = list'[i - 1])
      BY <1>2
    <2>3. c \in Listed BY <1>2 DEF Listed
    <2>4. Listed' \subseteq Listed BY <2>1 DEF Listed
    <2>5. Listed \subseteq Listed' \cup {c} BY <2>2 DEF Listed
    <2>6. c \notin Listed' BY <2>1 DEF Listed
    <2>. QED BY <2>3, <2>4, <2>5, <2>6
  <1>4. Holders' = Holders \cup {u} /\ u \notin Holders
    BY <1>1, <1>2 DEF Holders
  <1>5. TypeOK'
    BY <1>1, <1>2 DEF IInv, TypeOK, Take, Notified
  <1>6. LentOnce'
    <2>1. \A i, j \in 1..Len(list') : list'[i] = list'[j] => i = j
      BY <1>2 DEF IInv, LentOnce
    <2>2. \A v \in Users : conn'[v] # None =>
            conn'[v] \notin Listed' /\ \A x \in Users : conn'[x] = conn'[v] => x = v
      BY <1>1, <1>2, <1>3 DEF IInv, LentOnce
    <2>. QED BY <2>1, <2>2 DEF LentOnce
  <1>7. NoLeak'
    <2>1. {conn'[v] : v \in {x \in Users : conn'[x] # None}}
            = {conn[v] : v \in {x \in Users : conn[x] # None}} \cup {c}
      BY <1>1, <1>2
    <2>2. live' = live BY DEF Take
    <2>. QED BY <1>3, <2>1, <2>2 DEF IInv, NoLeak
  <1>8. OldestFirst'
    <2>1. idle' = idle BY DEF Take
    <2>. QED BY <1>2, <2>1 DEF IInv, OldestFirst
  <1>9. Bounded'
    <2>1. Cardinality(Holders') = Cardinality(Holders) + 1
      BY <1>4, HoldersFinite, FS_AddElement
    <2>2. count' = count BY DEF Take
    <2>. QED BY <1>2, <2>1, <2>2, HoldersFinite DEF IInv, Bounded, Holders
  <1>. QED BY <1>5, <1>6, <1>7, <1>8, <1>9 DEF IInv

\* The deleter refreshes the connection and puts it last.
LEMMA ReleaseStep == ASSUME IInv, NEW u \in Users, Release(u) PROVE IInv'
  <1> DEFINE c == conn[u]
  <1>1. /\ list \in Seq(Conns) /\ conn \in [Users -> Conns \cup {None}]
        /\ idle \in [Conns -> 0..MaxIdle] /\ c \in Conns /\ c \notin Listed
        /\ \A v \in Users : conn[v] = c => v = u
    BY DEF IInv, TypeOK, LentOnce, Release
  <1>2. /\ list' \in Seq(Conns) /\ Len(list') = Len(list) + 1
        /\ \A i \in 1..Len(list) : list'[i] = list[i]
        /\ list'[Len(list) + 1] = c
    BY <1>1, AppendFacts DEF Release, PutBack
  <1>3. /\ idle' = [idle EXCEPT ![c] = 0] /\ conn' = [conn EXCEPT ![u] = None]
        /\ count' = count /\ live' = live
    BY DEF Release
  <1>4. Listed' = Listed \cup {c}
    BY <1>1, OneMore DEF IInv, LentOnce, Release, PutBack
  <1>5. Holders' = Holders \ {u} /\ u \in Holders
    BY <1>1, <1>3 DEF Holders
  <1>6. TypeOK'
    BY <1>1, <1>2, <1>3 DEF IInv, TypeOK, Release
  <1>7. LentOnce'
    <2>1. \A i, j \in 1..Len(list') : list'[i] = list'[j] => i = j
      BY <1>1, OneMore DEF IInv, LentOnce, Release, PutBack
    <2>2. \A v \in Users : conn'[v] # None =>
            conn'[v] \notin Listed' /\ \A x \in Users : conn'[x] = conn'[v] => x = v
      BY <1>1, <1>3, <1>4 DEF IInv, LentOnce
    <2>. QED BY <2>1, <2>2 DEF LentOnce
  <1>8. NoLeak'
    <2>1. {conn[v] : v \in {x \in Users : conn[x] # None}}
            = {conn'[v] : v \in {x \in Users : conn'[x] # None}} \cup {c}
      BY <1>1, <1>3
    <2>. QED BY <1>3, <1>4, <2>1 DEF IInv, NoLeak
  <1>9. OldestFirst'
    <2>1. SUFFICES ASSUME NEW i \in 1..Len(list'), NEW j \in 1..Len(list'), i < j
                   PROVE  idle'[list'[i]] >= idle'[list'[j]]
      BY DEF OldestFirst
    <2>0. i \in 1..Len(list)
      BY <1>1, <1>2, <2>1
    <2>2. i \in 1..Len(list) /\ list'[i] = list[i] /\ list[i] \in Conns /\ list[i] # c
      BY <1>1, <1>2, <2>0 DEF Listed
    <2>3. CASE j = Len(list) + 1
      <3>1. list'[j] = c /\ idle'[c] = 0 /\ idle'[list[i]] = idle[list[i]]
        BY <1>1, <1>2, <1>3, <2>2, <2>3
      <3>2. idle[list[i]] >= 0
        BY <1>1, <2>2
      <3>. QED BY <2>2, <3>1, <3>2
    <2>4. CASE j \in 1..Len(list)
      <3>1. list'[j] = list[j] /\ list[j] \in Conns /\ list[j] # c
        BY <1>1, <1>2, <2>4 DEF Listed
      <3>2. idle[list[i]] >= idle[list[j]]
        BY <2>1, <2>2, <2>4 DEF IInv, OldestFirst
      <3>. QED BY <1>1, <1>3, <2>2, <3>1, <3>2
    <2>. QED BY <1>1, <1>2, <2>3, <2>4
  <1>10. Bounded'
    <2>1. Cardinality(Holders') = Cardinality(Holders) - 1
      BY <1>5, HoldersFinite, FS_RemoveElement
    <2>. QED BY <1>1, <1>2, <1>3, <2>1, HoldersFinite DEF IInv, Bounded, Holders
  <1>. QED BY <1>6, <1>7, <1>8, <1>9, <1>10 DEF IInv

\* addConnection puts a fresh connection last, or the producer adds none.
LEMMA ProduceStep == ASSUME IInv, Produce PROVE IInv'
  <1>1. CASE UNCHANGED <<list, count, live, idle>>
    <2>1. TypeOK' BY <1>1 DEF IInv, TypeOK, Produce
    <2>. QED BY <1>1, <2>1, Frame DEF Produce
  <1>2. CASE CanGrow /\ AddConnection
    <2>1. PICK c \in Conns \ live :
            /\ live' = live \cup {c} /\ idle' = [idle EXCEPT ![c] = 0]
            /\ list' = Append(list, c) /\ count' = count + 1
      BY <1>2 DEF AddConnection
    <2>2. /\ list \in Seq(Conns) /\ idle \in [Conns -> 0..MaxIdle]
          /\ conn \in [Users -> Conns \cup {None}] /\ conn' = conn
          /\ c \notin Listed /\ \A v \in Users : conn[v] # c
      <3>1. c \notin Listed BY <2>1 DEF IInv, NoLeak
      <3>2. \A v \in Users : conn[v] # c BY <2>1 DEF IInv, NoLeak
      <3>. QED BY <3>1, <3>2 DEF IInv, TypeOK, Produce
    <2>3. /\ list' \in Seq(Conns) /\ Len(list') = Len(list) + 1
          /\ \A i \in 1..Len(list) : list'[i] = list[i]
          /\ list'[Len(list) + 1] = c
      BY <2>1, <2>2, AppendFacts
    <2>4. /\ Listed' = Listed \cup {c}
          /\ \A i, j \in 1..Len(list') : list'[i] = list'[j] => i = j
      BY <2>1, <2>2, OneMore DEF IInv, LentOnce
    <2>5. TypeOK'
      BY <2>1, <2>2, <2>3 DEF IInv, TypeOK, Produce
    <2>6. LentOnce'
      BY <2>2, <2>4 DEF IInv, LentOnce
    <2>7. NoLeak'
      BY <2>1, <2>2, <2>4 DEF IInv, NoLeak
    <2>8. OldestFirst'
      <3>1. SUFFICES ASSUME NEW i \in 1..Len(list'), NEW j \in 1..Len(list'), i < j
                     PROVE  idle'[list'[i]] >= idle'[list'[j]]
        BY DEF OldestFirst
      <3>2. i \in 1..Len(list) /\ list'[i] = list[i] /\ list[i] \in Conns /\ list[i] # c
        BY <2>2, <2>3, <3>1 DEF Listed
      <3>3. CASE j = Len(list) + 1
        BY <2>1, <2>2, <2>3, <3>2, <3>3
      <3>4. CASE j \in 1..Len(list)
        <4>1. list'[j] = list[j] /\ list[j] \in Conns /\ list[j] # c
          BY <2>2, <2>3, <3>4 DEF Listed
        <4>2. idle[list[i]] >= idle[list[j]]
          BY <3>1, <3>2, <3>4 DEF IInv, OldestFirst
        <4>. QED BY <2>1, <2>2, <3>2, <4>1, <4>2
      <3>. QED BY <2>2, <2>3, <3>3, <3>4
    <2>9. Bounded'
      <3>1. count < MaxConns /\ count \in Int BY <1>2 DEF CanGrow, IInv, TypeOK
      <3>2. Holders' = Holders BY <2>2 DEF Holders
      <3>3. count = Len(list) + Cardinality(Holders) BY DEF IInv, Bounded, Holders
      <3>4. count' = Len(list') + Cardinality(Holders')
        BY <2>1, <2>2, <2>3, <3>1, <3>2, <3>3, HoldersFinite
      <3>5. count' <= MaxConns BY <2>1, <3>1
      <3>. QED BY <3>4, <3>5 DEF Bounded, Holders
    <2>. QED BY <2>5, <2>6, <2>7, <2>8, <2>9 DEF IInv
  <1>. QED BY <1>1, <1>2 DEF Produce

\* The scanner deletes the first n, which nobody has.
LEMMA ScanStep == ASSUME IInv, Scan PROVE IInv'
  <1>1. PICK n \in 0..Len(list) :
          /\ list' = SubSeq(list, n + 1, Len(list))
          /\ live' = live \ {list[i] : i \in 1..n}
          /\ count' = count - n
    BY DEF Scan
  <1> DEFINE Gone == {list[i] : i \in 1..n}
  <1>2. /\ list \in Seq(Conns) /\ Len(list) \in Nat /\ idle' = idle /\ conn' = conn
        /\ \A i, j \in 1..Len(list) : list[i] = list[j] => i = j
    <2>1. idle' = idle /\ conn' = conn BY DEF Scan
    <2>2. list \in Seq(Conns) BY DEF IInv, TypeOK
    <2>. QED BY <2>1, <2>2 DEF IInv, LentOnce
  <1>3. /\ list' \in Seq(Conns) /\ Len(list') = Len(list) - n
        /\ \A i \in 1..Len(list') : i + n \in 1..Len(list) /\ list'[i] = list[i + n]
    BY <1>1, <1>2, SubSeqFacts
  <1>4. Listed' = Listed \ Gone
    <2>1. \A i \in 1..Len(list') : list'[i] \in Listed /\ list'[i] \notin Gone
      BY <1>2, <1>3 DEF Listed
    <2>2. \A i \in 1..Len(list) : i \in 1..n \/ (i - n \in 1..Len(list') /\ list[i] = list'[i - n])
      BY <1>2, <1>3
    <2>3. Listed' \subseteq Listed \ Gone BY <2>1 DEF Listed
    <2>4. Listed \ Gone \subseteq Listed' BY <2>2 DEF Listed
    <2>. QED BY <2>3, <2>4
  <1>5. TypeOK'
    <2>1. UNCHANGED <<idle, conn, waiting, prod, stop, ctl, crashed>> /\ scan' = "check"
      BY DEF Scan
    <2>2. count' \in Int /\ live' \in SUBSET Conns BY <1>1 DEF IInv, TypeOK
    <2>. QED BY <1>3, <2>1, <2>2 DEF IInv, TypeOK
  <1>6. LentOnce'
    <2>1. \A i, j \in 1..Len(list') : list'[i] = list'[j] => i = j
      <3>. SUFFICES ASSUME NEW i \in 1..Len(list'), NEW j \in 1..Len(list'),
                           list'[i] = list'[j]
                    PROVE  i = j
        OBVIOUS
      <3>1. i + n = j + n  BY <1>2, <1>3
      <3>. QED BY <3>1, <1>3
    <2>. QED BY <1>2, <1>4, <2>1 DEF IInv, LentOnce
  <1>7. NoLeak'
    <2>1. \A v \in Users : conn[v] # None => conn[v] \notin Gone
      BY DEF IInv, LentOnce, Listed
    <2>. QED BY <1>1, <1>2, <1>4, <2>1 DEF IInv, NoLeak
  <1>8. OldestFirst'
    <2>1. SUFFICES ASSUME NEW i \in 1..Len(list'), NEW j \in 1..Len(list'), i < j
                   PROVE  idle'[list'[i]] >= idle'[list'[j]]
      BY DEF OldestFirst
    <2>4. list'[i] = list[i + n] /\ list'[j] = list[j + n] /\ idle' = idle
      BY <1>2, <1>3
    <2>2. i + n \in 1..Len(list) /\ j + n \in 1..Len(list) /\ i + n < j + n
      BY <1>2, <1>3, <2>1
    <2>3. \A k, l \in 1..Len(list) : k < l => idle[list[k]] >= idle[list[l]]
      BY DEF IInv, OldestFirst
    <2>. QED BY <2>2, <2>3, <2>4
  <1>9. Bounded'
    <2>1. count \in Int BY DEF IInv, TypeOK
    <2>. QED BY <1>1, <1>2, <1>3, <2>1, HoldersFinite DEF IInv, Bounded, Holders
  <1>. QED BY <1>5, <1>6, <1>7, <1>8, <1>9 DEF IInv

\* Every other step leaves the connections alone.
LEMMA NextIInv == ASSUME IInv, [Next]_vars PROVE IInv'
  <1>1. CASE UNCHANGED vars
    <2>1. TypeOK' BY <1>1 DEF IInv, TypeOK, vars
    <2>. QED BY <1>1, <2>1, Frame DEF vars
  <1>2. ASSUME NEW u \in Users, Await(u) PROVE IInv'
    <2>1. TypeOK' BY <1>2 DEF IInv, TypeOK, Await
    <2>. QED BY <1>2, <2>1, Frame DEF Await
  <1>3. CASE ProducerCheck \/ ProducerSpurious
    <2>1. TypeOK' BY <1>3 DEF IInv, TypeOK, ProducerCheck, ProducerSpurious
    <2>. QED BY <1>3, <2>1, Frame DEF ProducerCheck, ProducerSpurious
  <1>4. CASE ProducerWait
    <2>1. TypeOK' BY <1>4 DEF IInv, TypeOK, ProducerWait
    <2>. QED BY <1>4, <2>1, Frame DEF ProducerWait
  <1>5. CASE ScannerCheck \/ ScanEmpty
    <2>1. TypeOK' BY <1>5 DEF IInv, TypeOK, ScannerCheck, ScanEmpty
    <2>. QED BY <1>5, <2>1, Frame DEF ScannerCheck, ScanEmpty
  <1>6. CASE Control
    <2>1. TypeOK' BY <1>6 DEF IInv, TypeOK, Control, Stop, StopNotify, Notified, Join, Start
    <2>. QED BY <1>6, <2>1, Frame DEF Control, Stop, StopNotify, Join, Start
  <1>. QED
    BY <1>1, <1>2, <1>3, <1>4, <1>5, <1>6, TakeStep, ReleaseStep, ProduceStep, ScanStep, TickStep
    DEF Next, Producer, Scanner

-----------------------------------------------------------------------------
(* The properties. *)

\* The inductive invariant holds in every state the pool can reach.
THEOREM Invariance == Spec => []IInv
  BY InitIInv, NextIInv, PTL DEF Spec

\* The pool's variables keep their types.
THEOREM TypeCorrect == Spec => []TypeOK
  BY Invariance, PTL DEF IInv

\* getConnection never lends a connection that somebody has already, and the
\* list never holds one twice, whatever stop(), the scanner and failing
\* connects do.
THEOREM LendsOnce == Spec => []LentOnce
  BY Invariance, PTL DEF IInv

\* The scanner never deletes a connection in use, and no connection is lost.
THEOREM LeaksNothing == Spec => []NoLeak
  BY Invariance, PTL DEF IInv

\* The list is always in the order of age, which scanerConnection relies on
\* when it stops at the first young connection.
THEOREM KeepsOrder == Spec => []OldestFirst
  BY Invariance, PTL DEF IInv

\* m_count is the number of connections, and at most m_max.
THEOREM StaysBounded == Spec => []Bounded
  BY Invariance, PTL DEF IInv

\* No step takes the pool above m_max, and the scanner never takes it below
\* m_min connections.
THEOREM LimitsAreKept == Spec => WithinLimits
  <1> DEFINE Keeps == Bounded' /\ (count >= MinConns => count' >= MinConns)
  <1>1. ASSUME IInv, IInv', [Next]_vars PROVE [Keeps]_vars
    <2>1. SUFFICES ASSUME count >= MinConns PROVE count' >= MinConns
      BY <1>1 DEF IInv
    <2>2. count \in Int BY <1>1 DEF IInv, TypeOK
    <2>3. CASE Produce BY <2>1, <2>2, <2>3 DEF Produce, AddConnection
    <2>4. CASE Scan
      <3>1. PICK n \in 0..Len(list) : Removes(n) /\ count' = count - n BY <2>4 DEF Scan
      <3>2. n >= 1 => count - (n - 1) > MinConns BY <3>1 DEF Removes
      <3>. QED BY <2>1, <2>2, <3>1, <3>2
    <2>5. CASE UNCHANGED vars BY <2>1, <2>5 DEF vars
    <2>6. ASSUME NEW u \in Users, Await(u) \/ Take(u) \/ Release(u) PROVE count' = count
      BY <2>6 DEF Await, Take, Release
    <2>7. CASE ProducerCheck \/ ProducerWait \/ ProducerSpurious \/ Tick
      BY <2>1, <2>7 DEF ProducerCheck, ProducerWait, ProducerSpurious, Tick
    <2>8. CASE ScannerCheck \/ ScanEmpty BY <2>1, <2>8 DEF ScannerCheck, ScanEmpty
    <2>9. CASE Control BY <2>1, <2>9 DEF Control, Stop, StopNotify, Join, Start
    <2>. QED
      BY <1>1, <2>1, <2>3, <2>4, <2>5, <2>6, <2>7, <2>8, <2>9 DEF Next, Producer, Scanner
  <1>. QED BY <1>1, Invariance, PTL DEF Spec, WithinLimits

-----------------------------------------------------------------------------
(* The pool implements ResourcePool. *)

\* A free connection is taken from the list's front.
LEMMA TakeLends == ASSUME IInv, NEW u \in Users, Take(u) PROVE Pool!Lend(u)
  <1>1. /\ list \in Seq(Conns) /\ list # <<>> /\ conn[u] = None /\ count' = count
        /\ conn' = [conn EXCEPT ![u] = Head(list)] /\ list' = Tail(list)
    BY DEF IInv, TypeOK, Take, Lend
  <1>2. /\ Len(list) \in Nat \ {0} /\ Len(list') = Len(list) - 1 /\ Head(list) = list[1]
        /\ \A i \in 1..Len(list') : list'[i] = list[i + 1]
    BY <1>1, TailFacts
  <1>3. list[1] \in Listed BY <1>2 DEF Listed
  <1>4. \A i \in 1..Len(list') : i + 1 \in 1..Len(list) /\ list'[i] \in Listed /\ list'[i] # list[1]
    BY <1>2 DEF IInv, LentOnce, Listed
  <1>5. \A i \in 1..Len(list) : i = 1 \/ (i - 1 \in 1..Len(list') /\ list[i] = list'[i - 1])
    BY <1>2
  <1>6. Listed' \subseteq Listed \ {list[1]} BY <1>4 DEF Listed
  <1>7. Listed \ {list[1]} \subseteq Listed' BY <1>5 DEF Listed
  <1>. QED BY <1>1, <1>2, <1>3, <1>6, <1>7 DEF Pool!Lend

\* The connection put back is free again.
LEMMA ReleaseReturns == ASSUME IInv, NEW u \in Users, Release(u) PROVE Pool!Return(u)
  <1>1. /\ list \in Seq(Conns) /\ conn[u] \in Conns /\ conn[u] \notin Listed
        /\ conn[u] # None /\ list' = Append(list, conn[u])
        /\ conn' = [conn EXCEPT ![u] = None] /\ count' = count
    BY DEF IInv, TypeOK, LentOnce, Release, PutBack
  <1>2. Listed' = Listed \cup {conn[u]}
    BY <1>1, OneMore DEF IInv, LentOnce
  <1>. QED BY <1>1, <1>2 DEF Pool!Return

\* A new connection is free, and was neither free nor lent.
LEMMA ProduceCreates ==
  ASSUME IInv, Produce PROVE Pool!Create \/ UNCHANGED <<Listed, conn, count>>
  <1>1. CASE UNCHANGED <<list, count, live, idle>>
    BY <1>1 DEF Produce, Listed
  <1>2. CASE CanGrow /\ AddConnection
    <2>1. PICK c \in Conns \ live : list' = Append(list, c) /\ count' = count + 1
      BY <1>2 DEF AddConnection
    <2>2. list \in Seq(Conns) /\ conn' = conn /\ count < MaxConns
      BY <1>2 DEF IInv, TypeOK, Produce, CanGrow
    <2>3. c \in Conns \ Listed /\ \A v \in Users : conn[v] # c
      BY <2>1 DEF IInv, NoLeak, TypeOK
    <2>4. Listed' = Listed \cup {c}
      BY <2>1, <2>2, <2>3, OneMore DEF IInv, LentOnce
    <2>. QED BY <2>1, <2>2, <2>3, <2>4 DEF Pool!Create
  <1>. QED BY <1>1, <1>2 DEF Produce

\* What the scanner removes was free, and m_min connections are left.
LEMMA ScanDestroys ==
  ASSUME IInv, Scan PROVE Pool!Destroy \/ UNCHANGED <<Listed, conn, count>>
  <1>1. PICK n \in 0..Len(list) :
          /\ Removes(n) /\ list' = SubSeq(list, n + 1, Len(list)) /\ count' = count - n
    BY DEF Scan
  <1>2. list \in Seq(Conns) /\ Len(list) \in Nat /\ count \in Int /\ conn' = conn
    <2>1. conn' = conn BY DEF Scan
    <2>2. list \in Seq(Conns) /\ count \in Int BY DEF IInv, TypeOK
    <2>. QED BY <2>1, <2>2
  <1>3. /\ Len(list') = Len(list) - n
        /\ \A i \in 1..Len(list') : i + n \in 1..Len(list) /\ list'[i] = list[i + n]
    BY <1>1, <1>2, SubSeqFacts
  <1>4. CASE n = 0
    <2>1. Len(list') = Len(list) /\ \A i \in 1..Len(list) : list'[i] = list[i]
      BY <1>2, <1>3, <1>4
    <2>2. Listed' = Listed BY <2>1 DEF Listed
    <2>. QED BY <1>1, <1>2, <1>4, <2>2
  <1>5. CASE n # 0
    <2>1. count - (n - 1) > MinConns BY <1>1, <1>5 DEF Removes
    <2>2. count' \in MinConns..(count - 1) BY <1>1, <1>2, <1>5, <2>1
    <2>3. \A i \in 1..Len(list') : list'[i] \in Listed /\ list'[i] # list[1]
      BY <1>2, <1>3, <1>5 DEF IInv, LentOnce, Listed
    <2>4. list[1] \in Listed BY <1>1, <1>2, <1>5 DEF Listed
    <2>5. Listed' \in SUBSET Listed /\ list[1] \notin Listed' BY <2>3 DEF Listed
    <2>. QED BY <1>2, <2>2, <2>4, <2>5 DEF Pool!Destroy
  <1>. QED BY <1>4, <1>5

\* Every behaviour of the pool is one of ResourcePool, the list's elements
\* being the free connections: order, ages, threads and failures are details.
THEOREM Implements == Spec => ImplementsPool
  <1>1. ASSUME Init PROVE Pool!Init
    <2>1. PICK n \in 0..MinConns : list \in [1..n -> Conns] BY <1>1 DEF Init
    <2>2. count = Len(list) /\ conn = [u \in Users |-> None] BY <1>1 DEF Init
    <2>3. Len(list) = n /\ Listed \in SUBSET Conns BY <2>1 DEF Listed
    <2>. QED BY <2>2, <2>3 DEF Pool!Init
  <1>2. ASSUME IInv, [Next]_vars PROVE [Pool!Next]_(Pool!vars)
    <2>1. ASSUME NEW u \in Users, Take(u) PROVE Pool!Next
      BY <1>2, <2>1, TakeLends DEF Pool!Next
    <2>2. ASSUME NEW u \in Users, Release(u) PROVE Pool!Next
      BY <1>2, <2>2, ReleaseReturns DEF Pool!Next
    <2>3. CASE Produce BY <1>2, <2>3, ProduceCreates DEF Pool!Next, Pool!vars
    <2>4. CASE Scan BY <1>2, <2>4, ScanDestroys DEF Pool!Next, Pool!vars
    <2>5. CASE UNCHANGED <<list, conn, count>> BY <2>5 DEF Listed, Pool!vars
    <2>6. ASSUME NEW u \in Users, Await(u) PROVE UNCHANGED <<list, conn, count>>
      BY <2>6 DEF Await
    <2>. QED
      BY <1>2, <2>1, <2>2, <2>3, <2>4, <2>5, <2>6
      DEF Next, vars, Producer, ProducerCheck, ProducerWait, ProducerSpurious, Scanner,
          ScannerCheck, ScanEmpty, Control, Stop, StopNotify, Join, Start, Tick
  <1>. QED BY <1>1, <1>2, Invariance, PTL DEF Spec, ImplementsPool, Pool!Spec
=============================================================================
