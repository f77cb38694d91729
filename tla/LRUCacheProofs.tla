--------------------------- MODULE LRUCacheProofs ---------------------------
(***************************************************************************)
(* Proofs about LRUCache, for any number of threads, paths and nodes: by   *)
(* how much the cache may exceed its maximum, and that its list and its    *)
(* map are always those of a least-recently-used cache.                    *)
(***************************************************************************)
EXTENDS LRUCache, FiniteSetTheorems, WellFoundedInduction, TLAPS

\* The threads that have been told there is room, and have not taken it yet.
Promised == {t \in Threads : pc[t] = "load" /\ ~del[t]}

\* What the proof needs of the types; the rest of TypeOK says nothing of m_conut.
Counted ==
  /\ conut \in Nat /\ max \in Limits
  /\ pc \in [Threads -> {"out", "temp", "miss", "load"}]
  /\ del \in [Threads -> BOOLEAN]

\* Room promised counts like room taken.
Within(m) == conut + Cardinality(Promised) <= m + Cardinality(Threads) - 1

Greatest(m) == m \in Limits /\ \A l \in Limits : l <= m

-----------------------------------------------------------------------------
(* Finite sets and numbers. *)

\* One of the limits is the greatest: the one with the fewest above it.
LEMMA GreatestLimit == \E m \in Limits : Greatest(m)
  <1> USE CacheAssumption
  <1> DEFINE Above(m) == {l \in Limits : l > m}
             Sizes == {Cardinality(Above(m)) : m \in Limits}
             Less == OpToRel(<, Nat)
  <1>1. \A m \in Limits : IsFiniteSet(Above(m)) /\ Cardinality(Above(m)) \in Nat
    BY FS_Subset, FS_CardinalityType
  <1>2. PICK s \in Sizes : \A r \in Sizes : ~(<<r, s>> \in Less)
    <2>1. Sizes \subseteq Nat /\ Sizes # {} BY <1>1
    <2>2. IsWellFoundedOn(Less, Nat) BY NatLessThanWellFounded
    <2> HIDE DEF Less, Sizes
    <2>. QED BY <2>1, <2>2, WFMin
  <1>3. PICK m \in Limits : s = Cardinality(Above(m)) BY <1>2
  <1>4. Above(m) = {}
    <2> SUFFICES ASSUME NEW l \in Above(m) PROVE FALSE OBVIOUS
    <2>1. l \in Limits /\ l \in Nat /\ m \in Nat /\ l > m OBVIOUS
    <2>2. Above(l) \subseteq Above(m) \ {l}
      <3> SUFFICES ASSUME NEW k \in Above(l) PROVE k \in Above(m) /\ k # l OBVIOUS
      <3>1. k \in Limits /\ k \in Nat /\ k > l OBVIOUS
      <3>2. k > m /\ k # l BY <2>1, <3>1
      <3>. QED BY <3>1, <3>2
    <2>3. Cardinality(Above(l)) < Cardinality(Above(m))
      <3>1. IsFiniteSet(Above(m)) /\ Cardinality(Above(m)) \in Nat BY <1>1
      <3>2. Above(l) \in SUBSET Above(m) /\ Above(l) # Above(m) BY <2>1, <2>2
      <3> HIDE DEF Above
      <3>. QED BY <3>1, <3>2, FS_Subset, FS_CardinalityType
    <2>4. <<Cardinality(Above(l)), s>> \in Less
      <3>1. Cardinality(Above(l)) \in Nat /\ s \in Nat BY <1>1, <1>3, <2>1
      <3> HIDE DEF Above
      <3>. QED BY <1>3, <2>3, <3>1 DEF OpToRel
    <2>5. Cardinality(Above(l)) \in Sizes BY <2>1
    <2> HIDE DEF Less, Sizes, Above
    <2>. QED BY <1>2, <2>4, <2>5
  <1>5. \A l \in Limits : l \in Nat /\ m \in Nat /\ ~(l > m) BY <1>4
  <1>. QED BY <1>5 DEF Greatest

LEMMA PromisedFinite ==
  IsFiniteSet(Promised) /\ Cardinality(Promised) \in Nat
  /\ Cardinality(Promised) <= Cardinality(Threads) /\ Cardinality(Threads) \in Nat
  BY CacheAssumption, FS_Subset, FS_CardinalityType DEF Promised

-----------------------------------------------------------------------------
(* The steps. *)

\* A thread that has missed finds out, without the lock, that there is room:
\* then m_conut is below the greatest limit, and all the others may have found
\* out the same.
LEMMA DecideStep ==
  ASSUME Counted, NEW m, Greatest(m), Within(m), NEW t \in Threads, Decide(t)
  PROVE  Within(m)'
  <1>1. UNCHANGED conut BY DEF Decide, list
  <1>2. m \in Nat /\ max \in Nat /\ max <= m /\ conut \in Nat
    BY CacheAssumption DEF Counted, Greatest
  <1>3. Cardinality(Promised)' \in Nat /\ Cardinality(Promised)' <= Cardinality(Threads)
        /\ Cardinality(Threads) \in Nat
    <2>1. Promised' \subseteq Threads BY DEF Promised
    <2>. QED BY <2>1, CacheAssumption, FS_Subset, FS_CardinalityType
  <1>4. CASE Full
    <2>1. Promised' = Promised
      BY <1>4 DEF Decide, Goto, Promised, Counted
    <2>. QED BY <2>1, <1>1 DEF Within
  <1>5. CASE ~Full
    <2>1. conut <= m - 1 BY <1>2, <1>5 DEF Full
    <2>2. conut' + Cardinality(Promised)' <= m + Cardinality(Threads) - 1
      BY <1>1, <1>2, <1>3, <2>1
    <2>. QED BY <2>2 DEF Within
  <1>. QED BY <1>4, <1>5

\* A node that is added takes the room promised to its thread, or that of the
\* node it evicts.
LEMMA InsertStep ==
  ASSUME Counted, NEW m, Greatest(m), Within(m), NEW t \in Threads, Insert(t)
  PROVE  Within(m)' /\ conut' \in Nat
  <1>1. /\ pc[t] = "load" /\ pc' = [pc EXCEPT ![t] = "out"] /\ del' = [del EXCEPT ![t] = FALSE]
        /\ conut' = (IF del[t] THEN conut - 1 ELSE conut) + 1
    BY DEF Insert, Return, Goto, CountDown
  <1>2. conut \in Nat /\ m \in Nat BY CacheAssumption DEF Counted, Greatest
  <1>3. Promised' = Promised \ {t} BY <1>1 DEF Promised, Counted
  <1>4. CASE del[t]
    <2>1. Promised' = Promised BY <1>3, <1>4 DEF Promised
    <2>2. conut' = conut BY <1>1, <1>2, <1>4
    <2>. QED BY <1>2, <2>1, <2>2 DEF Within
  <1>5. CASE ~del[t]
    <2>1. t \in Promised BY <1>1, <1>5 DEF Promised
    <2>2. Cardinality(Promised)' = Cardinality(Promised) - 1
      BY <1>3, <2>1, PromisedFinite, FS_RemoveElement
    <2>3. conut' = conut + 1 BY <1>1, <1>5
    <2>4. conut' + Cardinality(Promised)' <= m + Cardinality(Threads) - 1
      BY <1>2, <2>2, <2>3, PromisedFinite DEF Within
    <2>. QED BY <1>2, <2>3, <2>4 DEF Within
  <1>. QED BY <1>4, <1>5

LEMMA ClearStep ==
  ASSUME Counted, NEW m, Greatest(m), Clear PROVE Within(m)'
  <1>1. conut' = 0 /\ Promised' = Promised BY DEF Clear, calls, Promised
  <1>2. m \in Nat \ {0} BY CacheAssumption DEF Greatest
  <1>3. conut' + Cardinality(Promised)' <= m + Cardinality(Threads) - 1
    BY <1>1, <1>2, PromisedFinite
  <1>. QED BY <1>3 DEF Within

\* A thread that is not told there is room gets no promise.
LEMMA OtherStep ==
  ASSUME Counted, NEW m, Greatest(m), Within(m), UNCHANGED conut, Promised' \subseteq Promised
  PROVE  Within(m)'
  <1>1. Cardinality(Promised)' <= Cardinality(Promised) /\ Cardinality(Promised)' \in Nat
    BY PromisedFinite, FS_Subset, FS_CardinalityType
  <1>2. conut \in Nat /\ m \in Nat BY CacheAssumption DEF Counted, Greatest
  <1>3. conut' + Cardinality(Promised)' <= m + Cardinality(Threads) - 1
    BY <1>1, <1>2, PromisedFinite DEF Within
  <1>. QED BY <1>3 DEF Within

LEMMA WithinStep ==
  ASSUME Counted, NEW m, Greatest(m), Within(m), [Next]_vars PROVE Counted' /\ Within(m)'
  <1>1. ASSUME NEW t \in Threads, NEW p \in Paths, GetFileCacheData(t, p)
        PROVE  Counted' /\ Within(m)'
    <2>1. Counted' BY <1>1 DEF GetFileCacheData, Goto, Counted, list
    <2>2. UNCHANGED conut /\ Promised' \subseteq Promised
      BY <1>1 DEF GetFileCacheData, Goto, Counted, list, Promised
    <2>. QED BY <2>1, <2>2, OtherStep
  <1>2. ASSUME NEW t \in Threads, Hit(t) \/ LoadFails(t) PROVE Counted' /\ Within(m)'
    <2>1. Counted' BY <1>2 DEF Hit, LoadFails, Return, Goto, Counted, list
    <2>2. /\ UNCHANGED conut /\ pc' = [pc EXCEPT ![t] = "out"] /\ del' = [del EXCEPT ![t] = FALSE]
      BY <1>2 DEF Hit, LoadFails, Return, Goto, list
    <2>3. Promised' \subseteq Promised BY <2>2 DEF Counted, Promised
    <2>. QED BY <2>1, <2>2, <2>3, OtherStep
  <1>3. ASSUME NEW t \in Threads, Miss(t) PROVE Counted' /\ Within(m)'
    <2>1. Counted' BY <1>3 DEF Miss, Goto, Counted, list
    <2>2. UNCHANGED conut /\ Promised' \subseteq Promised
      BY <1>3 DEF Miss, Goto, Counted, list, Promised
    <2>. QED BY <2>1, <2>2, OtherStep
  <1>4. ASSUME NEW t \in Threads, Decide(t) PROVE Counted' /\ Within(m)'
    <2>1. Full \in BOOLEAN BY DEF Full
    <2>2. Counted' BY <1>4, <2>1 DEF Decide, Goto, Counted, list
    <2>. QED BY <1>4, <2>2, DecideStep
  <1>5. ASSUME NEW t \in Threads, Insert(t) PROVE Counted' /\ Within(m)'
    <2>1. /\ UNCHANGED max /\ pc' = [pc EXCEPT ![t] = "out"] /\ del' = [del EXCEPT ![t] = FALSE]
      BY <1>5 DEF Insert, Return, Goto
    <2>2. conut' \in Nat /\ Within(m)' BY <1>5, InsertStep
    <2>. QED BY <2>1, <2>2 DEF Counted
  <1>6. ASSUME UNCHANGED <<conut, pc, del>>, max' \in Limits PROVE Counted' /\ Within(m)'
    <2>1. Counted' BY <1>6 DEF Counted
    <2>2. Promised' = Promised BY <1>6 DEF Promised
    <2>. QED BY <1>6, <2>1, <2>2, OtherStep
  <1>7. ASSUME Clear PROVE Counted' /\ Within(m)'
    <2>1. Counted' BY <1>7 DEF Clear, calls, Counted
    <2>. QED BY <1>7, <2>1, ClearStep
  <1>8. ASSUME \/ SetMax
               \/ \E t \in Threads : InsertCrashes(t)
               \/ UNCHANGED vars
        PROVE  UNCHANGED <<conut, pc, del>> /\ max' \in Limits
    BY <1>8
    DEF SetMax, InsertCrashes, vars, list, calls, Counted
  <1>. QED BY <1>1, <1>2, <1>3, <1>4, <1>5, <1>6, <1>7, <1>8 DEF Next

\* However many threads miss at once, and whatever setMax and clear() do
\* meanwhile, m_conut never exceeds the greatest limit there has been by more
\* than one for each further thread: the check and the insertion are not one
\* critical section, but a promise of room is used once.
THEOREM BoundedCache == Spec => []Bounded
  <1>1. PICK m \in Limits : Greatest(m) BY GreatestLimit
  <1> DEFINE I == Counted /\ Within(m)
  <1>2. Init => I
    <2> SUFFICES ASSUME Init PROVE I OBVIOUS
    <2>1. Counted BY DEF Init, Counted
    <2>2. Promised = {} /\ conut = 0 BY DEF Init, Promised
    <2>3. m \in Nat \ {0} BY CacheAssumption DEF Greatest
    <2>4. Cardinality(Promised) = 0 BY <2>2, FS_EmptySet
    <2>5. Cardinality(Threads) \in Nat BY PromisedFinite
    <2>. QED BY <2>1, <2>2, <2>3, <2>4, <2>5 DEF Within
  <1>3. I /\ [Next]_vars => I' BY <1>1, WithinStep
  <1>4. I => Bounded
    <2> SUFFICES ASSUME I PROVE Bounded OBVIOUS
    <2>1. conut \in Nat /\ m \in Nat BY CacheAssumption DEF Counted
    <2>2. conut <= m + Cardinality(Threads) - 1
      BY <2>1, PromisedFinite DEF Within
    <2>. QED BY <1>1, <2>2 DEF Bounded, Greatest
  <1> HIDE DEF I
  <1>. QED BY <1>2, <1>3, <1>4, PTL DEF Spec

-----------------------------------------------------------------------------
(* The pointers.  Along walks them with a recursive function, of which the *)
(* proofs use that it is the only one to satisfy its equation.             *)

Follows(f, start, link) ==
  f = [n \in Nat |-> IF n = 0 THEN start ELSE IF f[n - 1] = None THEN None ELSE link[f[n - 1]]]

\* The least number at which two such functions differed would have a lesser one.
LEMMA WalkUnique ==
  ASSUME NEW start, NEW link, NEW f, NEW g, Follows(f, start, link), Follows(g, start, link)
  PROVE  f = g
  <1> DEFINE Bad == {n \in Nat : f[n] # g[n]}
             Less == OpToRel(<, Nat)
  <1>1. f = [n \in Nat |-> f[n]] /\ g = [n \in Nat |-> g[n]] BY DEF Follows
  <1>2. SUFFICES ASSUME Bad # {} PROVE FALSE BY <1>1
  <1>3. PICK m \in Bad : \A n \in Bad : ~(<<n, m>> \in Less)
    <2>1. Bad \subseteq Nat OBVIOUS
    <2>2. IsWellFoundedOn(Less, Nat) BY NatLessThanWellFounded
    <2> HIDE DEF Less, Bad
    <2>. QED BY <1>2, <2>1, <2>2, WFMin
  <1>4. m \in Nat /\ f[m] # g[m] OBVIOUS
  <1>5. m # 0
    <2>1. f[0] = start /\ g[0] = start BY DEF Follows
    <2>. QED BY <1>4, <2>1
  <1>6. m - 1 \in Nat /\ m - 1 < m BY <1>4, <1>5
  <1>7. <<m - 1, m>> \in Less BY <1>4, <1>6 DEF OpToRel
  <1>8. f[m - 1] = g[m - 1] BY <1>3, <1>6, <1>7
  <1>9. /\ f[m] = (IF f[m - 1] = None THEN None ELSE link[f[m - 1]])
        /\ g[m] = (IF g[m - 1] = None THEN None ELSE link[g[m - 1]])
    BY <1>4, <1>5 DEF Follows
  <1>. QED BY <1>4, <1>8, <1>9

\* So the function that Along chooses is any that satisfies the equation.
LEMMA AlongIs ==
  ASSUME NEW start, NEW link, NEW f, Follows(f, start, link)
  PROVE  Along(start, link) = f
  <1> DEFINE step(g, n) == IF n = 0 THEN start ELSE IF g[n - 1] = None THEN None ELSE link[g[n - 1]]
             W == CHOOSE g : g = [n \in Nat |-> step(g, n)]
  <1>1. Along(start, link) = W BY DEF Along
  <1>2. W = [n \in Nat |-> step(W, n)]
    <2>1. \E g : g = [n \in Nat |-> step(g, n)] BY DEF Follows
    <2>. QED BY <2>1
  <1> HIDE DEF W
  <1>3. Follows(W, start, link) BY <1>2 DEF Follows
  <1>. QED BY <1>1, <1>3, WalkUnique

\* A head, a tail and pointers that link the nodes of a sequence in both
\* directions, none of them twice.
Links(h, t, nx, pr, s) ==
  /\ s \in Seq(Nodes)
  /\ \A i, j \in 1 .. Len(s) : s[i] = s[j] => i = j
  /\ nx \in [Nodes -> Nodes \cup {None}] /\ pr \in [Nodes -> Nodes \cup {None}]
  /\ h = IF Len(s) = 0 THEN None ELSE s[1]
  /\ t = IF Len(s) = 0 THEN None ELSE s[Len(s)]
  /\ \A i \in 1 .. Len(s) : /\ nx[s[i]] = IF i = Len(s) THEN None ELSE s[i + 1]
                            /\ pr[s[i]] = IF i = 1 THEN None ELSE s[i - 1]

\* From the head the pointers lead through the sequence, from the tail back.
LEMMA Walks ==
  ASSUME NEW h, NEW t, NEW nx, NEW pr, NEW s, Links(h, t, nx, pr, s)
  PROVE  /\ Along(h, nx) = [k \in Nat |-> IF k < Len(s) THEN s[k + 1] ELSE None]
         /\ Along(t, pr) = [k \in Nat |-> IF k < Len(s) THEN s[Len(s) - k] ELSE None]
  <1> DEFINE L == Len(s)
             f == [k \in Nat |-> IF k < L THEN s[k + 1] ELSE None]
             g == [k \in Nat |-> IF k < L THEN s[L - k] ELSE None]
  <1>1. s \in Seq(Nodes) /\ L \in Nat /\ (\A i \in 1 .. L : s[i] \in Nodes /\ s[i] # None)
    BY CacheAssumption DEF Links
  <1>2. Follows(f, h, nx)
    <2>1. ASSUME NEW k \in Nat
          PROVE  f[k] = IF k = 0 THEN h ELSE IF f[k - 1] = None THEN None ELSE nx[f[k - 1]]
      <3>1. CASE k = 0 BY <1>1, <3>1 DEF Links
      <3>2. CASE k # 0 /\ k <= L
        <4>1. k \in 1 .. L /\ k - 1 \in Nat /\ k - 1 < L /\ (k - 1) + 1 = k BY <1>1, <3>2
        <4>2. f[k - 1] = s[k] /\ s[k] # None BY <1>1, <4>1
        <4>3. nx[s[k]] = IF k = L THEN None ELSE s[k + 1] BY <4>1 DEF Links
        <4>4. f[k] = IF k = L THEN None ELSE s[k + 1] BY <1>1, <3>2
        <4>. QED BY <3>2, <4>2, <4>3, <4>4
      <3>3. CASE k # 0 /\ k > L
        <4>1. k - 1 \in Nat /\ ~(k - 1 < L) /\ ~(k < L) BY <1>1, <3>3
        <4>. QED BY <3>3, <4>1
      <3>. QED BY <1>1, <3>1, <3>2, <3>3
    <2>2. f = [k \in Nat |-> f[k]] OBVIOUS
    <2> HIDE DEF f
    <2>. QED BY <2>1, <2>2 DEF Follows
  <1>3. Follows(g, t, pr)
    <2>1. ASSUME NEW k \in Nat
          PROVE  g[k] = IF k = 0 THEN t ELSE IF g[k - 1] = None THEN None ELSE pr[g[k - 1]]
      <3>1. CASE k = 0
        <4>1. L - k = L BY <1>1, <3>1
        <4>2. g[k] = IF L = 0 THEN None ELSE s[L] BY <1>1, <3>1, <4>1
        <4>3. t = IF L = 0 THEN None ELSE s[L] BY DEF Links
        <4>. QED BY <3>1, <4>2, <4>3
      <3>2. CASE k # 0 /\ k <= L
        <4>1. L - (k - 1) \in 1 .. L /\ k - 1 \in Nat /\ k - 1 < L /\ (L - (k - 1)) - 1 = L - k
          BY <1>1, <3>2
        <4>2. g[k - 1] = s[L - (k - 1)] /\ s[L - (k - 1)] # None BY <1>1, <4>1
        <4>3. pr[s[L - (k - 1)]] = IF L - (k - 1) = 1 THEN None ELSE s[L - k] BY <4>1 DEF Links
        <4>4. g[k] = IF L - (k - 1) = 1 THEN None ELSE s[L - k] BY <1>1, <3>2
        <4>. QED BY <3>2, <4>2, <4>3, <4>4
      <3>3. CASE k # 0 /\ k > L
        <4>1. k - 1 \in Nat /\ ~(k - 1 < L) /\ ~(k < L) BY <1>1, <3>3
        <4>. QED BY <3>3, <4>1
      <3>. QED BY <1>1, <3>1, <3>2, <3>3
    <2>2. g = [k \in Nat |-> g[k]] OBVIOUS
    <2> HIDE DEF g
    <2>. QED BY <2>1, <2>2 DEF Follows
  <1>. QED BY <1>2, <1>3, AlongIs

\* What Order and Listed are, for any head, pointers and number.
WalkOf(h, nx, c) == [i \in 1 .. c |-> Along(h, nx)[i - 1]]

ValuesOf(s, c) == {s[i] : i \in 1 .. c}

\* Pointers that link a sequence give it back, and what ListSound asks of it.
LEMMA OrderOf ==
  ASSUME NEW h, NEW t, NEW nx, NEW pr, NEW s, Links(h, t, nx, pr, s), NEW c, Len(s) = c
  PROVE  /\ WalkOf(h, nx, c) = s
         /\ Along(h, nx)[c] = None /\ Along(t, pr)[c] = None
         /\ \A i \in 1 .. c : Along(t, pr)[c - i] = s[i]
         /\ Cardinality(ValuesOf(s, c)) = c
  <1>1. /\ s \in Seq(Nodes) /\ c \in Nat /\ s = [i \in 1 .. c |-> s[i]]
        /\ \A i, j \in 1 .. c : s[i] = s[j] => i = j
    BY DEF Links
  <1>2. /\ Along(h, nx) = [k \in Nat |-> IF k < c THEN s[k + 1] ELSE None]
        /\ Along(t, pr) = [k \in Nat |-> IF k < c THEN s[c - k] ELSE None]
    BY Walks
  <1>3. \A i \in 1 .. c : i - 1 \in Nat /\ i - 1 < c /\ (i - 1) + 1 = i BY <1>1
  <1>4. \A i \in 1 .. c : Along(h, nx)[i - 1] = s[i] BY <1>2, <1>3
  <1>5. WalkOf(h, nx, c) = s BY <1>1, <1>4 DEF WalkOf
  <1>6. Cardinality(ValuesOf(s, c)) = c
    <2> DEFINE f == [i \in 1 .. c |-> s[i]]
               T == {s[i] : i \in 1 .. c}
    <2>1. f \in [1 .. c -> T] OBVIOUS
    <2>2. \A i, j \in 1 .. c : f[i] = f[j] => i = j BY <1>1
    <2>3. \A n \in T : \E i \in 1 .. c : f[i] = n OBVIOUS
    <2> HIDE DEF f, T
    <2>4. f \in Injection(1 .. c, T) BY <2>1, <2>2 DEF Injection, IsInjective
    <2>5. f \in Surjection(1 .. c, T) BY <2>1, <2>3 DEF Surjection
    <2>6. ExistsBijection(1 .. c, T) BY <2>4, <2>5 DEF Bijection, ExistsBijection
    <2>7. Cardinality(T) = c BY <1>1, <2>6, FS_CountingElements
    <2>. QED BY <2>7 DEF T, ValuesOf
  <1>7. \A i \in 1 .. c : c - i \in Nat /\ c - i < c /\ c - (c - i) = i BY <1>1
  <1>8. \A i \in 1 .. c : Along(t, pr)[c - i] = s[i] BY <1>2, <1>7
  <1>9. Along(h, nx)[c] = None /\ Along(t, pr)[c] = None BY <1>1, <1>2
  <1>. QED BY <1>5, <1>6, <1>8, <1>9

-----------------------------------------------------------------------------
(* What the operations of the list do to the sequence. *)

ListOf(l, s) == Links(l.head, l.tail, l.next, l.pre, s)

\* A node in front of a sequence that does not have it.
LEMMA Pushed ==
  ASSUME NEW s \in Seq(Nodes), NEW n \in Nodes, \A i \in 1 .. Len(s) : s[i] # n,
         \A i, j \in 1 .. Len(s) : s[i] = s[j] => i = j
  PROVE  /\ <<n>> \o s \in Seq(Nodes) /\ Len(<<n>> \o s) = Len(s) + 1 /\ (<<n>> \o s)[1] = n
         /\ \A i \in 1 .. Len(s) : (<<n>> \o s)[i + 1] = s[i]
         /\ \A i \in 2 .. Len(s) + 1 : (<<n>> \o s)[i] = s[i - 1] /\ i - 1 \in 1 .. Len(s)
         /\ \A i, j \in 1 .. Len(s) + 1 : (<<n>> \o s)[i] = (<<n>> \o s)[j] => i = j
  <1> DEFINE u == <<n>> \o s
  <1>1. u \in Seq(Nodes) /\ Len(u) = Len(s) + 1 /\ u[1] = n OBVIOUS
  <1>2. \A i \in 2 .. Len(s) + 1 : u[i] = s[i - 1] /\ i - 1 \in 1 .. Len(s) OBVIOUS
  <1>3. \A i \in 1 .. Len(s) : u[i + 1] = s[i] OBVIOUS
  <1> HIDE DEF u
  <1>4. ASSUME NEW i \in 1 .. Len(s) + 1, NEW j \in 1 .. Len(s) + 1, u[i] = u[j] PROVE i = j
    <2>1. CASE i = 1 /\ j # 1
      <3>1. j \in 2 .. Len(s) + 1 BY <2>1
      <3>. QED BY <1>1, <1>2, <1>4, <2>1, <3>1
    <2>2. CASE i # 1 /\ j = 1
      <3>1. i \in 2 .. Len(s) + 1 BY <2>2
      <3>. QED BY <1>1, <1>2, <1>4, <2>2, <3>1
    <2>3. CASE i # 1 /\ j # 1
      <3>1. i \in 2 .. Len(s) + 1 /\ j \in 2 .. Len(s) + 1 BY <2>3
      <3>2. s[i - 1] = s[j - 1] BY <1>2, <1>4, <3>1
      <3>3. i - 1 = j - 1 BY <1>2, <3>1, <3>2
      <3>. QED BY <3>3
    <2>. QED BY <2>1, <2>2, <2>3
  <1>. QED BY <1>1, <1>2, <1>3, <1>4 DEF u

\* addToHead puts the node in front.
LEMMA AddToHeadLinks ==
  ASSUME NEW h, NEW t, NEW nx, NEW pr, NEW s, Links(h, t, nx, pr, s),
         NEW n \in Nodes, \A i \in 1 .. Len(s) : s[i] # n
  PROVE  ListOf(AddToHead([head |-> h, tail |-> t, next |-> nx, pre |-> pr], n), <<n>> \o s)
  <1> DEFINE l == [head |-> h, tail |-> t, next |-> nx, pre |-> pr]
             new == AddToHead(l, n)
             u == <<n>> \o s
             L == Len(s)
             pr1 == [pr EXCEPT ![n] = None]
  <1>1. /\ new.head = n /\ new.tail = (IF h = None THEN n ELSE t)
        /\ new.next = [nx EXCEPT ![n] = h]
        /\ new.pre = (IF h = None THEN pr1 ELSE [pr1 EXCEPT ![h] = n])
    BY DEF AddToHead
  <1>2. /\ s \in Seq(Nodes) /\ L \in Nat /\ (\A i \in 1 .. L : s[i] \in Nodes /\ s[i] # None)
        /\ \A i, j \in 1 .. L : s[i] = s[j] => i = j
        /\ nx \in [Nodes -> Nodes \cup {None}] /\ pr \in [Nodes -> Nodes \cup {None}]
        /\ h = (IF L = 0 THEN None ELSE s[1]) /\ t = (IF L = 0 THEN None ELSE s[L])
    BY CacheAssumption DEF Links
  <1>3. /\ u \in Seq(Nodes) /\ Len(u) = L + 1 /\ u[1] = n
        /\ \A i \in 1 .. L : u[i + 1] = s[i]
        /\ \A i \in 2 .. L + 1 : u[i] = s[i - 1] /\ i - 1 \in 1 .. L
        /\ \A i, j \in 1 .. L + 1 : u[i] = u[j] => i = j
    BY <1>2, Pushed
  <1>4. h \in Nodes \cup {None} /\ (h = None <=> L = 0) /\ (L # 0 => h = s[1] /\ 1 \in 1 .. L)
    BY <1>2
  <1>5. /\ new.next \in [Nodes -> Nodes \cup {None}] /\ new.pre \in [Nodes -> Nodes \cup {None}]
    <2>1. pr1 \in [Nodes -> Nodes \cup {None}] /\ [nx EXCEPT ![n] = h] \in [Nodes -> Nodes \cup {None}]
      BY <1>2, <1>4
    <2>2. [pr1 EXCEPT ![h] = n] \in [Nodes -> Nodes \cup {None}] BY <2>1
    <2>. QED BY <1>1, <2>1, <2>2
  <1>6. new.next[n] = h /\ new.pre[n] = None
    <2>1. h # n BY <1>4, CacheAssumption
    <2>. QED BY <1>1, <1>2, <1>4, <2>1
  <1>7. \A i \in 1 .. L : /\ new.next[s[i]] = nx[s[i]]
                          /\ new.pre[s[i]] = IF i = 1 THEN n ELSE pr[s[i]]
    <2> SUFFICES ASSUME NEW i \in 1 .. L
                 PROVE  /\ new.next[s[i]] = nx[s[i]]
                        /\ new.pre[s[i]] = IF i = 1 THEN n ELSE pr[s[i]]
      OBVIOUS
    <2>1. s[i] # n /\ s[i] \in Nodes /\ h # None /\ h = s[1] /\ 1 \in 1 .. L BY <1>2, <1>4
    <2>2. new.next[s[i]] = nx[s[i]] BY <1>1, <1>2, <2>1
    <2>3. new.pre = [pr1 EXCEPT ![s[1]] = n] BY <1>1, <2>1
    <2>4. pr1 \in [Nodes -> Nodes \cup {None}] /\ pr1[s[i]] = pr[s[i]] BY <1>2, <2>1
    <2>5. new.pre[s[i]] = IF s[i] = s[1] THEN n ELSE pr[s[i]] BY <2>1, <2>3, <2>4
    <2>. QED BY <1>2, <2>1, <2>2, <2>5
  <1> HIDE DEF new, u, l
  <1>8. \A i \in 1 .. L : /\ nx[s[i]] = IF i = L THEN None ELSE s[i + 1]
                          /\ pr[s[i]] = IF i = 1 THEN None ELSE s[i - 1]
    BY DEF Links
  <1>9. ASSUME NEW i \in 1 .. Len(u)
        PROVE  /\ new.next[u[i]] = IF i = Len(u) THEN None ELSE u[i + 1]
               /\ new.pre[u[i]] = IF i = 1 THEN None ELSE u[i - 1]
    <2>1. CASE i = 1
      <3>1. new.next[u[i]] = h /\ new.pre[u[i]] = None BY <1>3, <1>6, <2>1
      <3>2. h = IF L = 0 THEN None ELSE u[2]
        <4>1. L # 0 => u[1 + 1] = s[1] BY <1>3, <1>4
        <4>. QED BY <1>4, <4>1
      <3>. QED BY <1>2, <1>3, <2>1, <3>1, <3>2
    <2>2. CASE i # 1
      <3>1. i \in 2 .. L + 1 /\ i - 1 \in 1 .. L /\ u[i] = s[i - 1] /\ (i - 1) + 1 = i
        BY <1>2, <1>3, <2>2
      <3>2. new.next[u[i]] = IF i - 1 = L THEN None ELSE s[i] BY <1>7, <1>8, <3>1
      <3>3. new.pre[u[i]] = IF i - 1 = 1 THEN n ELSE s[(i - 1) - 1] BY <1>7, <1>8, <3>1
      <3>4. i - 1 # L => i \in 1 .. L /\ u[i + 1] = s[i] BY <1>2, <1>3, <3>1
      <3>5. i - 1 # 1 => i - 1 \in 2 .. L + 1 /\ u[i - 1] = s[(i - 1) - 1] BY <1>2, <1>3, <3>1
      <3>6. i - 1 = 1 => u[i - 1] = n BY <1>3
      <3>. QED BY <1>2, <1>3, <3>1, <3>2, <3>3, <3>4, <3>5, <3>6, <2>2
    <2>. QED BY <2>1, <2>2
  <1>10. new.head = u[1] /\ new.tail = u[Len(u)]
    <2>1. new.head = u[1] BY <1>1, <1>3
    <2>2. CASE L = 0 BY <1>1, <1>2, <1>3, <2>2
    <2>3. CASE L # 0
      <3>1. L \in 1 .. L BY <1>2, <2>3
      <3>2. u[L + 1] = s[L] BY <1>3, <3>1
      <3>. QED BY <1>1, <1>2, <1>3, <1>4, <2>1, <2>3, <3>2
    <2>. QED BY <2>1, <2>2, <2>3
  <1>. QED BY <1>2, <1>3, <1>5, <1>9, <1>10 DEF ListOf, Links, l, new, u

\* delCacheNode takes the last one away.
LEMMA DelCacheNodeLinks ==
  ASSUME NEW h, NEW t, NEW nx, NEW pr, NEW s, Links(h, t, nx, pr, s), t # None
  PROVE  \E h1, t1, nx1, pr1 :
            /\ DelCacheNode([head |-> h, tail |-> t, next |-> nx, pre |-> pr])
                 = [head |-> h1, tail |-> t1, next |-> nx1, pre |-> pr1]
            /\ Links(h1, t1, nx1, pr1, SubSeq(s, 1, Len(s) - 1))
  <1> DEFINE l == [head |-> h, tail |-> t, next |-> nx, pre |-> pr]
             new == DelCacheNode(l)
             L == Len(s)
             u == SubSeq(s, 1, L - 1)
  <1>1. /\ s \in Seq(Nodes) /\ L \in Nat \ {0} /\ (\A i \in 1 .. L : s[i] \in Nodes /\ s[i] # None)
        /\ \A i, j \in 1 .. L : s[i] = s[j] => i = j
        /\ nx \in [Nodes -> Nodes \cup {None}] /\ pr \in [Nodes -> Nodes \cup {None}]
        /\ h = s[1] /\ t = s[L]
    BY CacheAssumption DEF Links
  <1>2. \A i \in 1 .. L : /\ nx[s[i]] = IF i = L THEN None ELSE s[i + 1]
                          /\ pr[s[i]] = IF i = 1 THEN None ELSE s[i - 1]
    BY DEF Links
  <1>3. /\ u \in Seq(Nodes) /\ Len(u) = L - 1 /\ Len(u) \in Nat
        /\ \A i \in 1 .. L - 1 : u[i] = s[i]
    <2>1. L - 1 \in Nat /\ 1 .. L - 1 \subseteq 1 .. L BY <1>1
    <2> DEFINE m == L - 1
    <2>2. m \in 0 .. Len(s) BY <1>1
    <2> HIDE DEF m
    <2>3. SubSeq(s, 1, m) = [i \in 1 .. m |-> s[i]] BY <1>1, <2>2
    <2>4. SubSeq(s, 1, m) \in Seq(Nodes) /\ Len(SubSeq(s, 1, m)) = m BY <1>1, <2>2
    <2>. QED BY <2>1, <2>3, <2>4 DEF m
  <1>4. CASE t = h
    <2>1. L = 1 /\ Len(u) = 0
      <3>1. 1 \in 1 .. L /\ L \in 1 .. L BY <1>1
      <3> HIDE DEF L, u
      <3>2. s[1] = s[L] BY <1>1, <1>4
      <3>3. 1 = L BY <1>1, <3>1, <3>2
      <3>. QED BY <1>3, <3>3
    <2>2. new = [head |-> None, tail |-> None, next |-> nx, pre |-> pr] BY <1>4 DEF DelCacheNode
    <2> HIDE DEF new, u
    <2>3. Links(None, None, nx, pr, u) BY <1>1, <1>3, <2>1 DEF Links
    <2>. QED BY <2>2, <2>3 DEF new, u
  <1>5. CASE t # h
    <2>1. L >= 2 /\ L - 1 \in 1 .. L /\ L \in 1 .. L /\ (L - 1) - 1 = L - 2
      <3>1. L # 1 BY <1>1, <1>5
      <3> HIDE DEF L
      <3>. QED BY <1>1, <3>1
    <2>2. pr[t] = s[L - 1]
      <3> HIDE DEF L
      <3>. QED BY <1>1, <1>2, <2>1
    <2> DEFINE nx1 == [nx EXCEPT ![s[L - 1]] = None]
               pr1 == [pr EXCEPT ![t] = None]
    <2>3. new = [head |-> h, tail |-> s[L - 1], next |-> nx1, pre |-> pr1]
      BY <1>5, <2>2 DEF DelCacheNode
    <2>4. nx1 \in [Nodes -> Nodes \cup {None}] /\ pr1 \in [Nodes -> Nodes \cup {None}] BY <1>1
    <2>5. ASSUME NEW i \in 1 .. L - 1
          PROVE  /\ nx1[u[i]] = IF i = L - 1 THEN None ELSE u[i + 1]
                 /\ pr1[u[i]] = IF i = 1 THEN None ELSE u[i - 1]
      <3>1. i \in 1 .. L /\ i # L /\ u[i] = s[i] /\ s[i] \in Nodes BY <1>1, <1>3
      <3>2. pr1[s[i]] = pr[s[i]] BY <1>1, <2>1, <3>1
      <3>3. nx1[s[i]] = IF i = L - 1 THEN None ELSE nx[s[i]] BY <1>1, <2>1, <3>1
      <3>4. i # L - 1 => i + 1 \in 1 .. L - 1 BY <1>1
      <3>5. i # 1 => i - 1 \in 1 .. L - 1 BY <1>1
      <3>. QED BY <1>2, <1>3, <3>1, <3>2, <3>3, <3>4, <3>5
    <2> HIDE DEF new, u, nx1, pr1
    <2>6. h = u[1] /\ s[L - 1] = u[L - 1] /\ L - 1 # 0 BY <1>1, <1>3, <2>1
    <2>7. \A i, j \in 1 .. L - 1 : u[i] = u[j] => i = j BY <1>1, <1>3
    <2>8. Links(h, s[L - 1], nx1, pr1, u) BY <1>3, <2>4, <2>5, <2>6, <2>7 DEF Links
    <2>. QED BY <2>3, <2>8 DEF new, u
  <1>. QED BY <1>4, <1>5

\* The sequence after a use of its k-th node.
UsedIn(s, k) == [j \in 1 .. Len(s) |-> IF j = 1 THEN s[k] ELSE IF j <= k THEN s[j - 1] ELSE s[j]]

LEMMA UsedSound ==
  ASSUME NEW s \in Seq(Nodes), NEW k \in 1 .. Len(s), \A i, j \in 1 .. Len(s) : s[i] = s[j] => i = j
  PROVE  /\ UsedIn(s, k) \in Seq(Nodes) /\ Len(UsedIn(s, k)) = Len(s)
         /\ \A i, j \in 1 .. Len(s) : UsedIn(s, k)[i] = UsedIn(s, k)[j] => i = j
  <1> DEFINE L == Len(s)
             u == UsedIn(s, k)
  <1>1. L \in Nat /\ k \in 1 .. L OBVIOUS
  <1>2. \A j \in 1 .. L : 1 \in 1 .. L /\ (j # 1 => j - 1 \in 1 .. L) BY <1>1
  <1>3. u = [j \in 1 .. L |-> IF j = 1 THEN s[k] ELSE IF j <= k THEN s[j - 1] ELSE s[j]]
    BY DEF UsedIn
  <1>4. \A j \in 1 .. L : u[j] \in Nodes BY <1>1, <1>2, <1>3
  <1> HIDE DEF u
  <1>5. u = [j \in 1 .. L |-> u[j]] BY <1>3
  <1>6. u \in Seq(Nodes) /\ Len(u) = L BY <1>1, <1>4, <1>5
  <1>7. ASSUME NEW i \in 1 .. L, NEW j \in 1 .. L, u[i] = u[j] PROVE i = j
    <2> DEFINE at(m) == IF m = 1 THEN k ELSE IF m <= k THEN m - 1 ELSE m
    <2>1. \A m \in 1 .. L : at(m) \in 1 .. L /\ u[m] = s[at(m)] BY <1>1, <1>2, <1>3
    <2>2. s[at(i)] = s[at(j)] /\ at(i) \in 1 .. L /\ at(j) \in 1 .. L BY <1>7, <2>1
    <2>3. at(i) = at(j) BY <2>2
    <2> HIDE DEF L
    <2>. QED BY <1>1, <2>3
  <1>. QED BY <1>6, <1>7 DEF u

\* moveToHead does that, whether the node is the first, in the middle or the last.
LEMMA MoveToHeadLinks ==
  ASSUME NEW h, NEW t, NEW nx, NEW pr, NEW s, Links(h, t, nx, pr, s),
         NEW k \in 1 .. Len(s)
  PROVE  ListOf(MoveToHead([head |-> h, tail |-> t, next |-> nx, pre |-> pr], s[k]), UsedIn(s, k))
  <1> DEFINE l == [head |-> h, tail |-> t, next |-> nx, pre |-> pr]
             n == s[k]
             new == MoveToHead(l, n)
             L == Len(s)
             u == UsedIn(s, k)
  <1>1. /\ s \in Seq(Nodes) /\ L \in Nat \ {0} /\ (\A i \in 1 .. L : s[i] \in Nodes /\ s[i] # None)
        /\ \A i, j \in 1 .. L : s[i] = s[j] => i = j
        /\ nx \in [Nodes -> Nodes \cup {None}] /\ pr \in [Nodes -> Nodes \cup {None}]
        /\ h = s[1] /\ t = s[L] /\ 1 \in 1 .. L /\ L \in 1 .. L /\ n \in Nodes
    BY CacheAssumption DEF Links
  <1>2. \A i \in 1 .. L : /\ nx[s[i]] = IF i = L THEN None ELSE s[i + 1]
                          /\ pr[s[i]] = IF i = 1 THEN None ELSE s[i - 1]
    BY DEF Links
  <1>3. /\ u \in Seq(Nodes) /\ Len(u) = L
        /\ u = [j \in 1 .. L |-> IF j = 1 THEN s[k] ELSE IF j <= k THEN s[j - 1] ELSE s[j]]
        /\ \A i, j \in 1 .. L : u[i] = u[j] => i = j
    BY <1>1, UsedSound DEF UsedIn
  <1> HIDE DEF u, L, n
  <1>4. CASE k = 1
    <2>1. new = l BY <1>1, <1>4 DEF MoveToHead, n
    <2>2. u = s
      <3>1. s = [j \in 1 .. L |-> s[j]] BY <1>1 DEF L
      <3>2. \A j \in 1 .. L : j # 1 => ~(j <= 1) BY <1>1
      <3>. QED BY <1>3, <1>4, <3>1, <3>2
    <2>3. ListOf(new, u) BY <2>1, <2>2 DEF ListOf
    <2>. QED BY <2>3 DEF new, u, n
  <1>5. CASE k # 1
    <2>1. k \in 2 .. L /\ k - 1 \in 1 .. L BY <1>1, <1>5 DEF L
    <2>2. n # h /\ (n = t <=> k = L) /\ n = s[k] /\ pr[n] = s[k - 1]
          /\ nx[n] = IF k = L THEN None ELSE s[k + 1]
      <3>1. k \in 1 .. L BY <2>1
      <3>. QED BY <1>1, <1>2, <1>5, <3>1 DEF n
    <2>3. /\ new.head = n /\ new.tail = IF k = L THEN s[k - 1] ELSE t
          /\ new.next = [[nx EXCEPT ![s[k - 1]] = nx[n]] EXCEPT ![n] = h]
      BY <2>2 DEF MoveToHead
    <2>4. k # L => new.pre = [[[pr EXCEPT ![s[k + 1]] = s[k - 1]] EXCEPT ![n] = None] EXCEPT ![h] = n]
      BY <2>2 DEF MoveToHead
    <2>5. k = L => new.pre = [[pr EXCEPT ![h] = n] EXCEPT ![n] = None]
      BY <2>2 DEF MoveToHead
    <2> HIDE DEF new
    <2>6. ASSUME NEW i \in 1 .. L
          PROVE  /\ new.next[s[i]] = IF i = k THEN s[1]
                                     ELSE IF i = k - 1 THEN (IF k = L THEN None ELSE s[k + 1])
                                     ELSE IF i = L THEN None ELSE s[i + 1]
                 /\ new.pre[s[i]] = IF i = k THEN None ELSE IF i = 1 THEN s[k]
                                    ELSE IF i = k + 1 THEN s[k - 1] ELSE s[i - 1]
      <3>1. s[i] \in Nodes /\ s[k - 1] \in Nodes /\ h \in Nodes /\ n \in Nodes BY <1>1, <2>1
      <3>2. /\ (s[i] = n <=> i = k) /\ (s[i] = s[k - 1] <=> i = k - 1) /\ (s[i] = h <=> i = 1)
        BY <1>1, <2>1, <2>2
      <3>3. new.next[s[i]] = IF s[i] = n THEN h ELSE IF s[i] = s[k - 1] THEN nx[n] ELSE nx[s[i]]
        BY <1>1, <2>3, <3>1
      <3>4. new.next[s[i]] = IF i = k THEN s[1]
                                     ELSE IF i = k - 1 THEN (IF k = L THEN None ELSE s[k + 1])
                                     ELSE IF i = L THEN None ELSE s[i + 1]
        BY <1>1, <1>2, <2>2, <3>2, <3>3
      <3>5. CASE k = L
        <4>1. new.pre[s[i]] = IF s[i] = n THEN None ELSE IF s[i] = h THEN n ELSE pr[s[i]]
          BY <1>1, <2>5, <3>1, <3>5
        <4>2. i # k + 1 BY <1>1, <3>5
        <4>. QED BY <1>1, <1>2, <2>2, <3>2, <3>4, <4>1, <4>2
      <3>6. CASE k # L
        <4>1. k + 1 \in 1 .. L BY <1>1, <2>1, <3>6
        <4>2. s[k + 1] \in Nodes /\ (s[i] = s[k + 1] <=> i = k + 1) BY <1>1, <4>1
        <4>3. new.pre[s[i]] = IF s[i] = h THEN n ELSE IF s[i] = n THEN None
                              ELSE IF s[i] = s[k + 1] THEN s[k - 1] ELSE pr[s[i]]
          BY <1>1, <2>4, <3>1, <3>6, <4>2
        <4>. QED BY <1>1, <1>2, <1>5, <2>2, <3>2, <3>4, <4>2, <4>3
      <3>. QED BY <3>5, <3>6
    <2>7. ASSUME NEW i \in 1 .. L
          PROVE  /\ new.next[u[i]] = IF i = L THEN None ELSE u[i + 1]
                 /\ new.pre[u[i]] = IF i = 1 THEN None ELSE u[i - 1]
      <3>1. /\ u[i] = IF i = 1 THEN s[k] ELSE IF i <= k THEN s[i - 1] ELSE s[i]
            /\ i # 1 => /\ i - 1 \in 1 .. L
                         /\ u[i - 1] = IF i - 1 = 1 THEN s[k]
                                       ELSE IF i - 1 <= k THEN s[(i - 1) - 1] ELSE s[i - 1]
            /\ i # L => i + 1 \in 1 .. L /\ u[i + 1] = IF i + 1 <= k THEN s[(i + 1) - 1] ELSE s[i + 1]
        BY <1>1, <1>3
      <3>2. CASE i = 1
        BY <1>1, <2>1, <2>6, <3>1, <3>2
      <3>3. CASE i # 1 /\ i <= k
        <4>1. i - 1 \in 1 .. L /\ i - 1 # k /\ (i - 1) + 1 = i /\ i - 1 # L /\ i - 1 # k + 1
              /\ (i - 1 = k - 1 <=> i = k) /\ i \in Nat /\ k \in Nat
          BY <1>1, <2>1, <3>3
        <4>2. /\ new.next[s[i - 1]] = IF i = k THEN (IF k = L THEN None ELSE s[k + 1]) ELSE s[i]
              /\ new.pre[s[i - 1]] = IF i - 1 = 1 THEN s[k] ELSE s[(i - 1) - 1]
          BY <2>6, <4>1
        <4>3. u[i] = s[i - 1] BY <3>1, <3>3
        <4>4. i # L => u[i + 1] = IF i = k THEN s[k + 1] ELSE s[i]
          <5>1. i # L => i + 1 \in 1 .. L /\ i + 1 # 1 /\ (i + 1) - 1 = i
            BY <1>1, <2>1, <3>3
          <5>2. i # L => u[i + 1] = IF i + 1 <= k THEN s[i] ELSE s[i + 1]
            BY <3>1, <5>1
          <5>3. (i + 1 <= k <=> i # k) BY <1>1, <3>3, <4>1
          <5>. QED BY <5>2, <5>3
        <4>5. u[i - 1] = IF i - 1 = 1 THEN s[k] ELSE s[(i - 1) - 1]
          BY <3>1, <3>3, <4>1
        <4>6. i = L => i = k BY <1>1, <2>1, <3>3
        <4>. QED BY <3>3, <4>2, <4>3, <4>4, <4>5, <4>6
      <3>4. CASE i # 1 /\ ~(i <= k)
        <4>1. i \in Nat /\ k \in Nat /\ i > k /\ i # k - 1 /\ k # L /\ (i = k + 1 <=> ~(i - 1 > k))
          BY <1>1, <2>1, <3>4
        <4>. QED BY <1>1, <2>1, <2>6, <3>1, <3>4, <4>1
      <3>. QED BY <3>2, <3>3, <3>4
    <2>8. new.next \in [Nodes -> Nodes \cup {None}] /\ new.pre \in [Nodes -> Nodes \cup {None}]
      <3>1. h \in Nodes /\ n \in Nodes /\ s[k - 1] \in Nodes /\ nx[n] \in Nodes \cup {None}
        BY <1>1, <2>1
      <3>2. new.next \in [Nodes -> Nodes \cup {None}] BY <1>1, <2>3, <3>1
      <3> DEFINE Ptrs == [Nodes -> Nodes \cup {None}]
      <3>3. CASE k = L
        <4>1. [pr EXCEPT ![h] = n] \in Ptrs BY <1>1, <3>1
        <4>. QED BY <2>5, <3>1, <3>2, <3>3, <4>1
      <3>4. CASE k # L
        <4>1. [pr EXCEPT ![s[k + 1]] = s[k - 1]] \in Ptrs BY <1>1, <3>1
        <4>2. [[pr EXCEPT ![s[k + 1]] = s[k - 1]] EXCEPT ![n] = None] \in Ptrs BY <4>1
        <4>. QED BY <2>4, <3>1, <3>2, <3>4, <4>2
      <3>. QED BY <3>3, <3>4
    <2>9. new.head = u[1] /\ new.tail = u[L] BY <1>1, <1>3, <2>1, <2>2, <2>3
    <2>10. ListOf(new, u) BY <1>1, <1>3, <2>7, <2>8, <2>9 DEF ListOf, Links
    <2>. QED BY <2>10 DEF new, u, n
  <1>. QED BY <1>4, <1>5

-----------------------------------------------------------------------------
(* The cache.                                                              *)

\* What holds between the critical sections: the pointers link a sequence of
\* m_conut nodes, allocated and with their paths; the map leads into it; and as
\* long as nobody clears the cache, the sequence has every node, and there is one
\* to evict for whoever has been told to.
Cached(s) ==
  /\ Links(head, tail, next, pre, s) /\ Len(s) = conut
  /\ \A i \in 1 .. conut : s[i] \in live /\ path[s[i]] \in Paths
  /\ \A p \in Paths : node[p] # None => path[node[p]] = p /\ \E i \in 1 .. conut : s[i] = node[p]
  /\ \A t \in Threads : pc[t] # "out" => want[t] \in Paths
  /\ ~clears => /\ \A n \in live : \E i \in 1 .. conut : s[i] = n
                /\ \A t \in Threads : pc[t] = "load" /\ del[t] => conut # 0
                /\ ~crashed

\* A step that leaves the list alone.
LEMMA ListKept ==
  ASSUME NEW s, Cached(s), UNCHANGED <<list, clears>>,
         \A t \in Threads : pc'[t] # "out" => want'[t] \in Paths,
         \A t \in Threads : ~clears /\ pc'[t] = "load" /\ del'[t] => conut # 0,
         crashed' => clears
  PROVE  Cached(s)'
  <1>1. UNCHANGED <<head, tail, next, pre, path, live, node, conut, clears>> BY DEF list
  <1>2. Links(head, tail, next, pre, s)' BY <1>1 DEF Cached
  <1>. QED BY <1>1, <1>2 DEF Cached

\* The list is empty when its counter says so.
LEMMA TailIsNone ==
  ASSUME NEW s, Cached(s), TypeOK PROVE tail = None <=> conut = 0
  <1>1. Len(s) = conut /\ conut \in Nat /\ s \in Seq(Nodes) BY DEF Cached, TypeOK, Links
  <1>2. tail = IF Len(s) = 0 THEN None ELSE s[Len(s)] BY DEF Cached, Links
  <1>3. conut # 0 => s[Len(s)] \in Nodes BY <1>1
  <1>. QED BY <1>1, <1>2, <1>3, CacheAssumption

\* The steps that leave the list alone: lookups that miss, the test of m_conut,
\* files that cannot be read, and setMax.
LEMMA OutsideStep ==
  ASSUME TypeOK, NEW s, Cached(s), ~crashed, UNCHANGED clears,
         \/ \E t \in Threads :
              \/ \E p \in Paths : GetFileCacheData(t, p)
              \/ Miss(t) \/ Decide(t) \/ LoadFails(t) \/ InsertCrashes(t)
         \/ SetMax
  PROVE  TypeOK' /\ Cached(s)' /\ UNCHANGED list
  <1> USE DEF TypeOK
  <1>0. /\ \A t \in Threads : pc[t] # "out" => want[t] \in Paths
        /\ \A t \in Threads : ~clears /\ pc[t] = "load" /\ del[t] => conut # 0
    BY DEF Cached
  <1>1. ASSUME NEW t \in Threads, NEW p \in Paths, GetFileCacheData(t, p)
        PROVE  TypeOK' /\ Cached(s)' /\ UNCHANGED list
    <2>1. /\ pc[t] = "out" /\ pc' = [pc EXCEPT ![t] = "temp"] /\ want' = [want EXCEPT ![t] = p]
          /\ UNCHANGED <<list, max, del, crashed>>
      BY <1>1 DEF GetFileCacheData, Goto
    <2>2. TypeOK' BY <2>1 DEF list
    <2>3. Cached(s)' BY <1>0, <2>1, ListKept
    <2>. QED BY <2>1, <2>2, <2>3
  <1>2. ASSUME NEW t \in Threads, Miss(t) PROVE TypeOK' /\ Cached(s)' /\ UNCHANGED list
    <2>1. /\ pc[t] = "temp" /\ pc' = [pc EXCEPT ![t] = "miss"]
          /\ UNCHANGED <<list, max, want, del, crashed>>
      BY <1>2 DEF Miss, Goto
    <2>2. TypeOK' BY <2>1 DEF list
    <2>3. Cached(s)' BY <1>0, <2>1, ListKept
    <2>. QED BY <2>1, <2>2, <2>3
  <1>3. ASSUME NEW t \in Threads, Decide(t) PROVE TypeOK' /\ Cached(s)' /\ UNCHANGED list
    <2>1. /\ pc[t] = "miss" /\ pc' = [pc EXCEPT ![t] = "load"] /\ del' = [del EXCEPT ![t] = Full]
          /\ UNCHANGED <<list, max, want, crashed>> /\ Full \in BOOLEAN
      BY <1>3 DEF Decide, Goto, Full
    <2>2. TypeOK' BY <2>1 DEF list
    <2>3. Full => conut # 0 BY CacheAssumption DEF Full
    <2>4. Cached(s)'
      <3>1. \A u \in Threads : pc'[u] # "out" => want'[u] \in Paths BY <1>0, <2>1
      <3>2. \A u \in Threads : ~clears /\ pc'[u] = "load" /\ del'[u] => conut # 0
        BY <1>0, <2>1, <2>3
      <3>. QED BY <2>1, <3>1, <3>2, ListKept
    <2>. QED BY <2>1, <2>2, <2>4
  <1>4. ASSUME NEW t \in Threads, LoadFails(t) PROVE TypeOK' /\ Cached(s)' /\ UNCHANGED list
    <2>1. /\ pc' = [pc EXCEPT ![t] = "out"] /\ want' = [want EXCEPT ![t] = None]
          /\ del' = [del EXCEPT ![t] = FALSE] /\ UNCHANGED <<list, max, crashed>>
      BY <1>4 DEF LoadFails, Return, Goto
    <2>2. TypeOK' BY <2>1 DEF list
    <2>3. Cached(s)' BY <1>0, <2>1, ListKept
    <2>. QED BY <2>1, <2>2, <2>3
  <1>5. ASSUME NEW t \in Threads, InsertCrashes(t) PROVE TypeOK' /\ Cached(s)' /\ UNCHANGED list
    <2>1. /\ pc[t] = "load" /\ del[t] /\ tail = None /\ crashed' = TRUE
          /\ UNCHANGED <<list, max, pc, want, del>>
      BY <1>5 DEF InsertCrashes, calls
    <2>2. TypeOK' BY <2>1 DEF list
    <2>3. clears BY <1>0, <2>1, TailIsNone
    <2>4. Cached(s)' BY <1>0, <2>1, <2>3, ListKept
    <2>. QED BY <2>1, <2>2, <2>4
  <1>6. ASSUME SetMax
        PROVE  TypeOK' /\ Cached(s)' /\ UNCHANGED list
    <2>1. /\ max' \in Limits
          /\ UNCHANGED <<list, pc, want, del, crashed>>
      BY <1>6 DEF SetMax, calls
    <2>2. TypeOK' BY <2>1 DEF list
    <2>3. Cached(s)' BY <1>0, <2>1, ListKept
    <2>. QED BY <2>1, <2>2, <2>3
  <1>. QED BY <1>1, <1>2, <1>3, <1>4, <1>5, <1>6

\* A hit moves the node that the map has to the front.
LEMMA HitStep ==
  ASSUME TypeOK, NEW s, Cached(s), UNCHANGED clears, ~crashed, NEW t \in Threads, Hit(t)
  PROVE  /\ TypeOK'
         /\ \E k \in 1 .. Len(s) : s[k] = node[want[t]] /\ Cached(UsedIn(s, k))'
  <1>1. /\ pc[t] = "temp" /\ pc' = [pc EXCEPT ![t] = "out"] /\ want' = [want EXCEPT ![t] = None]
        /\ del' = [del EXCEPT ![t] = FALSE]
        /\ node[want[t]] # None /\ Becomes(MoveToHead(Here, node[want[t]]))
        /\ UNCHANGED <<path, live, node, conut, max, crashed>>
    BY DEF Hit, Return, Goto
  <1>2. want[t] \in Paths BY <1>1 DEF Cached
  <1>3. PICK k \in 1 .. conut : s[k] = node[want[t]] BY <1>1, <1>2 DEF Cached
  <1>4. Links(head, tail, next, pre, s) /\ Len(s) = conut BY DEF Cached
  <1>5. ListOf(MoveToHead(Here, s[k]), UsedIn(s, k)) BY <1>3, <1>4, MoveToHeadLinks DEF Here
  <1> DEFINE u == UsedIn(s, k)
  <1>6. Links(head', tail', next', pre', u) BY <1>1, <1>3, <1>5 DEF ListOf, Becomes
  <1>7. Len(u) = conut /\ s \in Seq(Nodes) /\ conut \in Nat /\ k \in 1 .. conut
        /\ u = [j \in 1 .. conut |-> IF j = 1 THEN s[k] ELSE IF j <= k THEN s[j - 1] ELSE s[j]]
    BY <1>3, <1>4, UsedSound DEF Links, TypeOK, UsedIn
  <1> HIDE DEF u
  <1>8. \A j \in 1 .. conut : \E i \in 1 .. conut : u[j] = s[i]
    <2>1. \A j \in 1 .. conut : j # 1 => j - 1 \in 1 .. conut BY <1>7
    <2>. QED BY <1>7, <2>1
  <1>9. \A i \in 1 .. conut : \E j \in 1 .. conut : u[j] = s[i]
    <2> SUFFICES ASSUME NEW i \in 1 .. conut PROVE \E j \in 1 .. conut : u[j] = s[i] OBVIOUS
    <2>1. CASE i = k
      <3>1. 1 \in 1 .. conut /\ u[1] = s[k] BY <1>7
      <3>. QED BY <2>1, <3>1
    <2>2. CASE i < k
      <3>1. i + 1 \in 1 .. conut /\ i + 1 # 1 /\ i + 1 <= k /\ (i + 1) - 1 = i BY <1>7, <2>2
      <3>2. u[i + 1] = s[i] BY <1>7, <3>1
      <3>. QED BY <3>1, <3>2
    <2>3. CASE i > k
      <3>1. i # 1 /\ ~(i <= k) BY <1>7, <2>3
      <3>2. u[i] = s[i] BY <1>7, <3>1
      <3>. QED BY <3>2
    <2>. QED BY <1>7, <2>1, <2>2, <2>3
  <1>10. TypeOK'
    <2>1. {head', tail'} \subseteq Nodes \cup {None} /\ next' \in [Nodes -> Nodes \cup {None}]
          /\ pre' \in [Nodes -> Nodes \cup {None}]
      <3>1. u \in Seq(Nodes) BY <1>6 DEF Links
      <3>2. Len(u) # 0 => u[1] \in Nodes /\ u[Len(u)] \in Nodes BY <1>7, <3>1
      <3>. QED BY <1>6, <3>2 DEF Links
    <2>. QED BY <1>1, <2>1 DEF TypeOK
  <1>11. Cached(u)'
    <2>1. Links(head, tail, next, pre, u)' /\ Len(u') = conut' BY <1>1, <1>6, <1>7 DEF u
    <2>2. \A i \in 1 .. conut : u[i] \in live /\ path[u[i]] \in Paths BY <1>8, SMTT(30) DEF Cached
    <2>3. \A p \in Paths : node[p] # None => path[node[p]] = p /\ \E i \in 1 .. conut : u[i] = node[p]
      BY <1>9, SMTT(30) DEF Cached
    <2>4. \A x \in Threads : pc'[x] # "out" => want'[x] \in Paths BY <1>1 DEF Cached, TypeOK
    <2>5. ~clears => /\ \A n \in live : \E i \in 1 .. conut : u[i] = n
                     /\ \A x \in Threads : pc'[x] = "load" /\ del'[x] => conut # 0
                     /\ ~crashed
      <3>1. ASSUME ~clears, NEW n \in live PROVE \E i \in 1 .. conut : u[i] = n
        <4>1. PICK i \in 1 .. conut : s[i] = n BY <3>1 DEF Cached
        <4>2. PICK j \in 1 .. conut : u[j] = s[i] BY <1>9
        <4>. QED BY <4>1, <4>2
      <3>. QED BY <1>1, <3>1 DEF Cached, TypeOK
    <2>. QED BY <1>1, <2>1, <2>2, <2>3, <2>4, <2>5 DEF Cached, u
  <1>. QED BY <1>3, <1>4, <1>10, <1>11 DEF u

\* What an insertion leaves of the sequence: all, or all but the last.
Kept(t, s) == IF del[t] THEN SubSeq(s, 1, Len(s) - 1) ELSE s

LEMMA KeptSound ==
  ASSUME TypeOK, NEW s, Cached(s), NEW t \in Threads, del[t] => tail # None
  PROVE  /\ Kept(t, s) \in Seq(Nodes)
         /\ \E h1, t1, nx1, pr1 :
               /\ (IF del[t] THEN DelCacheNode(Here) ELSE Here)
                    = [head |-> h1, tail |-> t1, next |-> nx1, pre |-> pr1]
               /\ Links(h1, t1, nx1, pr1, Kept(t, s))
         /\ conut \in Nat
         /\ IF del[t] THEN Len(Kept(t, s)) = conut - 1 /\ conut # 0 /\ tail = s[conut]
                      ELSE Len(Kept(t, s)) = conut
         /\ \A i \in 1 .. Len(Kept(t, s)) : Kept(t, s)[i] = s[i] /\ i \in 1 .. conut
  <1>1. Links(head, tail, next, pre, s) /\ Len(s) = conut /\ conut \in Nat /\ s \in Seq(Nodes)
    BY DEF Cached, TypeOK, Links
  <1>2. CASE del[t]
    <2>1. tail # None BY <1>2
    <2>2. conut # 0 /\ tail = s[conut] BY <1>1, <2>1 DEF Links
    <2>3. Kept(t, s) = SubSeq(s, 1, conut - 1) BY <1>1, <1>2 DEF Kept
    <2>4. PICK h1, t1, nx1, pr1 :
            /\ DelCacheNode(Here) = [head |-> h1, tail |-> t1, next |-> nx1, pre |-> pr1]
            /\ Links(h1, t1, nx1, pr1, Kept(t, s))
      BY <1>1, <2>1, <2>3, DelCacheNodeLinks DEF Here
    <2> DEFINE m == conut - 1
    <2>5. m \in 0 .. Len(s) /\ m \in Nat /\ 1 .. m \subseteq 1 .. conut BY <1>1, <2>2
    <2> HIDE DEF m
    <2>6. SubSeq(s, 1, m) = [i \in 1 .. m |-> s[i]] BY <1>1, <2>5
    <2>7. SubSeq(s, 1, m) \in Seq(Nodes) /\ Len(SubSeq(s, 1, m)) = m BY <1>1, <2>5
    <2>8. Kept(t, s) = SubSeq(s, 1, m) BY <2>3 DEF m
    <2>9. /\ Kept(t, s) \in Seq(Nodes) /\ Len(Kept(t, s)) = conut - 1
          /\ \A i \in 1 .. Len(Kept(t, s)) : Kept(t, s)[i] = s[i] /\ i \in 1 .. conut
      BY <2>5, <2>6, <2>7, <2>8 DEF m
    <2>. QED BY <1>1, <1>2, <2>2, <2>4, <2>9
  <1>3. CASE ~del[t]
    <2>1. Kept(t, s) = s BY <1>3 DEF Kept
    <2>. QED BY <1>1, <1>3, <2>1 DEF Here
  <1>. QED BY <1>2, <1>3 DEF TypeOK

\* An insertion puts a node in front of what is left; the entry of what has been
\* evicted goes, and no other entry led to it.
LEMMA InsertNode ==
  ASSUME TypeOK, NEW s, Cached(s), UNCHANGED clears, ~crashed, NEW t \in Threads, Insert(t)
  PROVE  /\ TypeOK' /\ want[t] \in Paths
         /\ del[t] => tail # None /\ path[tail] \in Paths
         /\ \E n \in Nodes, v \in Seq(Nodes) :
               /\ \A i \in 1 .. Len(Kept(t, s)) : Kept(t, s)[i] # n
               /\ node' = [IF del[t] THEN EraseEntry(path[tail]) ELSE node EXCEPT ![want[t]] = n]
               /\ v = <<n>> \o Kept(t, s) /\ Cached(v)'
  <1>1. PICK n \in Nodes \ live :
          /\ Return(t, "load")
          /\ del[t] => tail # None
          /\ Becomes(AddToHead(IF del[t] THEN DelCacheNode(Here) ELSE Here, n))
          /\ node' = [IF del[t] THEN EraseEntry(path[tail]) ELSE node EXCEPT ![want[t]] = n]
          /\ path' = [m \in Nodes |-> IF m = n THEN want[t]
                                       ELSE IF m \in Freed(t) THEN None ELSE path[m]]
          /\ live' = (live \ Freed(t)) \cup {n}
          /\ conut' = (IF del[t] THEN conut - 1 ELSE conut) + 1
          /\ UNCHANGED <<max, crashed>>
    BY DEF Insert, CountDown
  <1>2. /\ pc[t] = "load" /\ pc' = [pc EXCEPT ![t] = "out"] /\ want' = [want EXCEPT ![t] = None]
        /\ del' = [del EXCEPT ![t] = FALSE]
    BY <1>1 DEF Return, Goto
  <1>3. want[t] \in Paths BY <1>2 DEF Cached
  <1> DEFINE kept == Kept(t, s)
             L == Len(kept)
             u == <<n>> \o kept
  <1>4. /\ kept \in Seq(Nodes) /\ conut \in Nat /\ L \in Nat
        /\ IF del[t] THEN L = conut - 1 /\ conut # 0 /\ tail = s[conut] ELSE L = conut
        /\ \A i \in 1 .. L : kept[i] = s[i] /\ i \in 1 .. conut
    BY <1>1, KeptSound
  <1>5. PICK h1, t1, nx1, pr1 :
          /\ (IF del[t] THEN DelCacheNode(Here) ELSE Here)
               = [head |-> h1, tail |-> t1, next |-> nx1, pre |-> pr1]
          /\ Links(h1, t1, nx1, pr1, kept)
    BY <1>1, KeptSound
  <1>6. /\ \A i \in 1 .. conut : s[i] \in live /\ s[i] \in Nodes /\ path[s[i]] \in Paths
        /\ \A i, j \in 1 .. conut : s[i] = s[j] => i = j
    <2>1. Links(head, tail, next, pre, s) /\ Len(s) = conut BY DEF Cached
    <2>. QED BY <2>1 DEF Cached, Links
  <1>7. \A i \in 1 .. L : kept[i] # n BY <1>4, <1>6
  <1>8. Links(head', tail', next', pre', u)
    <2>1. ListOf(AddToHead([head |-> h1, tail |-> t1, next |-> nx1, pre |-> pr1], n), u)
      BY <1>5, <1>7, AddToHeadLinks
    <2>. QED BY <1>1, <1>5, <2>1 DEF ListOf, Becomes
  <1>9. /\ u \in Seq(Nodes) /\ Len(u) = L + 1 /\ u[1] = n
        /\ \A i \in 1 .. L : u[i + 1] = kept[i]
        /\ \A i \in 2 .. L + 1 : u[i] = kept[i - 1] /\ i - 1 \in 1 .. L
    <2>1. \A i, j \in 1 .. L : kept[i] = kept[j] => i = j BY <1>4, <1>6
    <2>. QED BY <1>4, <1>7, <2>1, Pushed
  <1>10. conut' = L + 1 BY <1>1, <1>4
  <1>11. del[t] => Freed(t) = {s[conut]} /\ path[tail] \in Paths /\ conut \in 1 .. conut
    BY <1>4, <1>6 DEF Freed
  <1>12. ~del[t] => Freed(t) = {} BY DEF Freed
  <1>13. \A i \in 1 .. L : kept[i] \notin Freed(t) /\ kept[i] \in live /\ kept[i] \in Nodes
    BY <1>4, <1>6, <1>11, <1>12
  <1> HIDE DEF kept, L, u
  <1>14. \A i \in 1 .. L : kept[i] \in live' /\ path'[kept[i]] = path[kept[i]] BY <1>1, <1>7, <1>13
  <1>15. n \in live' /\ path'[n] = want[t] BY <1>1
  <1>16. \A i \in 1 .. L + 1 : u[i] \in live' /\ path'[u[i]] \in Paths
    <2> SUFFICES ASSUME NEW i \in 1 .. L + 1 PROVE u[i] \in live' /\ path'[u[i]] \in Paths OBVIOUS
    <2>1. CASE i = 1 BY <1>3, <1>9, <1>15, <2>1
    <2>2. CASE i # 1
      <3>1. i \in 2 .. L + 1 BY <1>4, <2>2
      <3>2. u[i] = kept[i - 1] /\ i - 1 \in 1 .. L BY <1>9, <3>1
      <3>3. path[kept[i - 1]] \in Paths BY <1>4, <1>6, <3>2
      <3>. QED BY <1>14, <3>2, <3>3
    <2>. QED BY <2>1, <2>2
  <1>17. \A i \in 1 .. L : \E j \in 1 .. L + 1 : u[j] = kept[i]
    <2> SUFFICES ASSUME NEW i \in 1 .. L PROVE \E j \in 1 .. L + 1 : u[j] = kept[i] OBVIOUS
    <2>1. i + 1 \in 1 .. L + 1 BY <1>4
    <2>. QED BY <1>9, <2>1
  <1>18. ASSUME NEW p \in Paths, node'[p] # None
         PROVE  path'[node'[p]] = p /\ \E i \in 1 .. L + 1 : u[i] = node'[p]
    <2>0. node \in [Paths -> Nodes \cup {None}] BY DEF TypeOK
    <2>1. CASE p = want[t]
      <3>1. node'[p] = n BY <1>1, <2>0, <2>1 DEF EraseEntry
      <3>2. 1 \in 1 .. L + 1 BY <1>4
      <3>. QED BY <1>9, <1>15, <2>1, <3>1, <3>2
    <2>2. CASE p # want[t]
      <3>1. node'[p] = node[p] /\ (del[t] => p # path[tail])
        BY <1>1, <1>18, <2>0, <2>2 DEF EraseEntry
      <3>2. path[node[p]] = p BY <1>18, <3>1 DEF Cached
      <3>3. PICK i \in 1 .. conut : s[i] = node[p] BY <1>18, <3>1 DEF Cached
      <3>4. i \in 1 .. L
        <4>1. del[t] => i # conut BY <1>4, <3>1, <3>2, <3>3
        <4>. QED BY <1>4, <4>1
      <3>5. kept[i] = node[p] BY <1>4, <3>3, <3>4 DEF kept, L
      <3>6. path'[node[p]] = p BY <1>14, <3>2, <3>4, <3>5
      <3>. QED BY <1>17, <3>1, <3>4, <3>5, <3>6
    <2>. QED BY <2>1, <2>2
  <1>19. ASSUME ~clears, NEW m \in live' PROVE \E i \in 1 .. L + 1 : u[i] = m
    <2>1. CASE m = n
      <3>1. 1 \in 1 .. L + 1 BY <1>4
      <3>. QED BY <1>9, <2>1, <3>1
    <2>2. CASE m \in live \ Freed(t)
      <3>1. PICK i \in 1 .. conut : s[i] = m BY <1>19, <2>2 DEF Cached
      <3>2. i \in 1 .. L
        <4>1. del[t] => i # conut BY <1>11, <2>2, <3>1
        <4>. QED BY <1>4, <4>1
      <3>. QED BY <1>4, <1>17, <3>1, <3>2
    <2>. QED BY <1>1, <2>1, <2>2
  <1>20. TypeOK'
    <2>1. {head', tail'} \subseteq Nodes \cup {None} /\ next' \in [Nodes -> Nodes \cup {None}]
          /\ pre' \in [Nodes -> Nodes \cup {None}]
      <3>1. u[1] \in Nodes /\ u[L + 1] \in Nodes BY <1>4, <1>9
      <3>. QED BY <1>8, <1>9, <3>1 DEF Links
    <2>2. path' \in [Nodes -> Paths \cup {None}] BY <1>1, <1>3 DEF TypeOK
    <2>3. live' \in SUBSET Nodes BY <1>1 DEF TypeOK
    <2>4. node' \in [Paths -> Nodes \cup {None}]
      <3>1. (IF del[t] THEN EraseEntry(path[tail]) ELSE node) \in [Paths -> Nodes \cup {None}]
        BY DEF TypeOK, EraseEntry
      <3>. QED BY <1>1, <3>1
    <2>5. conut' \in Nat BY <1>4, <1>10
    <2>. QED BY <1>1, <1>2, <2>1, <2>2, <2>3, <2>4, <2>5 DEF TypeOK
  <1>21. PICK v : v = u OBVIOUS
  <1>22. Cached(v)'
    <2>1. Links(head, tail, next, pre, v)' /\ Len(v) = conut' BY <1>8, <1>9, <1>10, <1>21
    <2>2. \A i \in 1 .. conut' : v[i] \in live' /\ path'[v[i]] \in Paths BY <1>10, <1>16, <1>21
    <2>3. \A p \in Paths : node'[p] # None =>
             path'[node'[p]] = p /\ \E i \in 1 .. conut' : v[i] = node'[p]
      BY <1>10, <1>18, <1>21
    <2>4. \A x \in Threads : pc'[x] # "out" => want'[x] \in Paths BY <1>2 DEF Cached, TypeOK
    <2>5. ~clears' => /\ \A m \in live' : \E i \in 1 .. conut' : v[i] = m
                      /\ \A x \in Threads : pc'[x] = "load" /\ del'[x] => conut' # 0
                      /\ ~crashed'
      <3>1. conut' # 0 BY <1>4, <1>10
      <3>. QED BY <1>1, <1>10, <1>19, <1>21, <3>1
    <2>. QED BY <2>1, <2>2, <2>3, <2>4, <2>5 DEF Cached
  <1>. QED BY <1>1, <1>3, <1>7, <1>9, <1>11, <1>20, <1>21, <1>22 DEF u, kept, L

\* The order of the cache is the sequence, before a step and after it.
LEMMA OrderIs ==
  ASSUME NEW s
  PROVE  /\ Cached(s) => Order = s
         /\ Cached(s)' => Order' = s
  <1>1. ASSUME Cached(s) PROVE Order = s
    <2>1. Links(head, tail, next, pre, s) /\ Len(s) = conut BY <1>1 DEF Cached
    <2>2. WalkOf(head, next, conut) = s BY <2>1, OrderOf
    <2>. QED BY <2>2 DEF Order, FromHead, WalkOf
  <1>2. ASSUME Cached(s)' PROVE Order' = s
    <2>1. Links(head', tail', next', pre', s) /\ Len(s) = conut' BY <1>2 DEF Cached
    <2>2. WalkOf(head', next', conut') = s BY <2>1, OrderOf
    <2>. QED BY <2>2 DEF Order, FromHead, WalkOf
  <1>. QED BY <1>1, <1>2

LEMMA ClearCache ==
  ASSUME TypeOK, NEW s, Cached(s), UNCHANGED clears, ~crashed, Clear
  PROVE  TypeOK' /\ Cached(<<>>)'
  <1>1. /\ clears /\ head' = None /\ tail' = None /\ conut' = 0
        /\ live' = live \ {node[p] : p \in Paths}
        /\ node' = [p \in Paths |-> None] /\ path' = [n \in Nodes |-> None]
        /\ next' = [n \in Nodes |-> None] /\ pre' = [n \in Nodes |-> None]
        /\ UNCHANGED <<max, pc, want, del, crashed>>
    BY DEF Clear, calls
  <1>2. TypeOK' BY <1>1 DEF TypeOK
  <1>3. Len(<<>>) = 0 /\ <<>> \in Seq(Nodes) /\ 1 .. 0 = {} OBVIOUS
  <1>4. Links(head', tail', next', pre', <<>>) BY <1>1, <1>3 DEF Links
  <1>5. \A t \in Threads : pc'[t] # "out" => want'[t] \in Paths BY <1>1 DEF Cached
  <1>. QED BY <1>1, <1>2, <1>3, <1>4, <1>5 DEF Cached

LEMMA CachedAtFirst == Init => TypeOK /\ Cached(<<>>)
  <1> SUFFICES ASSUME Init PROVE TypeOK /\ Cached(<<>>) OBVIOUS
  <1>1. TypeOK BY DEF Init, TypeOK
  <1>2. Len(<<>>) = 0 /\ <<>> \in Seq(Nodes) /\ 1 .. 0 = {} OBVIOUS
  <1>3. Links(head, tail, next, pre, <<>>) BY <1>2 DEF Init, Links
  <1>. QED BY <1>1, <1>2, <1>3 DEF Init, Cached

\* The invariant implies the properties.
LEMMA CachedIsSound ==
  ASSUME TypeOK, NEW s, Cached(s) PROVE CacheSound /\ NothingLost
  <1>1. Links(head, tail, next, pre, s) /\ Len(s) = conut /\ Order = s BY OrderIs DEF Cached
  <1>2. /\ \A i \in 1 .. conut : FromTail[conut - i] = s[i]
        /\ FromHead[conut] = None /\ FromTail[conut] = None /\ Cardinality(ValuesOf(s, conut)) = conut
    BY <1>1, OrderOf DEF FromHead, FromTail
  <1>3. Listed = ValuesOf(s, conut) BY <1>1 DEF Listed, ValuesOf
  <1>4. ListSound BY <1>1, <1>2, <1>3 DEF ListSound, Cached
  <1>5. NoDangling BY <1>3 DEF NoDangling, Cached, ValuesOf
  <1>6. NothingLost BY <1>3 DEF NothingLost, NoLeak, NoCrash, Cached, ValuesOf
  <1>. QED BY <1>4, <1>5, <1>6 DEF CacheSound

\* Every step keeps the invariant, and is a step of the cache that is promised, or
\* changes neither the order nor the entries.
LEMMA CachedStep ==
  ASSUME TypeOK, NEW s, Cached(s), [Next]_vars
  PROVE  \E v : TypeOK' /\ Cached(v)' /\ [Recency!Next]_(Recency!vars)
  <1>0. Order = s /\ s \in Seq(Nodes) /\ Len(s) = conut /\ conut \in Nat
    <2>1. Order = s BY OrderIs
    <2>2. Links(head, tail, next, pre, s) /\ Len(s) = conut BY DEF Cached
    <2>3. s \in Seq(Nodes) BY <2>2 DEF Links
    <2>. QED BY <2>1, <2>2, <2>3 DEF TypeOK
  <1>1. ASSUME Cached(s)', UNCHANGED node PROVE UNCHANGED Recency!vars
    BY <1>0, <1>1, OrderIs DEF Recency!vars
  <1>2. CASE UNCHANGED vars
    <2>1. UNCHANGED <<head, tail, next, pre, conut, node, live, path,
                      pc, want, del, clears, crashed, max>>
      BY <1>2 DEF vars, list, calls
    <2>2. TypeOK' BY <2>1 DEF TypeOK
    <2>3. Cached(s)' BY <2>1 DEF Cached
    <2>. QED BY <1>1, <2>1, <2>2, <2>3
  <1>3. ASSUME ~crashed, UNCHANGED clears,
               \/ \E t \in Threads :
                    \/ \E p \in Paths : GetFileCacheData(t, p)
                    \/ Miss(t) \/ Decide(t) \/ LoadFails(t) \/ InsertCrashes(t)
               \/ SetMax
        PROVE  \E v : TypeOK' /\ Cached(v)' /\ [Recency!Next]_(Recency!vars)
    <2>1. TypeOK' /\ Cached(s)' /\ UNCHANGED list BY <1>3, OutsideStep
    <2>2. UNCHANGED node BY <2>1 DEF list
    <2>. QED BY <1>1, <2>1, <2>2
  <1>4. ASSUME ~crashed, UNCHANGED clears, NEW t \in Threads, Hit(t)
        PROVE  \E v : TypeOK' /\ Cached(v)' /\ [Recency!Next]_(Recency!vars)
    <2>1. TypeOK' BY <1>4, HitStep
    <2>2. PICK k \in 1 .. Len(s) : s[k] = node[want[t]] /\ Cached(UsedIn(s, k))' BY <1>4, HitStep
    <2>3. PICK v : v = UsedIn(s, k) OBVIOUS
    <2>4. Order' = v /\ Cached(v)' BY <2>2, <2>3, OrderIs
    <2>5. node[want[t]] # None /\ want[t] \in Paths /\ UNCHANGED node
      BY <1>4 DEF Hit, Return, Goto, Cached
    <2>6. Order' = Recency!Used(k) BY <1>0, <2>3, <2>4 DEF Recency!Used, UsedIn
    <2>7. Recency!Hit(want[t]) BY <1>0, <2>2, <2>5, <2>6 DEF Recency!Hit
    <2>8. Recency!Next BY <2>5, <2>7 DEF Recency!Next
    <2>. QED BY <2>1, <2>4, <2>8
  <1>5. ASSUME ~crashed, UNCHANGED clears, NEW t \in Threads, Insert(t)
        PROVE  \E v : TypeOK' /\ Cached(v)' /\ [Recency!Next]_(Recency!vars)
    <2>1. TypeOK' /\ want[t] \in Paths /\ (del[t] => tail # None /\ path[tail] \in Paths)
      BY <1>5, InsertNode
    <2>2. PICK n \in Nodes, v \in Seq(Nodes) :
               /\ \A i \in 1 .. Len(Kept(t, s)) : Kept(t, s)[i] # n
               /\ node' = [IF del[t] THEN EraseEntry(path[tail]) ELSE node EXCEPT ![want[t]] = n]
               /\ v = <<n>> \o Kept(t, s) /\ Cached(v)'
      BY <1>5, InsertNode
    <2>3. Order' = <<n>> \o Kept(t, s) BY <2>2, OrderIs
    <2>4. CASE del[t]
      <3>1. Kept(t, s) = SubSeq(Order, 1, Len(Order) - 1) BY <1>0, <2>4 DEF Kept
      <3>2. Order # <<>>
        <4>1. conut # 0 BY <2>1, <2>4, TailIsNone
        <4>. QED BY <1>0, <4>1
      <3>3. node' = [node EXCEPT ![path[tail]] = None, ![want[t]] = n]
        BY <2>2, <2>4 DEF EraseEntry
      <3>4. Recency!Replace(want[t], path[tail])
        BY <2>2, <2>3, <3>1, <3>2, <3>3 DEF Recency!Replace
      <3>5. Recency!Next BY <2>1, <2>4, <3>4 DEF Recency!Next
      <3>. QED BY <2>1, <2>2, <3>5
    <2>5. CASE ~del[t]
      <3>1. Kept(t, s) = Order BY <1>0, <2>5 DEF Kept
      <3>2. node' = [node EXCEPT ![want[t]] = n] BY <2>2, <2>5
      <3>3. Recency!Fill(want[t]) BY <2>2, <2>3, <3>1, <3>2 DEF Recency!Fill
      <3>4. Recency!Next BY <2>1, <3>3 DEF Recency!Next
      <3>. QED BY <2>1, <2>2, <3>4
    <2>. QED BY <2>4, <2>5
  <1>6. ASSUME ~crashed, UNCHANGED clears, Clear
        PROVE  \E v : TypeOK' /\ Cached(v)' /\ [Recency!Next]_(Recency!vars)
    <2>1. TypeOK' /\ Cached(<<>>)' BY <1>6, ClearCache
    <2>2. PICK v : v = <<>> OBVIOUS
    <2>3. Order' = <<>> /\ Cached(v)' BY <2>1, <2>2, OrderIs
    <2>4. Recency!Clear BY <1>6, <2>3 DEF Clear, Recency!Clear
    <2>5. Recency!Next BY <2>4 DEF Recency!Next
    <2>. QED BY <2>1, <2>3, <2>5
  <1>. QED BY <1>2, <1>3, <1>4, <1>5, <1>6 DEF Next

\* The inductive invariant.
CacheInv == TypeOK /\ \E s : Cached(s)

\* List, map and counter of the file cache agree after every critical section,
\* whatever is looked up, loaded twice, evicted, cleared or resized: moveToHead,
\* delCacheNode and addToHead keep both directions of the pointers in step.
THEOREM CacheIsSound == Spec => []CacheSound
  <1>1. Init => CacheInv BY CachedAtFirst DEF CacheInv
  <1>2. CacheInv /\ [Next]_vars => CacheInv' BY CachedStep DEF CacheInv
  <1>3. CacheInv => CacheSound BY CachedIsSound DEF CacheInv
  <1>. QED BY <1>1, <1>2, <1>3, PTL DEF Spec

\* Without clear(), no node leaks, and delCacheNode never finds an empty list: what
\* a miss has been told before it read the file still holds when it inserts.
THEOREM CacheLosesNothing == Spec => []NothingLost
  <1>1. Init => CacheInv BY CachedAtFirst DEF CacheInv
  <1>2. CacheInv /\ [Next]_vars => CacheInv' BY CachedStep DEF CacheInv
  <1>3. CacheInv => NothingLost BY CachedIsSound DEF CacheInv
  <1>. QED BY <1>1, <1>2, <1>3, PTL DEF Spec

\* The list and the map are the least-recently-used cache that the class is named
\* after: a hit is a use, an insertion evicts what was used longest ago.
THEOREM CacheIsRecency == Spec => ImplementsOrder
  <1>1. Init => CacheInv BY CachedAtFirst DEF CacheInv
  <1>2. CacheInv /\ [Next]_vars => CacheInv' BY CachedStep DEF CacheInv
  <1>3. CacheInv /\ [Next]_vars => [Recency!Next]_(Recency!vars) BY CachedStep DEF CacheInv
  <1>4. Init => Recency!Init
    <2> SUFFICES ASSUME Init PROVE Recency!Init OBVIOUS
    <2>1. Order = <<>> BY CachedAtFirst, OrderIs
    <2>. QED BY <2>1 DEF Init, Recency!Init
  <1>. QED BY <1>1, <1>2, <1>3, <1>4, PTL DEF Spec, ImplementsOrder, Recency!Spec
=============================================================================
