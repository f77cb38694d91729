-------------------------- MODULE IOSchedulerProofs --------------------------
(***************************************************************************)
(* Proofs about the event table of IOScheduler with one thread, for any    *)
(* number of descriptors, contexts and coroutines, whatever operations are *)
(* called and however often epoll_ctl fails.  With two threads the table   *)
(* is not sound: run io_two_threads.                                       *)
(***************************************************************************)
EXTENDS IOScheduler, FiniteSetTheorems, TLAPS

\* One thread runs coroutines, callbacks and wait().
Alone == IsFiniteSet(Callers) /\ \A v, w \in Workers : v = w

WaitFor(s, f, e) == [where |-> s, fd |-> f, event |-> e]

\* A context that the table has for a descriptor is allocated and is of that
\* descriptor, and each event in it is what someone stored for it is parked
\* for, unless the context is about to be freed.
Entries == \A f \in Fds : LET a == table[f] IN a # None =>
  /\ a \in live
  /\ ctx[a].events # {} => ctx[a].fd = f
  /\ a \notin held => \A e \in ctx[a].events : \E c \in Callers :
       c \in ctx[a].stored[e] /\ at[c] = WaitFor("parked", f, e)

\* What epoll has registered is what the context has.
Registered == \A f \in Fds : LET a == table[f] IN
  /\ a = None \/ a \in held => interest[f] = None
  /\ a # None => (ctx[a].events = {} => interest[f] = None)
  /\ a # None /\ a \notin held /\ ctx[a].events # {}
       => interest[f] # None /\ interest[f] = [events |-> ctx[a].events, ptr |-> a]

\* No two are parked for the same event of a descriptor.
OneEach == \A c, d \in Callers : Parked(c) /\ at[c] = at[d] => c = d

\* Who is parked is stored in a context that is not about to be freed.
Waiters == \A c \in Callers : Parked(c) => LET a == table[at[c].fd] IN
  a # None /\ a \notin held /\ at[c].event \in ctx[a].events /\ c \in ctx[a].stored[at[c].event]

\* As long as no event has had a coroutine and a callback at once, it has one.
Single == \A a \in Ctxs, e \in Events : \A c, d \in ctx[a].stored[e] : c = d
Mixing == (spurious => mixed) /\ (mixed \/ Single)

\* What is reported to a thread is still registered when the thread handles it,
\* and each context is reported once.
Reported(w) ==
  /\ \A r \in reports[w] :
       /\ \E f \in Fds : table[f] = r.ptr
       /\ r.ptr # None /\ r.ptr \notin held
       /\ r.events \subseteq ctx[r.ptr].events /\ ctx[r.ptr].events # {}
       /\ r.events = {} => r.hup
  /\ \A r, s \in reports[w] : r.ptr = s.ptr => r = s

\* Where the thread is in its operation, and what it holds there.
Control == \A w \in Workers : LET o == op[w] IN
  /\ pc[w] \in {"free", "handle"} => o = NoOp
  /\ pc[w] \notin {"handle", "delete"} => reports[w] = {}
  /\ pc[w] \in {"lookup", "create", "lock"} => o.fd \in Fds /\ o.event \in Events /\ o.kind # "wait"
  /\ o.kind = "add" => /\ pc[w] \in {"lookup", "create", "lock"}
                       /\ o.by \in Callers /\ at[o.by] = Now("calling")
  /\ pc[w] = "create" => o.kind = "add" /\ table[o.fd] = None
  /\ pc[w] = "lock" => o.ptr # None /\ table[o.fd] = o.ptr
  /\ pc[w] = "delete" => /\ o.fd \in Fds /\ o.ptr # None /\ table[o.fd] = o.ptr
                         /\ held = {o.ptr}
                         /\ o.kind # "wait" => reports[w] = {}

Holders == \A a \in held : \E w \in Workers : pc[w] = "delete" /\ op[w].ptr = a

Waiting == {c \in Callers : at[c].where \in {"parked", "forgotten"}}

IInv ==
  /\ TypeOK /\ NoLeak /\ Entries /\ Registered /\ Waiters /\ OneEach /\ Control /\ Holders
  /\ \A w \in Workers : Reported(w)
  /\ Mixing
  /\ CountMatches

-----------------------------------------------------------------------------

LEMMA NoneApart ==
  /\ \A a \in Ctxs : a # None
  /\ \A c \in Callers : c # None
  /\ \A f \in Fds : f # None
  /\ \A i \in Interest : i # None
  BY IOAssumption

LEMMA InitHolds == ASSUME Alone, Init PROVE IInv
  <1> USE DEF Init
  <1>1. TypeOK
    <2>1. \A a \in Ctxs : NewContext \in FdContext BY DEF NewContext, FdContext
    <2>2. NoOp \in Op BY DEF NoOp, Op
    <2>3. Now("running") \in [where : {"running", "calling", "dropped", "threw"}, fd : {None}, event : {None}]
      BY DEF Now
    <2>4. table \in [Fds -> Ctxs \cup {None}] /\ interest \in [Fds -> Interest \cup {None}]
      BY NoneApart
    <2>8. live \in SUBSET Ctxs /\ held \in SUBSET Ctxs /\ count \in Int OBVIOUS
    <2>9. mixed \in BOOLEAN /\ spurious \in BOOLEAN OBVIOUS
    <2>5. ctx \in [Ctxs -> FdContext] BY <2>1
    <2>6. at \in [Callers -> [where : {"running", "calling", "dropped", "threw"}, fd : {None}, event : {None}]
                   \cup [where : {"parked", "forgotten"}, fd : Fds, event : Events]]
      BY <2>3
    <2>7. pc \in [Workers -> {"free", "lookup", "create", "lock", "delete", "handle"}]
          /\ op \in [Workers -> Op] /\ reports \in [Workers -> SUBSET Report]
      BY <2>2
    <2>. QED BY ONLY <2>4, <2>5, <2>6, <2>7, <2>8, <2>9 DEF TypeOK
  <1>2. NoLeak /\ Entries /\ Registered /\ Holders
    BY DEF NoLeak, Entries, Registered, Holders
  <1>7. Mixing BY DEF Mixing, Single, NewContext
  <1>3. Waiters /\ OneEach BY DEF Waiters, OneEach, Parked, Now
  <1>4. Control BY DEF Control, NoOp
  <1>5. \A w \in Workers : Reported(w) BY DEF Reported
  <1>6. CountMatches
    <2>1. {c \in Callers : at[c].where \in {"parked", "forgotten"}} = {} BY DEF Now
    <2>. QED BY <2>1, FS_EmptySet DEF CountMatches
  <1>. QED BY <1>1, <1>2, <1>3, <1>4, <1>5, <1>6, <1>7 DEF IInv

-----------------------------------------------------------------------------
(* Steps that leave the table alone. *)

\* A step that changes nothing but where the thread is.
LEMMA QuietStep ==
  ASSUME IInv, Alone, UNCHANGED <<table, live, ctx, held, interest, count, at, mixed, spurious>>,
         pc' \in [Workers -> {"free", "lookup", "create", "lock", "delete", "handle"}],
         op' \in [Workers -> Op], reports' \in [Workers -> SUBSET Report],
         Control', held = {}, \A w \in Workers : Reported(w)'
  PROVE  IInv'
  <1> USE DEF IInv
  <1>1. TypeOK' BY DEF TypeOK
  <1>2. NoLeak' /\ Entries' /\ Registered' BY DEF NoLeak, Entries, Registered
  <1>3. Waiters' BY DEF Waiters, Parked
  <1>4. CountMatches' BY DEF CountMatches
  <1>5. Holders' BY DEF Holders
  <1>6. OneEach' /\ Mixing' BY DEF OneEach, Parked, Mixing, Single
  <1>. QED BY <1>1, <1>2, <1>3, <1>4, <1>5, <1>6

LEMMA CallAddStep ==
  ASSUME IInv, Alone, NEW w \in Workers, NEW k \in Callers, CallAddEvent(w, k) PROVE IInv'
  <1> USE DEF IInv
  <1>1. PICK f \in Fds, e \in Events : Start(w, "add", f, e, k) BY DEF CallAddEvent
  <1> DEFINE o == [kind |-> "add", fd |-> f, event |-> e, by |-> k, ptr |-> None]
  <1>2. /\ pc[w] = "free" /\ pc' = [pc EXCEPT ![w] = "lookup"] /\ op' = [op EXCEPT ![w] = o]
        /\ UNCHANGED <<table, live, ctx, held, interest, count, reports, mixed, spurious>>
    BY <1>1 DEF Start, Goto
  <1>3. at[k].where = "running" /\ at' = [at EXCEPT ![k] = Now("calling")] BY DEF CallAddEvent
  <1>4. o \in Op BY DEF Op
  <1> HIDE DEF o
  <1>5. TypeOK'
    <2>1. op' \in [Workers -> Op] BY <1>2, <1>4 DEF TypeOK
    <2>2. at' \in [Callers -> [where : {"running", "calling", "dropped", "threw"}, fd : {None}, event : {None}]
                   \cup [where : {"parked", "forgotten"}, fd : Fds, event : Events]]
      <3>1. Now("calling") \in [where : {"running", "calling", "dropped", "threw"}, fd : {None}, event : {None}]
        BY DEF Now
      <3> HIDE DEF Now
      <3>. QED BY <1>3, <3>1 DEF TypeOK
    <2>3. pc' \in [Workers -> {"free", "lookup", "create", "lock", "delete", "handle"}]
      BY <1>2 DEF TypeOK
    <2>. QED BY <1>2, <2>1, <2>2, <2>3 DEF TypeOK
  <1>6. \A c \in Callers : at[c].where \in {"parked", "forgotten"} => c # k /\ at'[c] = at[c]
    BY <1>3 DEF TypeOK
  <1>7. \A c \in Callers : at'[c].where \in {"parked", "forgotten"} => at'[c] = at[c]
    BY <1>3 DEF TypeOK, Now
  <1>8. NoLeak' /\ Registered' BY <1>2 DEF NoLeak, Registered
  <1>9. Entries'
    <2>1. \A c \in Callers : \A g, e1 : at[c] = WaitFor("parked", g, e1) => at'[c] = at[c]
      BY <1>6 DEF WaitFor
    <2>. QED BY <1>2, <2>1 DEF Entries
  <1>10. Waiters' BY <1>2, <1>7 DEF Waiters, Parked
  <1>15. OneEach'
    <2>1. \A c \in Callers : Parked(c)' => Parked(c) /\ at'[c] = at[c] BY <1>7 DEF Parked
    <2>2. \A c, d \in Callers : Parked(c)' /\ at'[c] = at'[d] => Parked(d)' BY DEF Parked
    <2>. QED BY <2>1, <2>2 DEF OneEach
  <1>16. Mixing' BY <1>2 DEF Mixing, Single
  <1>11. held = {} BY <1>2 DEF Holders, Alone
  <1>12. Control' /\ Holders'
    <2>1. op'[w] = o /\ o.kind = "add" /\ o.fd \in Fds /\ o.event \in Events /\ o.by = k
      BY <1>2 DEF TypeOK, o
    <2>2. at'[k] = Now("calling") /\ pc'[w] = "lookup" /\ reports'[w] = {}
      BY <1>2, <1>3 DEF TypeOK, Control
    <2>. QED BY <1>2, <1>11, <2>1, <2>2 DEF Control, Holders, Alone
  <1>13. \A v \in Workers : Reported(v)' BY <1>2 DEF Reported
  <1>14. CountMatches'
    <2>1. {c \in Callers : at'[c].where \in {"parked", "forgotten"}}
            = {c \in Callers : at[c].where \in {"parked", "forgotten"}}
      BY <1>6, <1>7
    <2>. QED BY <1>2, <2>1 DEF CountMatches
  <1>. QED BY <1>2, <1>5, <1>8, <1>9, <1>10, <1>12, <1>13, <1>14, <1>15, <1>16

LEMMA CallOtherStep == ASSUME IInv, Alone, NEW w \in Workers, CallOther(w) PROVE IInv'
  <1> USE DEF IInv
  <1>1. PICK kind \in Ops, f \in Fds, e \in Events : Start(w, kind, f, e, None) BY DEF CallOther
  <1> DEFINE o == [kind |-> kind, fd |-> f, event |-> e, by |-> None, ptr |-> None]
  <1>2. /\ pc[w] = "free" /\ pc' = [pc EXCEPT ![w] = "lookup"] /\ op' = [op EXCEPT ![w] = o]
        /\ UNCHANGED <<table, live, ctx, held, interest, count, reports, mixed, spurious, at>>
    BY <1>1 DEF Start, Goto, CallOther
  <1>3. o \in Op /\ o.kind \notin {"add", "wait"} /\ o.fd \in Fds /\ o.event \in Events
    BY IOAssumption DEF Op
  <1> HIDE DEF o
  <1>4. op' \in [Workers -> Op] BY <1>2, <1>3 DEF TypeOK
  <1>5. pc' \in [Workers -> {"free", "lookup", "create", "lock", "delete", "handle"}]
    BY <1>2 DEF TypeOK
  <1>6. held = {} BY <1>2 DEF Holders, Alone
  <1>7. Control'
    <2>1. op'[w] = o /\ pc'[w] = "lookup" /\ reports'[w] = {} BY <1>2 DEF TypeOK, Control
    <2>. QED BY <1>2, <1>3, <2>1 DEF Control, Alone
  <1>8. \A v \in Workers : Reported(v)' BY <1>2 DEF Reported
  <1>9. reports' \in [Workers -> SUBSET Report] BY <1>2 DEF TypeOK
  <1>. QED BY <1>2, <1>4, <1>5, <1>6, <1>7, <1>8, <1>9, QuietStep

LEMMA LookupStep == ASSUME IInv, Alone, NEW w \in Workers, Lookup(w) PROVE IInv'
  <1> USE DEF IInv
  <1> DEFINE a == table[op[w].fd]
  <1>1. /\ pc[w] = "lookup" /\ op[w].fd \in Fds /\ op[w].event \in Events /\ op[w].kind # "wait"
        /\ op[w] \in Op /\ a \in Ctxs \cup {None} /\ reports[w] = {}
        /\ UNCHANGED <<table, live, ctx, held, interest, count, at, reports, mixed, spurious>>
    BY DEF Lookup, Control, TypeOK
  <1>2. held = {} BY <1>1 DEF Holders, Alone
  <1>3. \A v \in Workers : Reported(v)' BY <1>1 DEF Reported
  <1>4. reports' \in [Workers -> SUBSET Report] BY <1>1 DEF TypeOK
  <1>5. CASE a # None
    <2>1. pc' = [pc EXCEPT ![w] = "lock"] /\ op' = [op EXCEPT ![w].ptr = a]
      BY <1>5 DEF Lookup, Goto
    <2>2. /\ op'[w] \in Op /\ op'[w].kind = op[w].kind /\ op'[w].fd = op[w].fd
          /\ op'[w].event = op[w].event /\ op'[w].by = op[w].by /\ op'[w].ptr = a
      BY <1>1, <2>1 DEF TypeOK, Op
    <2>3. op' \in [Workers -> Op] BY <2>1, <2>2 DEF TypeOK
    <2>4. pc' \in [Workers -> {"free", "lookup", "create", "lock", "delete", "handle"}]
      BY <2>1 DEF TypeOK
    <2>5. pc'[w] = "lock" BY <2>1 DEF TypeOK
    <2>6. Control' BY <1>1, <1>5, <2>2, <2>5 DEF Control, Alone
    <2>. QED BY <1>1, <1>2, <1>3, <1>4, <2>3, <2>4, <2>6, QuietStep
  <1>6. CASE a = None /\ op[w].kind = "add"
    <2>1. pc' = [pc EXCEPT ![w] = "create"] /\ op' = op BY <1>6 DEF Lookup, Goto
    <2>2. pc' \in [Workers -> {"free", "lookup", "create", "lock", "delete", "handle"}]
      BY <2>1 DEF TypeOK
    <2>3. pc'[w] = "create" BY <2>1 DEF TypeOK
    <2>4. Control' BY <1>1, <1>6, <2>1, <2>3 DEF Control, Alone
    <2>5. op' \in [Workers -> Op] BY <2>1 DEF TypeOK
    <2>. QED BY <1>1, <1>2, <1>3, <1>4, <2>2, <2>4, <2>5, QuietStep
  <1>7. CASE a = None /\ op[w].kind # "add"
    <2>1. pc' = [pc EXCEPT ![w] = "free"] /\ op' = [op EXCEPT ![w] = NoOp]
      BY <1>7 DEF Lookup, Done, Goto
    <2>2. NoOp \in Op /\ NoOp.kind = "wait" BY DEF NoOp, Op
    <2>3. op' \in [Workers -> Op] BY <2>1, <2>2 DEF TypeOK
    <2>4. pc' \in [Workers -> {"free", "lookup", "create", "lock", "delete", "handle"}]
      BY <2>1 DEF TypeOK
    <2>5. pc'[w] = "free" /\ op'[w] = NoOp BY <2>1 DEF TypeOK
    <2>6. Control' BY <1>1, <2>2, <2>5 DEF Control, Alone
    <2>. QED BY <1>1, <1>2, <1>3, <1>4, <2>3, <2>4, <2>6, QuietStep
  <1>. QED BY <1>5, <1>6, <1>7

LEMMA EndWaitStep == ASSUME IInv, Alone, NEW w \in Workers, EndWait(w) PROVE IInv'
  <1> USE DEF IInv
  <1>1. /\ pc[w] = "handle" /\ pc' = [pc EXCEPT ![w] = "free"] /\ op' = [op EXCEPT ![w] = NoOp]
        /\ reports[w] = {}
        /\ UNCHANGED <<table, live, ctx, held, interest, count, at, reports, mixed, spurious>>
    BY DEF EndWait, Done, Goto
  <1>2. held = {} BY <1>1 DEF Holders, Alone
  <1>3. \A v \in Workers : Reported(v)' BY <1>1 DEF Reported
  <1>4. NoOp \in Op /\ NoOp.kind = "wait" BY DEF NoOp, Op
  <1>5. /\ op' \in [Workers -> Op] /\ reports' \in [Workers -> SUBSET Report]
        /\ pc' \in [Workers -> {"free", "lookup", "create", "lock", "delete", "handle"}]
    BY <1>1, <1>4 DEF TypeOK
  <1>6. Control'
    <2>1. pc'[w] = "free" /\ op'[w] = NoOp /\ reports'[w] = {} BY <1>1 DEF TypeOK
    <2>. QED BY <1>4, <2>1 DEF Control, Alone
  <1>. QED BY <1>1, <1>2, <1>3, <1>5, <1>6, QuietStep

LEMMA WithdrawNothingStep ==
  ASSUME IInv, Alone, NEW w \in Workers, WithdrawNothing(w) PROVE IInv'
  <1> USE DEF IInv
  <1>1. /\ pc[w] = "lock" /\ pc' = [pc EXCEPT ![w] = "free"] /\ op' = [op EXCEPT ![w] = NoOp]
        /\ UNCHANGED <<table, live, ctx, held, interest, count, at, reports, mixed, spurious>>
    BY DEF WithdrawNothing, Done, Goto
  <1>2. held = {} /\ reports[w] = {} BY <1>1 DEF Holders, Alone, Control
  <1>3. \A v \in Workers : Reported(v)' BY <1>1 DEF Reported
  <1>4. NoOp \in Op /\ NoOp.kind = "wait" BY DEF NoOp, Op
  <1>5. /\ op' \in [Workers -> Op] /\ reports' \in [Workers -> SUBSET Report]
        /\ pc' \in [Workers -> {"free", "lookup", "create", "lock", "delete", "handle"}]
    BY <1>1, <1>4 DEF TypeOK
  <1>6. Control'
    <2>1. pc'[w] = "free" /\ op'[w] = NoOp /\ reports'[w] = {} BY <1>1, <1>2 DEF TypeOK
    <2>. QED BY <1>4, <2>1 DEF Control, Alone
  <1>. QED BY <1>1, <1>2, <1>3, <1>5, <1>6, QuietStep

LEMMA EpollWaitStep == ASSUME IInv, Alone, NEW w \in Workers, EpollWait(w) PROVE IInv'
  <1> USE DEF IInv
  <1>1. /\ pc[w] = "free" /\ pc' = [pc EXCEPT ![w] = "handle"]
        /\ UNCHANGED <<table, live, ctx, held, interest, count, at, op, mixed, spurious>>
    BY DEF EpollWait, Goto
  <1>0. PICK F \in SUBSET {f \in Fds : interest[f] # None} :
          \E ev \in [F -> SUBSET Events], hup \in [F -> BOOLEAN] :
            /\ \A f \in F : ev[f] \subseteq interest[f].events /\ (ev[f] = {} => hup[f])
            /\ reports' = [reports EXCEPT ![w] =
                 {[ptr |-> interest[f].ptr, events |-> ev[f], hup |-> hup[f]] : f \in F}]
    BY DEF EpollWait
  <1>2. PICK ev \in [F -> SUBSET Events], hup \in [F -> BOOLEAN] :
          /\ \A f \in F : ev[f] \subseteq interest[f].events /\ (ev[f] = {} => hup[f])
          /\ reports' = [reports EXCEPT ![w] =
               {[ptr |-> interest[f].ptr, events |-> ev[f], hup |-> hup[f]] : f \in F}]
    BY <1>0
  <1> DEFINE R(f) == [ptr |-> interest[f].ptr, events |-> ev[f], hup |-> hup[f]]
  <1>3. held = {} /\ op[w] = NoOp /\ NoOp.kind = "wait" BY <1>1 DEF Holders, Alone, Control, NoOp
  <1>4. ASSUME NEW f \in F
        PROVE  /\ table[f] # None /\ table[f] \in Ctxs /\ ctx[table[f]].events # {}
               /\ interest[f].events = ctx[table[f]].events /\ interest[f].ptr = table[f]
    <2>1. f \in Fds /\ interest[f] # None OBVIOUS
    <2>2. table[f] \in Ctxs \cup {None} BY <2>1 DEF TypeOK
    <2>3. table[f] # None /\ table[f] \notin held /\ ctx[table[f]].events # {}
      BY <2>1 DEF Registered
    <2>4. interest[f] = [events |-> ctx[table[f]].events, ptr |-> table[f]]
      BY <2>1, <2>3 DEF Registered
    <2>. QED BY <2>2, <2>3, <2>4
  <1>5. reports'[w] = {R(f) : f \in F} BY <1>2 DEF TypeOK
  <1>6. \A f \in F : /\ R(f) \in Report /\ R(f).ptr = table[f]
                     /\ R(f).events \subseteq ctx[table[f]].events /\ (R(f).events = {} => R(f).hup)
    BY <1>2, <1>4 DEF Report
  <1>7. \A f, g \in F : table[f] = table[g] => f = g BY <1>4 DEF NoLeak
  <1> HIDE DEF R
  <1>8. Reported(w)'
    <2>1. ASSUME NEW r \in reports'[w]
          PROVE  /\ \E f \in Fds : table[f] = r.ptr
                 /\ r.ptr # None /\ r.ptr \notin held
                 /\ r.events \subseteq ctx[r.ptr].events /\ ctx[r.ptr].events # {}
                 /\ r.events = {} => r.hup
      <3>1. PICK f \in F : r = R(f) BY <1>5
      <3>. QED BY <3>1, <1>3, <1>4, <1>6
    <2>2. ASSUME NEW r \in reports'[w], NEW s \in reports'[w], r.ptr = s.ptr PROVE r = s
      <3>1. PICK f \in F : r = R(f) BY <1>5
      <3>2. PICK g \in F : s = R(g) BY <1>5
      <3>. QED BY <3>1, <3>2, <2>2, <1>6, <1>7
    <2>. QED BY <2>1, <2>2, <1>1 DEF Reported
  <1>9. reports' \in [Workers -> SUBSET Report]
    <2>1. reports'[w] \in SUBSET Report BY <1>5, <1>6
    <2>. QED BY <2>1, <1>2 DEF TypeOK
  <1>10. /\ op' \in [Workers -> Op]
         /\ pc' \in [Workers -> {"free", "lookup", "create", "lock", "delete", "handle"}]
    BY <1>1 DEF TypeOK
  <1>11. Control'
    <2>1. pc'[w] = "handle" /\ op'[w] = NoOp BY <1>1, <1>3 DEF TypeOK
    <2>. QED BY <1>3, <2>1 DEF Control, Alone
  <1>12. \A v \in Workers : Reported(v)' BY <1>8 DEF Alone
  <1>. QED BY <1>1, <1>3, <1>9, <1>10, <1>11, <1>12, QuietStep

-----------------------------------------------------------------------------
(* Contexts come and go. *)

\* A context is new: no other entry has it.
LEMMA CreateStep == ASSUME IInv, Alone, NEW w \in Workers, Create(w) PROVE IInv'
  <1> USE DEF IInv
  <1> DEFINE f == op[w].fd
  <1>1. PICK a \in Ctxs \ live :
          /\ pc[w] = "create" /\ pc' = [pc EXCEPT ![w] = "lock"]
          /\ live' = live \cup {a}
          /\ ctx' = [ctx EXCEPT ![a] = NewContext]
          /\ table' = [table EXCEPT ![f] = a]
          /\ op' = [op EXCEPT ![w].ptr = a]
          /\ UNCHANGED <<held, interest, count, at, reports, mixed, spurious>>
    BY DEF Create, Goto
  <1>2. /\ f \in Fds /\ table[f] = None /\ held = {} /\ reports[w] = {} /\ op[w] \in Op
        /\ op[w].kind = "add" /\ op[w].event \in Events /\ op[w].by \in Callers
        /\ at[op[w].by] = Now("calling")
    BY <1>1 DEF Control, Holders, Alone, TypeOK
  <1>3. /\ op'[w] \in Op /\ op'[w].kind = "add" /\ op'[w].fd = f /\ op'[w].by = op[w].by
        /\ op'[w].event = op[w].event /\ op'[w].ptr = a
    BY <1>1, <1>2 DEF TypeOK, Op
  <1>4. NewContext \in FdContext /\ NewContext.events = {} BY DEF NewContext, FdContext
  <1>5. a # None BY NoneApart
  <1> HIDE DEF f
  <1>6. /\ table'[f] = a /\ \A g \in Fds : g # f => table'[g] = table[g]
        /\ ctx'[a] = NewContext /\ \A b \in Ctxs : b # a => ctx'[b] = ctx[b]
    BY <1>1, <1>2 DEF TypeOK
  <1>7. \A g \in Fds : table[g] # a /\ (table[g] # None => table[g] \in live /\ table[g] \in Ctxs)
    BY <1>1, <1>5 DEF NoLeak, Entries, TypeOK
  <1>8. TypeOK'
    <2>1. ctx' \in [Ctxs -> FdContext] BY <1>1, <1>4 DEF TypeOK
    <2>2. op' \in [Workers -> Op] BY <1>1, <1>3 DEF TypeOK
    <2>3. table' \in [Fds -> Ctxs \cup {None}] /\ live' \in SUBSET Ctxs
          /\ pc' \in [Workers -> {"free", "lookup", "create", "lock", "delete", "handle"}]
      BY <1>1 DEF TypeOK
    <2>. QED BY <1>1, <2>1, <2>2, <2>3 DEF TypeOK
  <1>9. NoLeak'
    <2>1. live' = {table'[g] : g \in Fds} \ {None}
      <3>1. live = {table[g] : g \in Fds} \ {None} BY DEF NoLeak
      <3>. QED BY <1>1, <1>2, <1>5, <1>6, <3>1
    <2>2. \A g, h \in Fds : g # h /\ table'[g] # None => table'[g] # table'[h]
      BY <1>6, <1>7 DEF NoLeak
    <2>. QED BY <2>1, <2>2 DEF NoLeak
  <1>10. Entries' BY <1>1, <1>4, <1>6, <1>7 DEF Entries
  <1>17. OneEach' BY <1>1 DEF OneEach, Parked
  <1>18. Mixing'
    <2>1. \A e \in Events : NewContext.stored[e] = {} BY DEF NewContext
    <2>2. ASSUME Single PROVE Single'
      <3>1. \A b \in Ctxs, e \in Events : \A c, d \in ctx'[b].stored[e] : c = d
        BY <1>6, <2>1, <2>2 DEF Single
      <3>. QED BY <3>1 DEF Single
    <2>. QED BY <1>1, <2>2 DEF Mixing
  <1>11. Registered'
    <2>1. ASSUME NEW g \in Fds, g # f
          PROVE  table'[g] = table[g] /\ table[g] # a /\ interest'[g] = interest[g]
                 /\ (table[g] # None => ctx'[table[g]] = ctx[table[g]])
      BY <2>1, <1>1, <1>6, <1>7
    <2>2. table'[f] = a /\ ctx'[a].events = {} /\ interest'[f] = None
      BY <1>1, <1>2, <1>4, <1>6 DEF Registered
    <2>. QED BY <2>1, <2>2, <1>1 DEF Registered
  <1>12. Waiters'
    <2>1. ASSUME NEW c \in Callers, Parked(c)'
          PROVE  at[c].fd \in Fds /\ table'[at[c].fd] = table[at[c].fd]
      BY <2>1, <1>1, <1>2, <1>6 DEF Waiters, Parked, TypeOK
    <2>. QED BY <2>1, <1>1, <1>6, <1>7, SMTT(30) DEF Waiters, Parked
  <1>13. Control'
    <2>1. pc'[w] = "lock" /\ reports'[w] = {} BY <1>1, <1>2 DEF TypeOK
    <2>. QED BY <1>1, <1>2, <1>3, <1>5, <1>6, <2>1 DEF Control, Alone
  <1>14. Holders' BY <1>1, <1>2 DEF Holders
  <1>15. \A v \in Workers : Reported(v)' BY <1>1, <1>2 DEF Reported, Alone
  <1>16. CountMatches' BY <1>1 DEF CountMatches
  <1>. QED BY <1>1, <1>8, <1>9, <1>10, <1>11, <1>12, <1>13, <1>14, <1>15, <1>16, <1>17, <1>18

\* deleteEventCb frees the context it is called in, for the table has no other.
LEMMA DeleteStep == ASSUME IInv, Alone, NEW w \in Workers, DeleteEventCb(w) PROVE IInv'
  <1> USE DEF IInv
  <1> DEFINE f == op[w].fd
             a == op[w].ptr
             wait == op[w].kind = "wait"
  <1>1. /\ pc[w] = "delete" /\ pc' = [pc EXCEPT ![w] = IF wait THEN "handle" ELSE "free"]
        /\ op' = [op EXCEPT ![w] = NoOp]
        /\ live' = live \ {table[f]} /\ table' = [table EXCEPT ![f] = None]
        /\ held' = held \ {a}
        /\ UNCHANGED <<ctx, interest, count, at, reports, mixed, spurious>>
    BY DEF DeleteEventCb, Done, Goto, FreeEntry
  <1>2. /\ f \in Fds /\ a # None /\ table[f] = a /\ held = {a} /\ a \in Ctxs
        /\ (~wait => reports[w] = {})
    BY <1>1 DEF Control, TypeOK
  <1>3. NoOp \in Op /\ NoOp.kind = "wait" BY DEF NoOp, Op
  <1> HIDE DEF f, a
  <1>4. table'[f] = None /\ \A g \in Fds : g # f => table'[g] = table[g] /\ table[g] # a
    BY <1>1, <1>2 DEF TypeOK, NoLeak
  <1>5. TypeOK'
    <2>1. op' \in [Workers -> Op] BY <1>1, <1>3 DEF TypeOK
    <2>2. table' \in [Fds -> Ctxs \cup {None}] /\ live' \in SUBSET Ctxs /\ held' \in SUBSET Ctxs
          /\ pc' \in [Workers -> {"free", "lookup", "create", "lock", "delete", "handle"}]
      BY <1>1 DEF TypeOK
    <2>. QED BY <1>1, <2>1, <2>2 DEF TypeOK
  <1>6. NoLeak'
    <2>1. live' = {table'[g] : g \in Fds} \ {None}
      <3>1. live = {table[g] : g \in Fds} \ {None} BY DEF NoLeak
      <3>. QED BY <1>1, <1>2, <1>4, <3>1
    <2>2. \A g, h \in Fds : g # h /\ table'[g] # None => table'[g] # table'[h]
      BY <1>4 DEF NoLeak
    <2>. QED BY <2>1, <2>2 DEF NoLeak
  <1>7. Entries' BY <1>1, <1>2, <1>4 DEF Entries
  <1>8. Registered'
    <2>1. \A g \in Fds : g # f => table'[g] = table[g] /\ (table[g] \in held' <=> table[g] \in held)
      BY <1>1, <1>2, <1>4
    <2>2. table'[f] = None /\ interest[f] = None BY <1>2, <1>4 DEF Registered
    <2>. QED BY <2>1, <2>2, <1>1 DEF Registered
  <1>9. Waiters'
    <2>1. ASSUME NEW c \in Callers, Parked(c)'
          PROVE  at[c].fd \in Fds /\ at[c].fd # f
      BY <2>1, <1>1, <1>2 DEF Waiters, Parked, TypeOK
    <2>. QED BY <2>1, <1>1, <1>2, <1>4 DEF Waiters, Parked
  <1>10. Control'
    <2>1. pc'[w] = (IF wait THEN "handle" ELSE "free") /\ op'[w] = NoOp /\ reports'[w] = reports[w]
      BY <1>1 DEF TypeOK
    <2>. QED BY <1>2, <1>3, <2>1 DEF Control, Alone
  <1>11. held' = {} BY <1>1, <1>2
  <1>12. Holders' BY <1>11 DEF Holders
  <1>13. Reported(w)'
    <2>1. \A r \in reports[w] : r.ptr # a BY <1>2 DEF Reported
    <2>2. ASSUME NEW r \in reports[w] PROVE \E g \in Fds : table'[g] = r.ptr
      <3>1. PICK g \in Fds : table[g] = r.ptr BY DEF Reported
      <3>. QED BY <1>2, <1>4, <2>1, <3>1
    <2>. QED BY <1>1, <1>11, <2>2 DEF Reported
  <1>14. CountMatches' BY <1>1 DEF CountMatches
  <1>15. OneEach' /\ Mixing' BY <1>1 DEF OneEach, Parked, Mixing, Single
  <1>. QED
    BY <1>1, <1>5, <1>6, <1>7, <1>8, <1>9, <1>10, <1>12, <1>13, <1>14, <1>15 DEF Alone

-----------------------------------------------------------------------------
(* Events are added. *)

\* A parked or forgotten coroutine's record is the wait it is in.
LEMMA WaitIs ==
  ASSUME TypeOK, NEW c \in Callers, Parked(c)
  PROVE  at[c] = WaitFor("parked", at[c].fd, at[c].event) /\ at[c].fd \in Fds /\ at[c].event \in Events
  <1>1. at[c] \in [where : {"parked", "forgotten"}, fd : Fds, event : Events] BY DEF TypeOK, Parked
  <1>. QED BY <1>1 DEF Parked, WaitFor

LEMMA WaitFields ==
  \A s, g, d : WaitFor(s, g, d).where = s /\ WaitFor(s, g, d).fd = g /\ WaitFor(s, g, d).event = d
  BY DEF WaitFor

LEMMA AddStep == ASSUME IInv, Alone, NEW w \in Workers, AddEvent(w), pc[w] = "lock" PROVE IInv'
  <1> USE DEF IInv
  <1>0. PICK f, a, k, e, before :
          f = op[w].fd /\ a = op[w].ptr /\ k = op[w].by /\ e = op[w].event /\ before = ctx[a].events
    OBVIOUS
  <1>1. /\ pc' = [pc EXCEPT ![w] = "free"] /\ op' = [op EXCEPT ![w] = NoOp]
        /\ UNCHANGED <<table, live, held, reports, spurious>>
    BY DEF AddEvent, Done, Goto
  <1>2. /\ op[w].kind = "add" /\ f \in Fds /\ e \in Events /\ k \in Callers /\ at[k] = Now("calling")
        /\ a # None /\ table[f] = a /\ a \in Ctxs /\ reports[w] = {} /\ held = {}
    <2>1. op[w].kind = "add" /\ a \notin held BY <1>0 DEF AddEvent, Enter
    <2>2. op[w].ptr \in Ctxs \cup {None}
      <3>1. op[w] \in Op BY DEF TypeOK
      <3>. QED BY <3>1 DEF Op
    <2>. QED BY <1>0, <2>1, <2>2, NoneApart DEF Control, Holders, Alone
  <1>3. ctx[a] \in FdContext /\ before \subseteq Events BY <1>0, <1>2 DEF TypeOK, FdContext
  <1>4. PICK added \in BOOLEAN, s \in {"running", "threw"} :
          /\ added => e \notin before
          /\ ctx'[a].fd = f /\ ctx'[a].events = before \cup (IF added THEN {e} ELSE {})
          /\ ctx' \in [Ctxs -> FdContext] /\ \A b \in Ctxs : b # a => ctx'[b] = ctx[b]
          /\ \A x \in Events : ~added \/ x # e => ctx'[a].stored[x] = ctx[a].stored[x]
          /\ added => ctx'[a].stored[e] = Store(ctx[a].stored[e], k)
          /\ mixed' = (mixed \/ (added /\ Store(ctx[a].stored[e], k) # {k}))
          /\ at' = [at EXCEPT ![k] = IF added THEN WaitFor("parked", f, e) ELSE Now(s)]
          /\ interest' = IF added THEN [interest EXCEPT ![f] = [events |-> before \cup {e}, ptr |-> a]]
                                  ELSE interest
          /\ count' = IF added THEN count + 1 ELSE count
    <2>1. ASSUME NEW s \in {"running", "threw"}, ctx' = [ctx EXCEPT ![a].fd = f],
                 at' = [at EXCEPT ![k] = Now(s)], UNCHANGED <<interest, count, mixed>>
          PROVE  /\ ctx'[a].fd = f /\ ctx'[a].events = before
                 /\ ctx' \in [Ctxs -> FdContext] /\ \A b \in Ctxs : b # a => ctx'[b] = ctx[b]
                 /\ \A x \in Events : ctx'[a].stored[x] = ctx[a].stored[x]
      BY <2>1, <1>0, <1>2, <1>3 DEF TypeOK, FdContext
    <2>2. ASSUME e \notin before,
                 ctx' = [ctx EXCEPT ![a] = [fd |-> f, events |-> before \cup {e},
                                            stored |-> [ctx[a].stored EXCEPT ![e] = Store(ctx[a].stored[e], k)]]]
          PROVE  /\ ctx'[a].fd = f /\ ctx'[a].events = before \cup {e}
                 /\ ctx' \in [Ctxs -> FdContext] /\ \A b \in Ctxs : b # a => ctx'[b] = ctx[b]
                 /\ \A x \in Events : x # e => ctx'[a].stored[x] = ctx[a].stored[x]
                 /\ ctx'[a].stored[e] = Store(ctx[a].stored[e], k)
      <3> DEFINE new == [fd |-> f, events |-> before \cup {e},
                         stored |-> [ctx[a].stored EXCEPT ![e] = Store(ctx[a].stored[e], k)]]
      <3>1. ctx' = [ctx EXCEPT ![a] = new] BY <2>2
      <3>2. ctx[a].stored \in [Events -> SUBSET Callers] BY <1>3 DEF FdContext
      <3>5. Store(ctx[a].stored[e], k) \in SUBSET Callers BY <1>2, <3>2 DEF Store
      <3>3. new \in FdContext BY <1>2, <1>3, <3>2, <3>5 DEF FdContext
      <3>4. new.fd = f /\ new.events = before \cup {e} /\ new.stored[e] = Store(ctx[a].stored[e], k)
            /\ \A x \in Events : x # e => new.stored[x] = ctx[a].stored[x]
        BY <1>2, <1>3, <2>2, <3>2
      <3> HIDE DEF new
      <3>. QED BY <3>1, <3>3, <3>4, <1>2 DEF TypeOK
    <2>6. mixed \in BOOLEAN BY DEF TypeOK
    <2>7. (mixed \/ (FALSE /\ Store(ctx[a].stored[e], k) # {k})) = mixed BY ONLY <2>6
    <2>3. CASE /\ ctx' = [ctx EXCEPT ![a].fd = f]
               /\ at' = [at EXCEPT ![k] = Now("threw")] /\ UNCHANGED <<interest, count, mixed>>
      BY <2>1, <2>3, <2>7
    <2>4. CASE /\ ctx' = [ctx EXCEPT ![a].fd = f]
               /\ at' = [at EXCEPT ![k] = Now("running")] /\ UNCHANGED <<interest, count, mixed>>
      BY <2>1, <2>4, <2>7
    <2>5. CASE /\ e \notin before
               /\ interest' = [interest EXCEPT ![f] = [events |-> before \cup {e}, ptr |-> a]]
               /\ ctx' = [ctx EXCEPT ![a] = [fd |-> f, events |-> before \cup {e},
                                             stored |-> [ctx[a].stored EXCEPT ![e] = Store(ctx[a].stored[e], k)]]]
               /\ mixed' = (mixed \/ Store(ctx[a].stored[e], k) # {k})
               /\ count' = count + 1
               /\ at' = [at EXCEPT ![k] = [where |-> "parked", fd |-> f, event |-> e]]
      <3>1. mixed' = (mixed \/ (TRUE /\ Store(ctx[a].stored[e], k) # {k})) BY <2>5
      <3>. QED BY <2>2, <2>5, <3>1 DEF WaitFor
    <2>. QED BY <2>3, <2>4, <2>5, <1>0 DEF AddEvent
  <1>5. /\ at'[k] = (IF added THEN WaitFor("parked", f, e) ELSE Now(s))
        /\ \A c \in Callers : c # k => at'[c] = at[c]
    BY <1>2, <1>4 DEF TypeOK
  <1>6. \A c \in Callers : at[c].where \in {"parked", "forgotten"} => c # k /\ at'[c] = at[c]
    BY <1>2, <1>5 DEF Now
  <1>7. \A g \in Fds : g # f /\ table[g] # None => table[g] # a /\ table[g] \in Ctxs
    BY <1>2 DEF NoLeak, TypeOK
  <1>8. TypeOK'
    <2>1. NoOp \in Op BY DEF NoOp, Op
    <2>2. op' \in [Workers -> Op] BY <1>1, <2>1 DEF TypeOK
    <2>3. pc' \in [Workers -> {"free", "lookup", "create", "lock", "delete", "handle"}]
      BY <1>1 DEF TypeOK
    <2>4. interest' \in [Fds -> Interest \cup {None}]
      <3>1. [events |-> before \cup {e}, ptr |-> a] \in Interest BY <1>2, <1>3 DEF Interest
      <3>. QED BY <1>4, <3>1 DEF TypeOK
    <2>5. at' \in [Callers -> [where : {"running", "calling", "dropped", "threw"}, fd : {None}, event : {None}]
                   \cup [where : {"parked", "forgotten"}, fd : Fds, event : Events]]
      <3>1. WaitFor("parked", f, e) \in [where : {"parked", "forgotten"}, fd : Fds, event : Events]
        BY <1>2 DEF WaitFor
      <3>2. Now(s) \in [where : {"running", "calling", "dropped", "threw"}, fd : {None}, event : {None}]
        BY DEF Now
      <3> HIDE DEF Now, WaitFor
      <3>. QED BY <1>4, <3>1, <3>2 DEF TypeOK
    <2>6. count' \in Int BY <1>4 DEF TypeOK
    <2>7. mixed' \in BOOLEAN BY <1>4
    <2>. QED BY <1>1, <1>4, <2>2, <2>3, <2>4, <2>5, <2>6, <2>7 DEF TypeOK
  <1>9. NoLeak' BY <1>1 DEF NoLeak
  <1>10. Entries'
    <2>1. \A c \in Callers : \A h, x : at[c] = WaitFor("parked", h, x) => at'[c] = at[c]
      BY <1>6, WaitFields
    <2>2. ASSUME NEW x \in ctx'[a].events
          PROVE  \E c \in Callers : c \in ctx'[a].stored[x] /\ at'[c] = WaitFor("parked", f, x)
      <3>1. CASE x \in before
        <4>1. PICK c \in Callers : c \in ctx[a].stored[x] /\ at[c] = WaitFor("parked", f, x)
          BY <3>1, <1>0, <1>2 DEF Entries
        <4>2. x \in Events /\ (~added \/ x # e) BY <3>1, <1>3, <1>4
        <4>. QED BY <4>1, <4>2, <2>1, <1>4
      <3>2. CASE x \notin before
        <4>1. added /\ x = e BY <3>2, <2>2, <1>4
        <4>2. k \in Store(ctx[a].stored[e], k) BY DEF Store
        <4>. QED BY <4>1, <4>2, <1>2, <1>4, <1>5
      <3>. QED BY <3>1, <3>2
    <2>3. a \in live /\ ctx'[a].fd = f BY <1>2, <1>4 DEF Entries
    <2>4. ASSUME NEW g \in Fds, table'[g] # None
          PROVE  LET b == table'[g] IN
                 /\ b \in live'
                 /\ ctx'[b].events # {} => ctx'[b].fd = g
                 /\ b \notin held' => \A x \in ctx'[b].events : \E c \in Callers :
                      c \in ctx'[b].stored[x] /\ at'[c] = WaitFor("parked", g, x)
      <3>1. CASE g = f BY <3>1, <2>2, <2>3, <1>1, <1>2
      <3>2. CASE g # f
        <4>1. table'[g] = table[g] /\ table[g] # None /\ ctx'[table[g]] = ctx[table[g]]
          BY <3>2, <2>4, <1>1, <1>4, <1>7
        <4>2. ASSUME table[g] \notin held, NEW x \in ctx[table[g]].events
              PROVE  \E c \in Callers : c \in ctx[table[g]].stored[x] /\ at'[c] = WaitFor("parked", g, x)
          <5>1. PICK c \in Callers : c \in ctx[table[g]].stored[x] /\ at[c] = WaitFor("parked", g, x)
            BY <4>1, <4>2 DEF Entries
          <5>. QED BY <5>1, <2>1
        <4>. QED BY <4>1, <4>2, <1>1 DEF Entries
      <3>. QED BY <3>1, <3>2
    <2>. QED BY ONLY <2>4 DEF Entries
  <1>11. Registered'
    <2>1. ASSUME NEW g \in Fds, g # f
          PROVE  table'[g] = table[g] /\ interest'[g] = interest[g]
                 /\ (table[g] # None => ctx'[table[g]] = ctx[table[g]])
      BY <2>1, <1>1, <1>4, <1>7
    <2>2. CASE added
      <3>1. interest'[f] = [events |-> before \cup {e}, ptr |-> a]
        BY <2>2, <1>2, <1>4 DEF TypeOK
      <3>2. interest'[f] # None BY <3>1, <1>2, <1>3, IOAssumption DEF Interest
      <3> DEFINE Right(g) == LET b == table'[g] IN
                                 /\ b = None \/ b \in held' => interest'[g] = None
                                 /\ b # None => (ctx'[b].events = {} => interest'[g] = None)
                                 /\ b # None /\ b \notin held' /\ ctx'[b].events # {}
                                      => interest'[g] # None
                                         /\ interest'[g] = [events |-> ctx'[b].events, ptr |-> b]
      <3>7. Right(f) BY <2>2, <3>1, <3>2, <1>1, <1>2, <1>4
      <3>8. ASSUME NEW g \in Fds, g # f PROVE Right(g)
        <4>1. table'[g] = table[g] /\ interest'[g] = interest[g] /\ held' = held
              /\ (table[g] # None => ctx'[table[g]] = ctx[table[g]])
          BY <3>8, <2>1, <1>1
        <4>2. LET b == table[g] IN
              /\ b = None \/ b \in held => interest[g] = None
              /\ b # None => (ctx[b].events = {} => interest[g] = None)
              /\ b # None /\ b \notin held /\ ctx[b].events # {}
                   => interest[g] # None /\ interest[g] = [events |-> ctx[b].events, ptr |-> b]
          BY DEF Registered
        <4>. QED BY ONLY <4>1, <4>2
      <3> HIDE DEF Right
      <3>9. \A g \in Fds : Right(g) BY <3>7, <3>8
      <3>. QED BY <3>9 DEF Registered, Right
    <2>3. CASE ~added
      <3>1. interest' = interest /\ ctx'[a].events = ctx[a].events BY <2>3, <1>0, <1>4
      <3>2. \A g \in Fds : table[g] # None => ctx'[table[g]].events = ctx[table[g]].events
        BY <2>1, <3>1, <1>2
      <3>. QED BY <3>1, <3>2, <1>1 DEF Registered
    <2>. QED BY <2>2, <2>3
  <1>12. Waiters'
    <2>1. ASSUME NEW c \in Callers, Parked(c)', c # k
          PROVE  /\ at'[c] = at[c] /\ table[at[c].fd] # None /\ at[c].event \in ctx[table[at[c].fd]].events
                 /\ c \in ctx[table[at[c].fd]].stored[at[c].event] /\ at[c].fd \in Fds
      BY <2>1, <1>5, WaitIs DEF Waiters, Parked
    <2>2. ASSUME NEW c \in Callers, Parked(c)', c # k
          PROVE  LET b == table'[at'[c].fd] IN
                 b # None /\ b \notin held' /\ at'[c].event \in ctx'[b].events
                 /\ c \in ctx'[b].stored[at'[c].event]
      <3>1. CASE at[c].fd = f
        <4>1. at[c].event \in before /\ c \in ctx[a].stored[at[c].event] BY <3>1, <2>1, <2>2, <1>0, <1>2
        <4>2. c \in ctx'[a].stored[at[c].event] BY <4>1, <1>3, <1>4
        <4>. QED BY <3>1, <4>1, <4>2, <2>1, <2>2, <1>1, <1>2, <1>4
      <3>2. CASE at[c].fd # f BY <3>2, <2>1, <2>2, <1>1, <1>2, <1>4, <1>7, SMTT(30)
      <3>. QED BY <3>1, <3>2
    <2>3. ASSUME Parked(k)'
          PROVE  LET b == table'[at'[k].fd] IN
                 b # None /\ b \notin held' /\ at'[k].event \in ctx'[b].events
                 /\ k \in ctx'[b].stored[at'[k].event]
      <3>1. CASE ~added
        <4>1. at'[k] = Now(s) BY <3>1, <1>5
        <4>2. at'[k].where = s BY <4>1 DEF Now
        <4>. QED BY <2>3, <4>2 DEF Parked
      <3>2. CASE added
        <4>1. at'[k] = WaitFor("parked", f, e) BY <3>2, <1>5
        <4>2. at'[k].fd = f /\ at'[k].event = e BY <4>1 DEF WaitFor
        <4>3. k \in ctx'[a].stored[e] BY <3>2, <1>4 DEF Store
        <4>. QED BY <3>2, <4>2, <4>3, <1>1, <1>2, <1>4
      <3>. QED BY <3>1, <3>2
    <2>4. ASSUME NEW c \in Callers, Parked(c)'
          PROVE  LET b == table'[at'[c].fd] IN
                 b # None /\ b \notin held' /\ at'[c].event \in ctx'[b].events
                 /\ c \in ctx'[b].stored[at'[c].event]
      <3>1. CASE c = k BY <2>4, <3>1, <2>3
      <3>2. CASE c # k BY <2>4, <3>2, <2>2
      <3>. QED BY <3>1, <3>2
    <2>. QED BY ONLY <2>4 DEF Waiters
  <1>13. Control'
    <2>1. pc'[w] = "free" /\ op'[w] = NoOp /\ reports'[w] = {} /\ NoOp.kind = "wait"
      BY <1>1, <1>2 DEF TypeOK, NoOp
    <2>. QED BY <2>1 DEF Control, Alone
  <1>14. Holders' /\ \A v \in Workers : Reported(v)'
    BY <1>1, <1>2 DEF Holders, Reported, Alone
  <1>15. CountMatches'
    <2>1. IsFiniteSet(Waiting) /\ k \notin Waiting
      <3>1. Waiting \in SUBSET Callers /\ IsFiniteSet(Callers) BY DEF Waiting, Alone
      <3>2. k \notin Waiting BY <1>6, <1>2 DEF Waiting
      <3>. QED BY <3>1, <3>2, FS_Subset
    <2>2. CASE added
      <3>1. Waiting' = Waiting \cup {k} BY <2>2, <1>2, <1>5, <1>6 DEF Waiting, WaitFor
      <3>2. Cardinality(Waiting \cup {k}) = Cardinality(Waiting) + 1 BY <2>1, FS_AddElement
      <3>3. count' = Cardinality(Waiting')
        BY <2>2, <3>1, <3>2, <1>4 DEF CountMatches, Waiting
      <3>. QED BY <3>3 DEF CountMatches, Waiting
    <2>3. CASE ~added
      <3>1. Waiting' = Waiting BY <2>3, <1>2, <1>5, <1>6 DEF Waiting, Now
      <3>. QED BY <2>3, <3>1, <1>4 DEF CountMatches, Waiting
    <2>. QED BY <2>2, <2>3
  <1>16. OneEach'
    <2>1. \A c \in Callers : c # k /\ Parked(c)' => Parked(c) /\ at'[c] = at[c] BY <1>5 DEF Parked
    <2>2. Parked(k)' => added /\ at'[k] = WaitFor("parked", f, e) BY <1>5 DEF Parked, Now
    <2>3. ASSUME NEW c \in Callers, c # k, Parked(c)', added PROVE at'[c] # WaitFor("parked", f, e)
      <3> SUFFICES ASSUME at'[c] = WaitFor("parked", f, e) PROVE FALSE OBVIOUS
      <3>1. Parked(c) /\ at[c].fd = f /\ at[c].event = e BY <2>1, <2>3, WaitFields
      <3>2. e \in before BY <3>1, <1>0, <1>2 DEF Waiters
      <3>. QED BY <2>3, <3>2, <1>4
    <2>4. ASSUME NEW c \in Callers, NEW d \in Callers, Parked(c)', at'[c] = at'[d] PROVE c = d
      <3>1. Parked(d)' BY <2>4 DEF Parked
      <3>2. CASE c # k /\ d # k BY <2>1, <2>4, <3>1, <3>2 DEF OneEach
      <3>3. CASE c = k BY <2>2, <2>3, <2>4, <3>1, <3>3
      <3>4. CASE d = k BY <2>2, <2>3, <2>4, <3>1, <3>4
      <3>. QED BY <3>2, <3>3, <3>4
    <2>. QED BY <2>4 DEF OneEach
  <1>17. Mixing'
    <2>1. ASSUME ~mixed' PROVE Single'
      <3>1. ~mixed /\ Single BY <2>1, <1>4 DEF Mixing
      <3>2. added => ctx'[a].stored[e] = {k} BY <2>1, <1>4
      <3>3. ASSUME NEW b \in Ctxs, NEW x \in Events, NEW c \in ctx'[b].stored[x], NEW d \in ctx'[b].stored[x]
            PROVE  c = d
        <4>1. CASE added /\ b = a /\ x = e BY <4>1, <3>2, <3>3
        <4>2. CASE ~(added /\ b = a /\ x = e)
          <5>1. ctx'[b].stored[x] = ctx[b].stored[x] BY <4>2, <1>4
          <5>. QED BY <5>1, <3>1, <3>3 DEF Single
        <4>. QED BY <4>1, <4>2
      <3>. QED BY <3>3 DEF Single
    <2>2. spurious' => mixed' BY <1>1, <1>4 DEF Mixing
    <2>. QED BY <2>1, <2>2 DEF Mixing
  <1>. QED BY <1>1, <1>8, <1>9, <1>10, <1>11, <1>12, <1>13, <1>14, <1>15, <1>16, <1>17

-----------------------------------------------------------------------------
(* Events are taken out. *)

ParkedFor(f, E) == {c \in Callers : \E e \in E : at[c] = WaitFor("parked", f, e)}

\* Those who wait for some events of one descriptor are as many as the events,
\* and all of them count as waiting.
LEMMA WaitersOf ==
  ASSUME IInv, Alone, NEW f \in Fds, table[f] # None, table[f] \notin held,
         NEW E \in SUBSET ctx[table[f]].events
  PROVE  LET cs == ParkedFor(f, E) IN
         /\ cs \subseteq Waiting
         /\ IsFiniteSet(Waiting \ cs) /\ Cardinality(Waiting \ cs) = Cardinality(Waiting) - Cardinality(E)
  <1> USE DEF IInv
  <1> DEFINE C(e) == CHOOSE c \in Callers : at[c] = WaitFor("parked", f, e)
             cs == {C(e) : e \in E}
  <1>1. \A e \in E : C(e) \in Callers /\ at[C(e)] = WaitFor("parked", f, e)
    BY DEF Entries
  <1>2. \A e \in E : at[C(e)].where = "parked" /\ at[C(e)].event = e
    <2> HIDE DEF C
    <2>. QED BY <1>1, WaitFields
  <1>3. \A d, e \in E : C(d) = C(e) => d = e BY <1>2
  <1>4. E \subseteq Events
    <2>1. table[f] \in Ctxs BY DEF TypeOK
    <2>2. ctx[table[f]] \in FdContext BY <2>1 DEF TypeOK
    <2>. QED BY <2>2 DEF FdContext
  <1>5. \A c \in Callers : (\E e \in E : at[c] = WaitFor("parked", f, e)) => c \in cs
    <2> SUFFICES ASSUME NEW c \in Callers, NEW e \in E, at[c] = WaitFor("parked", f, e) PROVE c = C(e)
      OBVIOUS
    <2>1. Parked(c) /\ at[C(e)] = at[c] /\ C(e) \in Callers BY <1>1, WaitFields DEF Parked
    <2> HIDE DEF C
    <2>. QED BY <2>1 DEF OneEach
  <1>6. cs \subseteq Waiting BY <1>1, <1>2 DEF Waiting
  <1>7. IsFiniteSet(Waiting)
    <2>1. Waiting \in SUBSET Callers /\ IsFiniteSet(Callers) BY DEF Waiting, Alone
    <2>. QED BY <2>1, FS_Subset
  <1>8. Cardinality(Waiting) \in Nat BY <1>7, FS_CardinalityType
  <1>9. IsFiniteSet(Waiting \ cs) /\ Cardinality(Waiting \ cs) = Cardinality(Waiting) - Cardinality(E)
    <2> HIDE DEF C
    <2>1. CASE E = {}
      <3>1. cs = {} /\ Cardinality(E) = 0 BY <2>1, FS_EmptySet
      <3>2. PICK R : R = Waiting \ cs OBVIOUS
      <3>3. R = Waiting BY <3>1, <3>2
      <3>4. IsFiniteSet(R) /\ Cardinality(R) = Cardinality(Waiting) - Cardinality(E)
        BY <3>1, <3>3, <1>7, <1>8
      <3> HIDE DEF cs
      <3>. QED BY <3>2, <3>4
    <2>2. CASE \E e \in Events : E = {e}
      <3>1. PICK e \in Events : E = {e} BY <2>2
      <3>2. cs = {C(e)} /\ C(e) \in Waiting BY <3>1, <1>6
      <3>3. Cardinality(E) = 1 BY <3>1, FS_Singleton
      <3>. QED BY <3>2, <3>3, <1>7, FS_RemoveElement
    <2>3. CASE E = Events
      <3>1. cs = {C("READ"), C("WRITE")} /\ C("READ") # C("WRITE") BY <2>3, <1>3 DEF Events
      <3>2. C("READ") \in Waiting /\ C("WRITE") \in Waiting \ {C("READ")} BY <3>1, <1>6
      <3>3. /\ IsFiniteSet(Waiting \ {C("READ")})
            /\ Cardinality(Waiting \ {C("READ")}) = Cardinality(Waiting) - 1
        BY <3>2, <1>7, FS_RemoveElement
      <3>4. LET S == Waiting \ {C("READ")} IN
            /\ IsFiniteSet(S \ {C("WRITE")}) /\ Cardinality(S \ {C("WRITE")}) = Cardinality(S) - 1
        BY <3>2, <3>3, FS_RemoveElement
      <3>5. Waiting \ cs = (Waiting \ {C("READ")}) \ {C("WRITE")} BY <3>1
      <3>6. Cardinality(E) = 2
        <4>1. "READ" # "WRITE" /\ E = {"READ"} \cup {"WRITE"} BY <2>3 DEF Events
        <4>2. PICK S, x : S = {"READ"} /\ x = "WRITE" OBVIOUS
        <4>3. x \notin S /\ E = S \cup {x} BY <4>1, <4>2
        <4>4. IsFiniteSet(S) /\ Cardinality(S) = 1 BY <4>2, FS_Singleton
        <4>5. Cardinality(S \cup {x}) = Cardinality(S) + 1 BY <4>3, <4>4, FS_AddElement
        <4>. QED BY <4>3, <4>4, <4>5
      <3>. QED BY <3>3, <3>4, <3>5, <3>6, <1>8
    <2>4. E = {} \/ (\E e \in Events : E = {e}) \/ E = Events BY <1>4 DEF Events
    <2>. QED BY <2>1, <2>2, <2>3, <2>4
  <1>10. cs = ParkedFor(f, E)
    <2> HIDE DEF C
    <2>. QED BY <1>1, <1>5 DEF ParkedFor
  <1> HIDE DEF cs
  <1>. QED BY <1>6, <1>9, <1>10

\* The events E leave the context a of descriptor f: who waits for one of them
\* comes back, who waits for another one of `gone` is forgotten.
Leaves(f, a, gone, E) ==
  /\ ctx' \in [Ctxs -> FdContext] /\ \A b \in Ctxs : b # a => ctx'[b] = ctx[b]
  /\ ctx'[a].events = ctx[a].events \ E /\ ctx'[a].fd = f
  /\ \A e \in ctx[a].events \ E : ctx'[a].stored[e] = ctx[a].stored[e]
  /\ \A e \in Events : ctx'[a].stored[e] \subseteq ctx[a].stored[e]
  /\ \A c \in Callers :
       /\ (\E e \in E : at[c] = WaitFor("parked", f, e)) => at'[c] \in {Now("running"), Now("dropped")}
       /\ \A e \in gone \ E : at[c] = WaitFor("parked", f, e) => at'[c] = WaitFor("forgotten", f, e)
       /\ (\A e \in gone : at[c] # WaitFor("parked", f, e)) => at'[c] = at[c]
  /\ DOMAIN at' = Callers /\ at' = [c \in Callers |-> at'[c]]
  /\ mixed' = mixed /\ (spurious' => mixed) /\ spurious' \in BOOLEAN

\* Who waits for E runs again, who waits for another one of G is forgotten.
Wakes(f, E, G) == \A c \in Callers :
  at'[c] = IF \E e \in E : at[c] = WaitFor("parked", f, e) THEN Now("running")
           ELSE IF \E e \in G \ E : at[c] = WaitFor("parked", f, e) THEN Forgotten(c)
           ELSE at[c]

Holds(a, b) == held' = IF b THEN {a} ELSE {}

\* What holds of the table, and of the coroutines, after such a step.
TableStays ==
  /\ ctx' \in [Ctxs -> FdContext] /\ interest' \in [Fds -> Interest \cup {None}]
  /\ at' \in [Callers -> [where : {"running", "calling", "dropped", "threw"}, fd : {None}, event : {None}]
              \cup [where : {"parked", "forgotten"}, fd : Fds, event : Events]]
  /\ count' \in Int
  /\ NoLeak' /\ Entries' /\ Registered' /\ Waiters' /\ OneEach' /\ Mixing' /\ CountMatches'

\* What stays of the invariant when the events `gone` of a context are taken
\* out: the waits for E end, and if more than E is gone then everything is,
\* and the other waiters are forgotten.
LEMMA TakenOut ==
  ASSUME IInv, Alone,
         NEW f \in Fds, NEW a \in Ctxs, table[f] = a, held = {},
         NEW gone \in SUBSET ctx[a].events, gone # {},
         NEW E \in SUBSET gone, E # gone => gone = ctx[a].events,
         Leaves(f, a, gone, E), Relax(f, ctx[a].events \ gone, a),
         Holds(a, ctx[a].events \ gone = {}),
         count' = count - Cardinality(E), UNCHANGED <<table, live>>
  PROVE  TableStays
  <1> USE DEF IInv, Leaves, Holds, TableStays
  <1>1. PICK events, left : events = ctx[a].events /\ left = events \ gone OBVIOUS
  <1>2. a # None /\ a \in live /\ events # {} BY <1>1, NoneApart DEF Entries
  <1>3. events \subseteq Events
    <2>1. ctx[a] \in FdContext BY DEF TypeOK
    <2>. QED BY <1>1, <2>1 DEF FdContext
  <1>4. \A g \in Fds : g # f /\ table[g] # None => table[g] # a /\ table[g] \in Ctxs
    BY <1>2 DEF NoLeak, TypeOK
  <1>5. \A e \in events : \E c \in Callers :
          c \in ctx[a].stored[e] /\ at[c] = WaitFor("parked", f, e)
    BY <1>1, <1>2 DEF Entries
  <1>6. \A s, t, g, h, d, e : WaitFor(s, g, d) = WaitFor(t, h, e) => s = t /\ g = h /\ d = e
    BY DEF WaitFor
  <1>7. interest' = [interest EXCEPT ![f] = IF left = {} THEN None ELSE [events |-> left, ptr |-> a]]
    BY <1>1 DEF Relax
  <1>8. left # {} => E = gone BY <1>1
  <1>9. interest' \in [Fds -> Interest \cup {None}]
    <2>1. [events |-> left, ptr |-> a] \in Interest BY <1>1, <1>3 DEF Interest
    <2>. QED BY <1>7, <2>1 DEF TypeOK
  <1>10. at' \in [Callers -> [where : {"running", "calling", "dropped", "threw"}, fd : {None}, event : {None}]
                   \cup [where : {"parked", "forgotten"}, fd : Fds, event : Events]]
    <2> DEFINE Awake == [where : {"running", "calling", "dropped", "threw"}, fd : {None}, event : {None}]
               Asleep == [where : {"parked", "forgotten"}, fd : Fds, event : Events]
    <2>1. Now("running") \in Awake /\ Now("dropped") \in Awake BY DEF Now
    <2>2. \A e \in gone : WaitFor("forgotten", f, e) \in Asleep BY <1>1, <1>3 DEF WaitFor
    <2>3. \A c \in Callers : at[c] \in Awake \cup Asleep BY DEF TypeOK
    <2> HIDE DEF Awake, Asleep
    <2>4. ASSUME NEW c \in Callers PROVE at'[c] \in Awake \cup Asleep
      <3>1. CASE \E e \in E : at[c] = WaitFor("parked", f, e) BY <3>1, <2>1
      <3>2. CASE \E e \in gone \ E : at[c] = WaitFor("parked", f, e) BY <3>2, <2>2
      <3>3. CASE \A e \in gone : at[c] # WaitFor("parked", f, e) BY <3>3, <2>3
      <3>. QED BY <3>1, <3>2, <3>3
    <2>5. at' \in [Callers -> Awake \cup Asleep] BY <2>4
    <2>. QED BY <2>5 DEF Awake, Asleep
  <1>11. NoLeak' BY DEF NoLeak
  <1>12. Entries'
    <2>1. \A c \in Callers : \A g, x :
            at[c] = WaitFor("parked", g, x) /\ (g # f \/ x \notin gone) => at'[c] = at[c]
      BY <1>6
    <2>2. ASSUME left # {}, NEW x \in events \ E
          PROVE  \E c \in Callers : c \in ctx'[a].stored[x] /\ at'[c] = WaitFor("parked", f, x)
      <3>1. PICK c \in Callers : c \in ctx[a].stored[x] /\ at[c] = WaitFor("parked", f, x)
        BY <1>5
      <3>2. x \notin gone BY <2>2, <1>8
      <3>3. at'[c] = at[c] BY <3>1, <3>2, <2>1
      <3>4. ctx'[a].stored[x] = ctx[a].stored[x] BY <1>1
      <3>. QED BY <3>1, <3>3, <3>4
    <2>3. ASSUME NEW g \in Fds, table'[g] # None
          PROVE  LET b == table'[g] IN
                 /\ b \in live'
                 /\ ctx'[b].events # {} => ctx'[b].fd = g
                 /\ b \notin held' => \A x \in ctx'[b].events : \E c \in Callers :
                      c \in ctx'[b].stored[x] /\ at'[c] = WaitFor("parked", g, x)
      <3>1. CASE g = f
        <4>1. a \notin held' => left # {} BY <1>1
        <4>. QED BY <3>1, <4>1, <2>2, <1>1, <1>2
      <3>2. CASE g # f
        <4>1. table[g] # None /\ table[g] # a /\ table[g] \in Ctxs /\ ctx'[table[g]] = ctx[table[g]]
          BY <3>2, <2>3, <1>4
        <4>2. ASSUME NEW x \in ctx[table[g]].events
              PROVE  \E c \in Callers : c \in ctx[table[g]].stored[x] /\ at'[c] = WaitFor("parked", g, x)
          <5>1. PICK c \in Callers : c \in ctx[table[g]].stored[x] /\ at[c] = WaitFor("parked", g, x)
            BY <4>1 DEF Entries
          <5>2. at'[c] = at[c] BY <5>1, <3>2, <2>1
          <5>. QED BY <5>1, <5>2
        <4>. QED BY <4>1, <4>2 DEF Entries
      <3>. QED BY <3>1, <3>2
    <2>. QED BY ONLY <2>3 DEF Entries
  <1>13. Registered'
    <2>1. ASSUME NEW g \in Fds, g # f
          PROVE  table'[g] = table[g] /\ interest'[g] = interest[g]
                 /\ (table[g] # None => ctx'[table[g]] = ctx[table[g]] /\ table[g] \notin held')
      BY <2>1, <1>4, <1>7
    <2>4. \A g \in Fds : table[g] = None => interest[g] = None BY DEF Registered
    <2>2. CASE left = {}
      <3>1. interest'[f] = None /\ a \in held' /\ table'[f] = a BY <2>2, <1>1, <1>7 DEF TypeOK
      <3>2. \A g \in Fds : g # f /\ table'[g] # None =>
              /\ ctx'[table'[g]].events = ctx[table[g]].events /\ table'[g] \notin held'
              /\ interest'[g] = interest[g] /\ table'[g] = table[g]
        BY <2>1
      <3>3. \A g \in Fds : g # f /\ table'[g] = None => interest'[g] = None
        BY <2>1, <2>4
      <3> DEFINE Right(g) == LET b == table'[g] IN
                                 /\ b = None \/ b \in held' => interest'[g] = None
                                 /\ b # None => (ctx'[b].events = {} => interest'[g] = None)
                                 /\ b # None /\ b \notin held' /\ ctx'[b].events # {}
                                      => interest'[g] # None
                                         /\ interest'[g] = [events |-> ctx'[b].events, ptr |-> b]
      <3>7. Right(f) BY <3>1
      <3>8. ASSUME NEW g \in Fds, g # f PROVE Right(g)
        BY <3>8, <3>2, <3>3 DEF Registered
      <3> HIDE DEF Right
      <3>9. \A g \in Fds : Right(g) BY <3>7, <3>8
      <3>. QED BY <3>9 DEF Registered, Right
    <2>3. CASE left # {}
      <3>1. ctx'[a].events = left BY <2>3, <1>1, <1>8
      <3>2. interest'[f] = [events |-> left, ptr |-> a] BY <2>3, <1>7 DEF TypeOK
      <3>3. interest'[f] # None BY <3>2, <1>1, <1>3, NoneApart DEF Interest
      <3>4. a \notin held' /\ table'[f] = a BY <2>3, <1>1
      <3>5. \A g \in Fds : g # f /\ table'[g] # None =>
              /\ ctx'[table'[g]].events = ctx[table[g]].events /\ table'[g] \notin held'
              /\ interest'[g] = interest[g] /\ table'[g] = table[g]
        BY <2>1
      <3>6. \A g \in Fds : g # f /\ table'[g] = None => interest'[g] = None
        BY <2>1, <2>4
      <3> DEFINE Right(g) == LET b == table'[g] IN
                                 /\ b = None \/ b \in held' => interest'[g] = None
                                 /\ b # None => (ctx'[b].events = {} => interest'[g] = None)
                                 /\ b # None /\ b \notin held' /\ ctx'[b].events # {}
                                      => interest'[g] # None
                                         /\ interest'[g] = [events |-> ctx'[b].events, ptr |-> b]
      <3>7. Right(f) BY <2>3, <3>1, <3>2, <3>3, <3>4, <1>2
      <3>8. ASSUME NEW g \in Fds, g # f PROVE Right(g)
        BY <3>8, <2>1, <3>5, <3>6 DEF Registered
      <3> HIDE DEF Right
      <3>9. \A g \in Fds : Right(g) BY <3>7, <3>8
      <3>. QED BY <3>9 DEF Registered, Right
    <2>. QED BY <2>2, <2>3
  <1>14. \A c \in Callers : at'[c].where = "parked" =>
           at'[c] = at[c] /\ \A e \in gone : at[c] # WaitFor("parked", f, e)
    <2>1. \A c \in Callers : at'[c] \in {Now("running"), Now("dropped")} => at'[c].where # "parked"
      BY DEF Now
    <2>2. \A c \in Callers, e \in gone : at'[c] = WaitFor("forgotten", f, e) => at'[c].where # "parked"
      BY DEF WaitFor
    <2>. QED BY <2>1, <2>2
  <1>15. Waiters'
    <2>1. ASSUME NEW c \in Callers, Parked(c)'
          PROVE  LET b == table'[at'[c].fd] IN
                 b # None /\ b \notin held' /\ at'[c].event \in ctx'[b].events
                 /\ c \in ctx'[b].stored[at'[c].event]
      <3>1. at'[c] = at[c] /\ Parked(c) /\ \A e \in gone : at[c] # WaitFor("parked", f, e)
        BY <2>1, <1>14 DEF Parked
      <3>2. PICK g, x : at[c] = WaitFor("parked", g, x) /\ at[c].fd = g /\ at[c].event = x /\ g \in Fds
        BY <3>1, WaitIs
      <3>3. table[g] # None /\ x \in ctx[table[g]].events /\ c \in ctx[table[g]].stored[x]
        BY <3>1, <3>2 DEF Waiters
      <3>4. CASE g = f
        <4>1. x \notin gone /\ x \in events BY <3>1, <3>2, <3>3, <3>4, <1>1
        <4>2. left # {} /\ x \notin E BY <4>1, <1>1
        <4>3. ctx'[a].stored[x] = ctx[a].stored[x] BY <4>1, <4>2, <1>1
        <4>. QED BY <3>1, <3>2, <3>3, <3>4, <4>1, <4>2, <4>3, <1>1, <1>2
      <3>5. CASE g # f
        <4>1. table[g] # a /\ table[g] \in Ctxs /\ table[g] \notin held' BY <3>2, <3>3, <3>5, <1>4
        <4>. QED BY <3>1, <3>2, <3>3, <4>1
      <3>. QED BY <3>4, <3>5
    <2>. QED BY ONLY <2>1 DEF Waiters
  <1>16. count' \in Int /\ CountMatches'
    <2>1. PICK cs : cs = ParkedFor(f, E) OBVIOUS
    <2>2. /\ cs \subseteq Waiting
          /\ \A c \in Callers : c \in cs <=> \E e \in E : at[c] = WaitFor("parked", f, e)
          /\ Cardinality(Waiting \ cs) = Cardinality(Waiting) - Cardinality(E)
      <3>1. \A c \in Callers : c \in cs <=> \E e \in E : at[c] = WaitFor("parked", f, e)
        BY <2>1 DEF ParkedFor
      <3>2. table[f] # None /\ table[f] \notin held /\ E \in SUBSET ctx[table[f]].events BY <1>2
      <3> HIDE DEF IInv
      <3>3. cs \subseteq Waiting /\ Cardinality(Waiting \ cs) = Cardinality(Waiting) - Cardinality(E)
        BY <2>1, <3>2, IInv, WaitersOf
      <3>. QED BY <3>1, <3>3
    <2>3. Waiting' = Waiting \ cs
      <3>1. ASSUME NEW c \in Callers PROVE at'[c].where \in {"parked", "forgotten"}
                                           <=> at[c].where \in {"parked", "forgotten"} /\ c \notin cs
        <4>1. CASE c \in cs
          <5>1. at'[c] \in {Now("running"), Now("dropped")} BY <4>1, <2>2
          <5>. QED BY <4>1, <5>1 DEF Now
        <4>2. CASE \E e \in gone \ E : at[c] = WaitFor("parked", f, e)
          <5>1. PICK e \in gone \ E : at[c] = WaitFor("parked", f, e) BY <4>2
          <5>2. at'[c] = WaitFor("forgotten", f, e) BY <5>1
          <5>3. at'[c].where = "forgotten" /\ at[c].where = "parked" BY <5>1, <5>2 DEF WaitFor
          <5>4. c \notin cs BY <5>1, <2>2, <1>6
          <5>. QED BY <5>3, <5>4
        <4>3. CASE \A e \in gone : at[c] # WaitFor("parked", f, e)
          <5>1. at'[c] = at[c] /\ c \notin cs BY <4>3, <2>2
          <5>. QED BY <5>1
        <4>. QED BY <4>1, <4>2, <4>3, <2>2
      <3>. QED BY <3>1 DEF Waiting
    <2>4. count = Cardinality(Waiting) BY DEF CountMatches, Waiting
    <2>5. count' = Cardinality(Waiting') BY <2>2, <2>3, <2>4
    <2>6. Cardinality(Waiting') \in Nat
      <3>1. Waiting' \in SUBSET Callers /\ IsFiniteSet(Callers) BY DEF Waiting, Alone
      <3>. QED BY <3>1, FS_Subset, FS_CardinalityType
    <2>. QED BY <2>5, <2>6 DEF CountMatches, Waiting
  <1>17. OneEach'
    <2>1. ASSUME NEW c \in Callers, NEW d \in Callers, Parked(c)', at'[c] = at'[d] PROVE c = d
      <3>1. Parked(d)' BY <2>1 DEF Parked
      <3>2. at'[c] = at[c] /\ at'[d] = at[d] /\ Parked(c) BY <2>1, <3>1, <1>14 DEF Parked
      <3>. QED BY <2>1, <3>2 DEF OneEach
    <2>. QED BY <2>1 DEF OneEach
  <1>18. Mixing'
    <2>1. ASSUME Single PROVE Single'
      <3>1. ASSUME NEW b \in Ctxs, NEW e \in Events, NEW c \in ctx'[b].stored[e], NEW d \in ctx'[b].stored[e]
            PROVE  c = d
        <4>1. c \in ctx[b].stored[e] /\ d \in ctx[b].stored[e] BY <3>1
        <4>. QED BY <4>1, <2>1 DEF Single
      <3>. QED BY <3>1 DEF Single
    <2>. QED BY <2>1 DEF Mixing
  <1>. QED BY <1>9, <1>10, <1>11, <1>12, <1>13, <1>15, <1>16, <1>17, <1>18

\* triggerEvent wakes those who wait for the events E, and nobody else; those
\* who wait for the other events of G are forgotten.
LEMMA TriggerIs ==
  ASSUME IInv, Alone,
         NEW f \in Fds, NEW a \in Ctxs, table[f] = a, held = {}, ctx[a].events # {},
         NEW E \in SUBSET ctx[a].events, NEW G \in SUBSET ctx[a].events,
         Trigger(a, E, G), mixed' = mixed
  PROVE  Leaves(f, a, E \cup G, E) /\ Wakes(f, E, G)
  <1> USE DEF IInv
  <1>1. a # None /\ ctx[a] \in FdContext /\ ctx[a].fd = f BY NoneApart DEF Entries, TypeOK
  <1>2. ctx' = [ctx EXCEPT ![a].events = @ \ E] BY DEF Trigger
  <1>3. PICK new : new = [ctx[a] EXCEPT !.events = @ \ E] OBVIOUS
  <1>4. /\ new \in FdContext /\ new.events = ctx[a].events \ E /\ new.fd = f
        /\ new.stored = ctx[a].stored
    BY <1>1, <1>3 DEF FdContext
  <1>5. ctx' = [ctx EXCEPT ![a] = new] BY <1>2, <1>3
  <1>6. ctx' \in [Ctxs -> FdContext] /\ ctx'[a] = new /\ \A b \in Ctxs : b # a => ctx'[b] = ctx[b]
    BY <1>4, <1>5 DEF TypeOK
  <1> DEFINE woken == UNION {ctx[a].stored[e] : e \in E}
             For(c, F) == \E e \in F : at[c] = WaitFor("parked", f, e)
             rightly == {c \in woken : For(c, E)}
  <1>7. \A e \in E : e \in Events /\ \E c \in Callers :
          c \in ctx[a].stored[e] /\ at[c] = WaitFor("parked", f, e)
    BY <1>1 DEF Entries, FdContext
  <1>9. \A c \in Callers : For(c, E) => c \in woken
    <2> SUFFICES ASSUME NEW c \in Callers, NEW e \in E, at[c] = WaitFor("parked", f, e)
                 PROVE  c \in ctx[a].stored[e]
      OBVIOUS
    <2>1. at[c].where = "parked" /\ at[c].fd = f /\ at[c].event = e BY WaitFields
    <2>. QED BY <2>1 DEF Waiters, Parked
  <1>10. \A c \in Callers : c \in rightly <=> For(c, E) BY <1>9
  <1>8. ~mixed => rightly = woken
    <2> SUFFICES ASSUME ~mixed, NEW c \in woken PROVE For(c, E) OBVIOUS
    <2>1. PICK e \in E : c \in ctx[a].stored[e] OBVIOUS
    <2>2. PICK d \in Callers : d \in ctx[a].stored[e] /\ at[d] = WaitFor("parked", f, e) BY <1>7
    <2>3. a \in Ctxs /\ e \in Events BY <1>7
    <2>4. c = d BY <2>1, <2>2, <2>3 DEF Mixing, Single
    <2>. QED BY <2>2, <2>4
  <1>11. /\ at' = [c \in Callers |-> IF c \in rightly THEN Now("running")
                                 ELSE IF For(c, G \ E) THEN Forgotten(c) ELSE at[c]]
         /\ spurious' = (spurious \/ woken # rightly)
    BY <1>1 DEF Trigger, IsParkedFor, WaitFor
  <1> HIDE DEF woken, rightly
  <1>12. mixed \/ spurious' = spurious
    <2>1. spurious' = (spurious \/ woken # rightly) BY <1>11
    <2>2. spurious \in BOOLEAN BY DEF TypeOK
    <2>. QED BY <1>8, <2>1, <2>2
  <1>19. (spurious' => mixed) /\ spurious' \in BOOLEAN
    <2>1. spurious' \in BOOLEAN BY ONLY <1>11
    <2>. QED BY <1>12, <2>1 DEF Mixing
  <1>13. \A s, t, g, h, d, e : WaitFor(s, g, d) = WaitFor(t, h, e) => s = t /\ g = h /\ d = e
    BY DEF WaitFor
  <1>14. ASSUME NEW c \in Callers
         PROVE  /\ (\E e \in E : at[c] = WaitFor("parked", f, e)) => at'[c] \in {Now("running"), Now("dropped")}
                /\ \A e \in (E \cup G) \ E : at[c] = WaitFor("parked", f, e) => at'[c] = WaitFor("forgotten", f, e)
                /\ (\A e \in E \cup G : at[c] # WaitFor("parked", f, e)) => at'[c] = at[c]
    <2>1. at'[c] = IF For(c, E) THEN Now("running") ELSE IF For(c, G \ E) THEN Forgotten(c) ELSE at[c]
      BY <1>10, <1>11
    <2>2. ASSUME NEW e \in (E \cup G) \ E, at[c] = WaitFor("parked", f, e)
          PROVE  at'[c] = WaitFor("forgotten", f, e)
      <3>1. ~For(c, E) BY <2>2, <1>13
      <3>2. For(c, G \ E) BY <2>2
      <3>3. Forgotten(c) = WaitFor("forgotten", f, e) BY <2>2 DEF Forgotten, WaitFor
      <3> HIDE DEF For
      <3>. QED BY <2>1, <3>1, <3>2, <3>3
    <2>3. ASSUME \A e \in E \cup G : at[c] # WaitFor("parked", f, e) PROVE at'[c] = at[c]
      BY <2>1, <2>3
    <2>. QED BY <2>1, <2>2, <2>3
  <1>15. DOMAIN at' = Callers /\ at' = [c \in Callers |-> at'[c]]
    <2> DEFINE F(c) == IF c \in rightly THEN Now("running")
                       ELSE IF For(c, G \ E) THEN Forgotten(c) ELSE at[c]
    <2>1. at' = [c \in Callers |-> F(c)] BY <1>11
    <2> HIDE DEF F
    <2>. QED BY <2>1
  <1>16. /\ ctx'[a].events = ctx[a].events \ E /\ ctx'[a].fd = f
         /\ \A e \in ctx[a].events \ E : ctx'[a].stored[e] = ctx[a].stored[e]
         /\ \A e \in Events : ctx'[a].stored[e] \subseteq ctx[a].stored[e]
    BY <1>4, <1>6
  <1>17. Leaves(f, a, E \cup G, E) BY ONLY <1>6, <1>14, <1>15, <1>16, <1>19, mixed' = mixed DEF Leaves
  <1>18. Wakes(f, E, G) BY <1>10, <1>11 DEF Wakes
  <1>. QED BY <1>17, <1>18

\* delEvent, cancelEvent and cancelAll, once they have found what to take out.
LEMMA WithdrawStep ==
  ASSUME IInv, Alone, NEW w \in Workers, Withdraw(w), pc[w] = "lock" PROVE IInv'
  <1> USE DEF IInv
  <1>0. PICK o, f, a, events : o = op[w] /\ f = o.fd /\ a = o.ptr /\ events = ctx[a].events OBVIOUS
  <1>1. PICK gone, left : gone = Removed(o, events) /\ left = events \ gone OBVIOUS
  <1>2. /\ o \in Op /\ o.kind \in Ops /\ o.kind \in {"del", "cancel", "cancelAll"} /\ f \in Fds
        /\ o.event \in Events /\ a # None /\ table[f] = a /\ a \in Ctxs /\ reports[w] = {} /\ held = {}
    <2>1. o \in Op BY ONLY TypeOK, <1>0 DEF TypeOK
    <2>2. /\ o.fd \in Fds /\ o.event \in Events /\ o.ptr # None /\ table[o.fd] = o.ptr
          /\ reports[w] = {}
      BY ONLY Control, pc[w] = "lock", <1>0 DEF Control
    <2>3. o.kind \in Ops /\ o.kind \in {"del", "cancel", "cancelAll"}
      BY ONLY Withdraw(w), <1>0, IOAssumption DEF Withdraw
    <2>4. o.ptr \in Ctxs BY ONLY TypeOK, <2>2 DEF TypeOK
    <2>5. held = {} BY ONLY Holders, Alone, pc[w] = "lock" DEF Holders, Alone
    <2>. QED BY <1>0, <2>1, <2>2, <2>3, <2>4, <2>5
  <1>3. gone # {} /\ Relax(f, left, a) /\ UNCHANGED <<table, live, reports, mixed>>
    BY <1>0, <1>1 DEF Withdraw
  <1>4. gone \subseteq events /\ events # {} BY <1>1, <1>3 DEF Removed
  <1>5. \/ left = {} /\ pc' = [pc EXCEPT ![w] = "delete"] /\ held' = {a} /\ op' = op
        \/ left # {} /\ pc' = [pc EXCEPT ![w] = "free"] /\ held' = {} /\ op' = [op EXCEPT ![w] = NoOp]
    BY <1>0, <1>1, <1>2 DEF Withdraw, Done, Goto
  <1>6. held' = IF left = {} THEN {a} ELSE {} BY <1>5
  <1>7. PICK E \in SUBSET gone :
          (E # gone => gone = events) /\ Leaves(f, a, gone, E) /\ count' = count - Cardinality(E)
    <2>1. CASE o.kind = "del"
      <3>1. gone = {o.event} /\ o.event \in events BY <2>1, <1>1, <1>3 DEF Removed
      <3>3. ~\E e \in gone \ gone : TRUE OBVIOUS
      <3>4. ctx' = [ctx EXCEPT ![a].events = left, ![a].stored[o.event] = {}]
        BY <2>1, <1>0, <1>1 DEF Withdraw
      <3>5. /\ at' = [c \in Callers |-> IF c \in ctx[a].stored[o.event] /\ at[c] = WaitFor("parked", f, o.event)
                                           THEN Now("dropped") ELSE at[c]]
            /\ count' = count - 1 /\ UNCHANGED spurious
        BY <2>1, <1>0 DEF Withdraw, IsParkedFor, WaitFor
      <3>6. PICK new : new = [ctx[a] EXCEPT !.events = left, !.stored[o.event] = {}] OBVIOUS
      <3>7. ctx[a] \in FdContext /\ ctx[a].fd = f BY <1>0, <1>2, <1>4 DEF TypeOK, Entries
      <3>8. /\ new \in FdContext /\ new.events = left /\ new.fd = f
            /\ \A e \in events \ gone : new.stored[e] = ctx[a].stored[e]
            /\ \A e \in Events : new.stored[e] \subseteq ctx[a].stored[e]
        <4>1. ctx[a].stored \in [Events -> SUBSET Callers] /\ events \subseteq Events
          BY <3>7, <1>0 DEF FdContext
        <4>2. PICK cor : cor = [ctx[a].stored EXCEPT ![o.event] = {}] OBVIOUS
        <4>3. /\ cor \in [Events -> SUBSET Callers] /\ \A e \in Events : e # o.event => cor[e] = ctx[a].stored[e]
              /\ \A e \in Events : cor[e] \subseteq ctx[a].stored[e]
          BY <4>1, <4>2
        <4>4. new = [ctx[a] EXCEPT !.events = left, !.stored = cor] BY <3>6, <4>2
        <4>5. new = [fd |-> f, events |-> left, stored |-> cor] BY <4>4, <3>7 DEF FdContext
        <4>6. left \subseteq Events BY <4>1, <1>1
        <4>7. new \in FdContext BY <4>3, <4>5, <4>6, <1>2 DEF FdContext
        <4>8. new.events = left /\ new.fd = f /\ new.stored = cor BY <4>5
        <4>. QED BY <4>1, <4>3, <4>7, <4>8, <3>1
      <3>9. ctx' = [ctx EXCEPT ![a] = new] BY <3>4, <3>6
      <3>10. ctx' \in [Ctxs -> FdContext] /\ ctx'[a] = new /\ \A b \in Ctxs : b # a => ctx'[b] = ctx[b]
        BY <1>2, <3>8, <3>9 DEF TypeOK
      <3>11. ASSUME NEW c \in Callers
             PROVE  /\ (\E e \in gone : at[c] = WaitFor("parked", f, e)) => at'[c] \in {Now("running"), Now("dropped")}
                    /\ (\A e \in gone : at[c] # WaitFor("parked", f, e)) => at'[c] = at[c]
        <4>1. CASE at[c] = WaitFor("parked", f, o.event)
          <5>1. Parked(c) /\ at[c].fd = f /\ at[c].event = o.event BY <4>1, WaitFields DEF Parked
          <5>2. c \in ctx[a].stored[o.event] BY <5>1, <1>2 DEF Waiters
          <5>3. at'[c] = Now("dropped") BY <4>1, <5>2, <3>5
          <5>. QED BY <4>1, <5>3, <3>1
        <4>2. CASE at[c] # WaitFor("parked", f, o.event)
          <5>1. at'[c] = at[c] BY <4>2, <3>5
          <5>. QED BY <4>2, <5>1, <3>1
        <4>. QED BY <4>1, <4>2
      <3>12. Cardinality(gone) = 1 BY <3>1, FS_Singleton
      <3>13. DOMAIN at' = Callers /\ at' = [c \in Callers |-> at'[c]] BY <3>5
      <3>14. mixed' = mixed /\ (spurious' => mixed) /\ spurious' \in BOOLEAN
        <4>1. spurious \in BOOLEAN BY DEF TypeOK
        <4>2. spurious' \in BOOLEAN BY ONLY <3>5, <4>1
        <4>. QED BY <1>3, <3>5, <4>2 DEF Mixing
      <3>15. count' = count - Cardinality(gone) BY <3>5, <3>12
      <3>16. gone \in SUBSET gone OBVIOUS
      <3>17. /\ ctx'[a].events = ctx[a].events \ gone /\ ctx'[a].fd = f
             /\ \A e \in ctx[a].events \ gone : ctx'[a].stored[e] = ctx[a].stored[e]
             /\ \A e \in Events : ctx'[a].stored[e] \subseteq ctx[a].stored[e]
        BY <1>0, <1>1, <3>8, <3>10
      <3>18. \A e \in gone \ gone : FALSE OBVIOUS
      <3>19. Leaves(f, a, gone, gone)
        BY ONLY <3>10, <3>11, <3>13, <3>14, <3>17, <3>18 DEF Leaves
      <3>. QED BY ONLY <3>15, <3>16, <3>19
    <2>2. CASE o.kind # "del"
      <3>1. PICK E : E = Woken(o, events) OBVIOUS
      <3>2. Trigger(a, E, gone) /\ count' = count - Cardinality(E)
        BY <2>2, <1>0, <1>1, <3>1 DEF Withdraw
      <3>3. E \subseteq gone /\ (E # gone => gone = events)
        BY <2>2, <1>1, <1>2, <1>3, <3>1 DEF Woken, Removed
      <3>4. gone = E \cup gone BY <3>3
      <3>5. E \in SUBSET ctx[a].events /\ gone \in SUBSET ctx[a].events /\ ctx[a].events # {}
        BY <1>0, <1>4, <3>3
      <3>6. Leaves(f, a, E \cup gone, E)
        <4> HIDE DEF IInv
        <4>1. mixed' = mixed BY <1>3
        <4>. QED BY IInv, Alone, <1>2, <3>2, <3>5, <4>1, TriggerIs
      <3>7. E \in SUBSET gone BY <3>3
      <3>. QED BY <3>2, <3>3, <3>4, <3>6, <3>7
    <2>. QED BY <2>1, <2>2
  <1>8. TableStays
    <2>1. gone \in SUBSET ctx[a].events /\ (E # gone => gone = ctx[a].events) BY <1>0, <1>4, <1>7
    <2>2. Relax(f, ctx[a].events \ gone, a) /\ Holds(a, ctx[a].events \ gone = {})
      BY <1>0, <1>1, <1>3, <1>6 DEF Holds
    <2>3. UNCHANGED <<table, live>> BY <1>3
    <2> HIDE DEF IInv
    <2>. QED BY IInv, Alone, <1>2, <1>3, <1>7, <2>1, <2>2, <2>3, TakenOut
  <1>9. TypeOK'
    <2>1. NoOp \in Op BY DEF NoOp, Op
    <2>2. op' \in [Workers -> Op] BY <1>5, <2>1 DEF TypeOK
    <2>3. pc' \in [Workers -> {"free", "lookup", "create", "lock", "delete", "handle"}]
      BY <1>5 DEF TypeOK
    <2>4. held' \in SUBSET Ctxs BY <1>2, <1>6
    <2>5. spurious' \in BOOLEAN /\ mixed' \in BOOLEAN
      <3>1. mixed \in BOOLEAN BY DEF TypeOK
      <3>. QED BY <1>7, <3>1 DEF Leaves
    <2>6. UNCHANGED <<table, live, reports>> BY <1>3
    <2>7. /\ ctx' \in [Ctxs -> FdContext] /\ interest' \in [Fds -> Interest \cup {None}]
          /\ at' \in [Callers -> [where : {"running", "calling", "dropped", "threw"}, fd : {None}, event : {None}]
                      \cup [where : {"parked", "forgotten"}, fd : Fds, event : Events]]
          /\ count' \in Int
      BY <1>8 DEF TableStays
    <2>. QED BY <2>2, <2>3, <2>4, <2>5, <2>6, <2>7 DEF TypeOK
  <1>10. Control' /\ Holders'
    <2>1. NoOp.kind = "wait" BY DEF NoOp
    <2>2. CASE left = {}
      <3>1. pc'[w] = "delete" /\ held' = {a} /\ op'[w] = o /\ reports'[w] = {}
        BY <2>2, <1>0, <1>2, <1>3, <1>5 DEF TypeOK
      <3>2. o.kind # "add" /\ table'[o.fd] = o.ptr BY <1>0, <1>2, <1>3
      <3>. QED BY <3>1, <3>2, <1>0, <1>2 DEF Control, Holders, Alone
    <2>3. CASE left # {}
      <3>1. pc'[w] = "free" /\ held' = {} /\ op'[w] = NoOp /\ reports'[w] = {}
        BY <2>3, <1>2, <1>3, <1>5 DEF TypeOK
      <3>. QED BY <2>1, <3>1 DEF Control, Holders, Alone
    <2>. QED BY <2>2, <2>3
  <1>11. \A v \in Workers : Reported(v)' BY <1>2, <1>3 DEF Reported, Alone
  <1>. QED BY <1>8, <1>9, <1>10, <1>11 DEF TableStays

\* The loop over what epoll_wait has reported.
LEMMA HandleStep ==
  ASSUME IInv, Alone, NEW w \in Workers, Handle(w), pc[w] = "handle" PROVE IInv'
  <1> USE DEF IInv
  <1>1. PICK r \in reports[w] :
          LET a == r.ptr
              f == ctx[a].fd
              left == ctx[a].events \ Real(r)
          IN
          /\ reports' = [reports EXCEPT ![w] = @ \ {r}]
          /\ \/ /\ Goto(w, "handle", "handle")
                /\ UNCHANGED <<ctx, held, interest, count, at, op, mixed, spurious>>
             \/ /\ ctx[a].events \cap Real(r) # {}
                /\ Relax(f, left, a)
                /\ Trigger(a, Real(r), {})
                /\ count' = count - Cardinality(Real(r))
                /\ IF left = {}
                     THEN /\ Goto(w, "handle", "delete") /\ held' = held \cup {a}
                          /\ op' = [op EXCEPT ![w].fd = f, ![w].ptr = a]
                     ELSE Goto(w, "handle", "handle") /\ UNCHANGED <<held, op>>
          /\ UNCHANGED <<table, live, mixed>>
    BY DEF Handle
  <1>2. PICK a, E : a = r.ptr /\ E = Real(r) OBVIOUS
  <1>3. PICK f \in Fds : table[f] = a BY <1>2 DEF Reported
  <1>4. /\ op[w] = NoOp /\ held = {} /\ a # None /\ a \in Ctxs
        /\ ctx[a].events # {} /\ r.events \subseteq ctx[a].events
    BY <1>2, <1>3 DEF Control, Holders, Alone, Reported, TypeOK
  <1>5. ctx[a].fd = f BY <1>3, <1>4 DEF Entries
  <1>6. E \in SUBSET ctx[a].events BY <1>2, <1>4 DEF Real
  <1>7. reports'[w] = reports[w] \ {r} /\ reports' \in [Workers -> SUBSET Report]
    BY <1>1 DEF TypeOK
  <1>8. \A s \in reports'[w] : s \in reports[w] /\ s.ptr # a BY <1>2, <1>7 DEF Reported
  <1>9. CASE Goto(w, "handle", "handle") /\ UNCHANGED <<ctx, held, interest, count, at, op, mixed, spurious>>
    <2>1. UNCHANGED <<table, live, mixed>> BY <1>1
    <2>2. pc' \in [Workers -> {"free", "lookup", "create", "lock", "delete", "handle"}]
          /\ op' \in [Workers -> Op] /\ pc'[w] = "handle"
      BY <1>9 DEF TypeOK, Goto
    <2>3. Control'
      <3>1. op'[w] = NoOp /\ NoOp.kind = "wait" BY <1>4, <1>9 DEF NoOp
      <3>. QED BY <2>2, <3>1 DEF Control, Alone
    <2>4. \A v \in Workers : Reported(v)' BY <1>7, <1>9, <2>1 DEF Reported, Alone
    <2>. QED BY <1>4, <1>7, <1>9, <2>1, <2>2, <2>3, <2>4, QuietStep
  <1>10. CASE /\ ctx[a].events \cap E # {}
              /\ Relax(f, ctx[a].events \ E, a)
              /\ Trigger(a, E, {})
              /\ count' = count - Cardinality(E)
              /\ IF ctx[a].events \ E = {}
                   THEN /\ Goto(w, "handle", "delete") /\ held' = held \cup {a}
                        /\ op' = [op EXCEPT ![w].fd = f, ![w].ptr = a]
                   ELSE Goto(w, "handle", "handle") /\ UNCHANGED <<held, op>>
    <2>1. UNCHANGED <<table, live>> BY <1>1
    <2>2. E # {} /\ E \cup {} = E /\ {} \in SUBSET ctx[a].events /\ E \in SUBSET E BY <1>10
    <2>3. Leaves(f, a, E, E)
      <3> HIDE DEF IInv
      <3>1. Leaves(f, a, E \cup {}, E)
        BY IInv, Alone, <1>1, <1>3, <1>4, <1>6, <1>10, <2>2, TriggerIs
      <3>. QED BY <2>2, <3>1
    <2>4. held' = IF ctx[a].events \ E = {} THEN {a} ELSE {} BY <1>4, <1>10
    <2>5. TableStays
      <3>1. Holds(a, ctx[a].events \ E = {}) BY <2>4 DEF Holds
      <3> HIDE DEF IInv
      <3>. QED BY IInv, Alone, <1>3, <1>4, <1>6, <1>10, <2>1, <2>2, <2>3, <3>1, TakenOut
    <2>6. \/ /\ ctx[a].events \ E = {} /\ pc'[w] = "delete" /\ held' = {a}
             /\ op'[w].fd = f /\ op'[w].ptr = a /\ op'[w].kind = "wait" /\ op'[w] \in Op
          \/ pc'[w] = "handle" /\ held' = {} /\ op'[w] = NoOp
      <3>1. NoOp \in Op /\ NoOp.kind = "wait" BY DEF NoOp, Op
      <3>2. CASE ctx[a].events \ E = {}
        <4>1. pc'[w] = "delete" /\ op' = [op EXCEPT ![w].fd = f, ![w].ptr = a]
          BY <3>2, <1>10 DEF Goto, TypeOK
        <4>2. op'[w] = [NoOp EXCEPT !.fd = f, !.ptr = a] BY <4>1, <1>4 DEF TypeOK
        <4>3. /\ op'[w].fd = f /\ op'[w].ptr = a /\ op'[w].kind = "wait" /\ op'[w] \in Op
          BY <4>2, <1>4 DEF NoOp, Op
        <4>. QED BY <3>2, <4>1, <4>3, <2>4
      <3>3. CASE ctx[a].events \ E # {}
        <4>1. pc'[w] = "handle" /\ op' = op BY <3>3, <1>10 DEF Goto, TypeOK
        <4>. QED BY <3>3, <4>1, <2>4, <1>4
      <3>. QED BY <3>2, <3>3
    <2>7. TypeOK'
      <3>1. NoOp \in Op BY DEF NoOp, Op
      <3>2. op' \in [Workers -> Op]
        <4>1. op' = [v \in Workers |-> op'[v]]
          BY <1>10 DEF TypeOK
        <4>2. \A v \in Workers : op'[v] \in Op BY <2>6, <3>1 DEF Alone
        <4>. QED BY <4>1, <4>2
      <3>3. pc' \in [Workers -> {"free", "lookup", "create", "lock", "delete", "handle"}]
        BY <1>10 DEF TypeOK, Goto
      <3>4. held' \in SUBSET Ctxs BY <1>4, <2>4
      <3>5. spurious' \in BOOLEAN /\ mixed' \in BOOLEAN
        <4>1. mixed \in BOOLEAN BY DEF TypeOK
        <4>. QED BY <2>3, <4>1 DEF Leaves
      <3>6. /\ ctx' \in [Ctxs -> FdContext] /\ interest' \in [Fds -> Interest \cup {None}]
            /\ at' \in [Callers -> [where : {"running", "calling", "dropped", "threw"}, fd : {None}, event : {None}]
                        \cup [where : {"parked", "forgotten"}, fd : Fds, event : Events]]
            /\ count' \in Int
        BY <2>5 DEF TableStays
      <3>. QED BY <1>7, <2>1, <3>2, <3>3, <3>4, <3>5, <3>6 DEF TypeOK
    <2>8. Control' /\ Holders'
      <3>1. NoOp.kind = "wait" BY DEF NoOp
      <3>. QED BY <1>3, <1>4, <2>1, <2>6, <3>1 DEF Control, Holders, Alone
    <2>9. Reported(w)'
      <3>1. ASSUME NEW s \in reports'[w]
            PROVE  /\ \E g \in Fds : table'[g] = s.ptr
                   /\ s.ptr # None /\ s.ptr \notin held'
                   /\ s.events \subseteq ctx'[s.ptr].events /\ ctx'[s.ptr].events # {}
                   /\ s.events = {} => s.hup
        <4>1. s \in reports[w] /\ s.ptr # a BY <1>8
        <4>2. PICK g \in Fds : table[g] = s.ptr BY <4>1 DEF Reported
        <4>3. s.ptr \in Ctxs /\ ctx'[s.ptr] = ctx[s.ptr] BY <4>1, <4>2, <2>3 DEF Reported, TypeOK, Leaves
        <4>. QED BY <4>1, <4>2, <4>3, <2>1, <2>4 DEF Reported
      <3>2. \A s, t \in reports'[w] : s.ptr = t.ptr => s = t BY <1>8 DEF Reported
      <3>. QED BY <3>1, <3>2 DEF Reported
    <2>10. \A v \in Workers : Reported(v)' BY <2>9 DEF Alone
    <2>. QED BY <2>5, <2>7, <2>8, <2>10 DEF TableStays
  <1>. QED BY <1>1, <1>2, <1>5, <1>9, <1>10

-----------------------------------------------------------------------------

LEMMA StepHolds == ASSUME IInv, Alone, [Next]_vars PROVE IInv'
  <1>1. ASSUME NEW w \in Workers, Call(w) PROVE IInv'
    BY <1>1, CallAddStep, CallOtherStep DEF Call
  <1>2. ASSUME NEW w \in Workers, Proceed(w) PROVE IInv'
    <2>1. AddEvent(w) => pc[w] = "lock" BY DEF AddEvent, Done, Goto
    <2>2. Withdraw(w) => pc[w] = "lock" BY DEF Withdraw, Done, Goto
    <2>. QED
      BY <1>2, <2>1, <2>2, LookupStep, CreateStep, AddStep, WithdrawStep,
         WithdrawNothingStep, DeleteStep DEF Proceed
  <1>3. ASSUME NEW w \in Workers, Wait(w) PROVE IInv'
    <2>1. Handle(w) => pc[w] = "handle"
      <3> SUFFICES ASSUME Handle(w) PROVE pc[w] = "handle" OBVIOUS
      <3>1. Goto(w, "handle", "handle") \/ Goto(w, "handle", "delete") BY DEF Handle
      <3>. QED BY <3>1 DEF Goto
    <2>. QED BY <1>3, <2>1, EpollWaitStep, HandleStep, EndWaitStep DEF Wait
  <1>4. CASE UNCHANGED vars
    <2>1. UNCHANGED <<table, live, ctx, held, interest, count, at, pc, op, reports, mixed, spurious>>
      BY <1>4 DEF vars
    <2> USE <2>1 DEF IInv
    <2>2. TypeOK' /\ NoLeak' /\ Entries' /\ Registered' BY DEF TypeOK, NoLeak, Entries, Registered
    <2>3. Waiters' /\ Control' /\ Holders' BY DEF Waiters, Parked, Control, Holders
    <2>6. OneEach' /\ Mixing' BY DEF OneEach, Parked, Mixing, Single
    <2>4. \A w \in Workers : Reported(w)' BY DEF Reported
    <2>5. CountMatches' BY DEF CountMatches
    <2>. QED BY <2>2, <2>3, <2>4, <2>5, <2>6
  <1>. QED BY <1>1, <1>2, <1>3, <1>4 DEF Next, Over

LEMMA Inductive == ASSUME Alone PROVE Spec => []IInv
  <1>1. Init => IInv BY InitHolds
  <1>2. IInv /\ [Next]_vars => IInv' BY StepHolds
  <1>. QED BY <1>1, <1>2, PTL DEF Spec

\* The table, the heap, epoll, the counter and the thread's pointers agree: a
\* context looked up or reported is never freed before it is handled, none
\* leaks, and epoll watches exactly what is registered.
THEOREM SoundTable == ASSUME Alone PROVE Spec => []TableSound
  <1>1. IInv => TableSound
    <2> SUFFICES ASSUME IInv PROVE TableSound OBVIOUS
    <2> USE DEF IInv
    <2>1. LookupStaysValid BY DEF LookupStaysValid, Control, Entries, TypeOK
    <2>2. ASSUME NEW w \in Workers, NEW r \in reports[w] PROVE r.ptr \in live
      <3>1. PICK f \in Fds : table[f] = r.ptr BY DEF Reported
      <3>2. r.ptr # None BY DEF Reported
      <3>. QED BY <3>1, <3>2 DEF Entries
    <2>3. EpollAgrees
      <3> SUFFICES ASSUME NEW f \in Fds, table[f] \notin held
                   PROVE  (IF table[f] = None THEN {} ELSE ctx[table[f]].events)
                            = IF interest[f] = None THEN {} ELSE interest[f].events
        BY DEF EpollAgrees
      <3>1. CASE table[f] = None BY <3>1 DEF Registered
      <3>2. CASE table[f] # None /\ ctx[table[f]].events = {} BY <3>2 DEF Registered
      <3>3. CASE table[f] # None /\ ctx[table[f]].events # {}
        <4>1. PICK a, E : a = table[f] /\ E = ctx[a].events BY <3>3
        <4>2. interest[f] # None /\ interest[f] = [events |-> E, ptr |-> a]
          BY <3>3, <4>1 DEF Registered
        <4>3. interest[f].events = E BY <4>2
        <4>. QED BY <3>3, <4>1, <4>2, <4>3
      <3>. QED BY <3>1, <3>2, <3>3
    <2>. QED BY <2>1, <2>2, <2>3 DEF TableSound, NoDangling
  <1>. QED BY <1>1, Inductive, PTL

\* A parked coroutine is in the table, under what it waits for, and epoll
\* watches that event and would report that very context.
THEOREM NobodyLost == ASSUME Alone PROVE Spec => []NoLostWaiter
  <1>1. IInv => NoLostWaiter
    <2> SUFFICES ASSUME IInv, NEW c \in Callers, Parked(c)
                 PROVE  LET f == at[c].fd
                            e == at[c].event
                            a == table[f]
                        IN  /\ a \in live /\ e \in ctx[a].events /\ c \in ctx[a].stored[e]
                            /\ interest[f] # None /\ interest[f].ptr = a
                            /\ e \in interest[f].events
      BY DEF NoLostWaiter
    <2>0. PICK f, e : f = at[c].fd /\ e = at[c].event OBVIOUS
    <2>1. PICK a : f = at[c].fd /\ e = at[c].event /\ a = table[f] BY <2>0
    <2> USE DEF IInv
    <2>2. f \in Fds /\ a # None /\ a \notin held /\ e \in ctx[a].events /\ c \in ctx[a].stored[e]
      BY <2>1, WaitIs DEF Waiters
    <2>3. a \in live BY <2>1, <2>2 DEF Entries
    <2>4. interest[f] # None /\ interest[f] = [events |-> ctx[a].events, ptr |-> a]
      BY <2>1, <2>2 DEF Registered
    <2>. QED BY <2>1, <2>2, <2>3, <2>4
  <1>. QED BY <1>1, Inductive, PTL

\* Nobody is put on the run queue for a wait he is not parked in, as long as no
\* event has a coroutine and a callback stored at once.
THEOREM NoneWokenTwice == ASSUME Alone PROVE Spec => []NoSpuriousWake
  <1>1. IInv => NoSpuriousWake BY DEF IInv, Mixing, NoSpuriousWake
  <1>. QED BY <1>1, Inductive, PTL

-----------------------------------------------------------------------------
(* The table implements EventService. *)

\* Who waits, as the service sees it, is who is parked.
TheyWait ==
  /\ Waits \in [Fds -> [Events -> Callers \cup {None}]]
  /\ \A f \in Fds, e \in Events, c \in Callers :
        Waits[f][e] = c <=> at[c] = WaitFor("parked", f, e)

LEMMA WhoWaits == IInv => TheyWait
  <1> SUFFICES ASSUME IInv PROVE TheyWait OBVIOUS
  <1> USE DEF IInv
  <1>1. ASSUME NEW f \in Fds, NEW e \in Events
        PROVE  /\ Waits[f][e] \in Callers \cup {None}
               /\ \A c \in Callers : Waits[f][e] = c <=> at[c] = WaitFor("parked", f, e)
    <2>0. \A c \in Callers : c # None BY NoneApart
    <2>1. ASSUME NEW c \in Callers, at[c] = WaitFor("parked", f, e)
          PROVE  /\ table[f] # None /\ table[f] \notin held
                 /\ e \in ctx[table[f]].events /\ c \in ctx[table[f]].stored[e]
      <3>1. at[c].where = "parked" /\ at[c].fd = f /\ at[c].event = e BY <2>1, WaitFields
      <3>. QED BY <3>1 DEF Waiters, Parked
    <2>2. PICK a : a = table[f] OBVIOUS
    <2>6. PICK here : here = IF a = None \/ e \notin ctx[a].events THEN {}
                             ELSE {c \in ctx[a].stored[e] : at[c] = WaitFor("parked", f, e)}
      OBVIOUS
    <2>3. Waits[f][e] = IF here = {} THEN None ELSE CHOOSE c \in here : TRUE
      BY <2>2, <2>6 DEF Waits, IsParkedFor, WaitFor
    <2>7. \A c \in Callers : c \in here <=> at[c] = WaitFor("parked", f, e)
      BY <2>1, <2>2, <2>6
    <2>8. here \subseteq Callers
      <3>1. CASE a = None BY <2>6, <3>1
      <3>2. CASE a # None
        <4>1. ctx[a] \in FdContext BY <2>2, <3>2 DEF TypeOK
        <4>. QED BY <2>6, <4>1 DEF FdContext
      <3>. QED BY <3>1, <3>2
    <2>4. CASE here # {}
      <3>1. PICK k : k = CHOOSE c \in here : TRUE OBVIOUS
      <3>2. k \in here /\ Waits[f][e] = k BY <2>3, <2>4, <3>1
      <3>3. at[k] = WaitFor("parked", f, e) /\ k \in Callers BY <2>7, <2>8, <3>2
      <3>4. \A c \in Callers : at[c] = at[k] => c = k
        BY <3>3, WaitFields DEF OneEach, Parked
      <3>. QED BY <3>2, <3>3, <3>4
    <2>5. CASE here = {}
      <3>1. Waits[f][e] = None BY <2>3, <2>5
      <3>2. \A c \in Callers : at[c] # WaitFor("parked", f, e) BY <2>5, <2>7
      <3>. QED BY <3>1, <3>2, <2>0
    <2>. QED BY <2>4, <2>5
  <1>2. Waits = [f \in Fds |-> [e \in Events |-> Waits[f][e]]] BY DEF Waits
  <1> HIDE DEF Waits
  <1>3. Waits \in [Fds -> [Events -> Callers \cup {None}]] BY <1>1, <1>2
  <1>. QED BY ONLY <1>1, <1>3 DEF TheyWait

\* What the service sees next is determined by who is parked next.
LEMMA Determined ==
  ASSUME TheyWait', NEW V \in [Fds -> [Events -> Callers \cup {None}]],
         \A f \in Fds, e \in Events, c \in Callers :
           V[f][e] = c <=> at'[c] = WaitFor("parked", f, e)
  PROVE  Waits' = V
  <1>1. PICK U : U = Waits' OBVIOUS
  <1>2. U \in [Fds -> [Events -> Callers \cup {None}]] BY <1>1 DEF TheyWait
  <1>3. \A f \in Fds, e \in Events, c \in Callers :
          U[f][e] = c <=> at'[c] = WaitFor("parked", f, e)
    BY <1>1 DEF TheyWait
  <1>4. ASSUME NEW f \in Fds, NEW e \in Events PROVE U[f][e] = V[f][e]
    <2>1. U[f][e] \in Callers \cup {None} /\ V[f][e] \in Callers \cup {None} BY <1>2
    <2>2. \A c \in Callers : U[f][e] = c <=> V[f][e] = c BY <1>3
    <2>. QED BY <2>1, <2>2
  <1>5. \A f \in Fds : U[f] = V[f]
    <2> SUFFICES ASSUME NEW f \in Fds PROVE U[f] = V[f] OBVIOUS
    <2>1. U[f] \in [Events -> Callers \cup {None}] /\ V[f] \in [Events -> Callers \cup {None}] BY <1>2
    <2>. QED BY <2>1, <1>4
  <1>. QED BY <1>1, <1>2, <1>5

\* A step of which the service's callers see nothing.
LEMMA Unseen ==
  ASSUME TheyWait, TheyWait', count' = count,
         \A c \in Callers : \/ at'[c] = at[c]
                            \/ /\ at[c].where \in {"running", "calling", "threw"}
                               /\ at'[c].where \in {"running", "calling", "threw"}
  PROVE  UNCHANGED Service!vars
  <1>1. PICK V : V = Waits OBVIOUS
  <1>2. V \in [Fds -> [Events -> Callers \cup {None}]] BY <1>1 DEF TheyWait
  <1>3. ASSUME NEW f \in Fds, NEW e \in Events, NEW c \in Callers
        PROVE  V[f][e] = c <=> at'[c] = WaitFor("parked", f, e)
    <2>1. V[f][e] = c <=> at[c] = WaitFor("parked", f, e) BY <1>1 DEF TheyWait
    <2>2. WaitFor("parked", f, e).where = "parked" BY WaitFields
    <2>. QED BY <2>1, <2>2
  <1>4. Waits' = Waits BY <1>1, <1>2, <1>3, Determined
  <1>5. Told' = Told BY DEF Told
  <1>. QED BY <1>4, <1>5 DEF Service!vars

\* Waits for the events E of f end, and nothing else changes.
LEMMA WakeServes ==
  ASSUME IInv, TheyWait, TheyWait', NEW f \in Fds, NEW a \in Ctxs, table[f] = a, held = {},
         NEW E \in SUBSET ctx[a].events, E # {}, Wakes(f, E, E), count' = count - Cardinality(E)
  PROVE  Service!Wake(f, E)
  <1>1. PICK V : V = Waits OBVIOUS
  <1>2. /\ V \in [Fds -> [Events -> Callers \cup {None}]]
        /\ \A g \in Fds, d \in Events, c \in Callers : V[g][d] = c <=> at[c] = WaitFor("parked", g, d)
    BY <1>1 DEF TheyWait
  <1>3. a # None /\ E \subseteq Events
    <2>1. a # None /\ ctx[a] \in FdContext BY NoneApart DEF IInv, TypeOK
    <2>. QED BY <2>1 DEF FdContext
  <1>4. \A e \in E : V[f][e] # None
    <2> SUFFICES ASSUME NEW e \in E PROVE V[f][e] # None OBVIOUS
    <2>1. PICK c \in Callers : at[c] = WaitFor("parked", f, e)
      BY <1>3 DEF IInv, Entries
    <2>2. V[f][e] = c BY <1>2, <1>3, <2>1
    <2>. QED BY <2>2, NoneApart
  <1>5. \A c \in Callers : (\E e \in E : at[c] = WaitFor("parked", f, e)) <=> \E e \in E : V[f][e] = c
    BY <1>2, <1>3
  <1>6. \A c \in Callers : at'[c] = IF \E e \in E : V[f][e] = c THEN Now("running") ELSE at[c]
    BY <1>5 DEF Wakes
  <1>7. PICK U : U = [V EXCEPT ![f] = [e \in Events |-> IF e \in E THEN None ELSE @[e]]] OBVIOUS
  <1>8. /\ U \in [Fds -> [Events -> Callers \cup {None}]]
        /\ \A d \in Events : U[f][d] = IF d \in E THEN None ELSE V[f][d]
        /\ \A g \in Fds : g # f => U[g] = V[g]
    BY <1>2, <1>7
  <1>9. ASSUME NEW g \in Fds, NEW d \in Events, NEW c \in Callers
        PROVE  U[g][d] = c <=> at'[c] = WaitFor("parked", g, d)
    <2>1. \A x, y : WaitFor("parked", x, y) # Now("running") BY DEF WaitFor, Now
    <2>2. \A x, y : WaitFor("parked", x, y) = WaitFor("parked", g, d) => x = g /\ y = d
      BY DEF WaitFor
    <2>3. CASE \E e \in E : V[f][e] = c
      <3>1. PICK e \in E : V[f][e] = c BY <2>3
      <3>2. at'[c] # WaitFor("parked", g, d) BY <1>6, <2>1, <2>3
      <3>3. at[c] = WaitFor("parked", f, e) BY <1>2, <1>3, <3>1
      <3>4. V[g][d] = c => g = f /\ d = e BY <1>2, <2>2, <3>3
      <3>5. c # None BY NoneApart
      <3>. QED BY <1>8, <3>2, <3>4, <3>5
    <2>4. CASE ~\E e \in E : V[f][e] = c
      <3>1. at'[c] = at[c] BY <1>6, <2>4
      <3>2. U[g][d] = c <=> V[g][d] = c
        <4>1. c # None BY NoneApart
        <4>2. CASE g = f /\ d \in E BY <1>8, <2>4, <4>1, <4>2
        <4>3. CASE ~(g = f /\ d \in E) BY <1>8, <4>3
        <4>. QED BY <4>2, <4>3
      <3>. QED BY <1>2, <3>1, <3>2
    <2>. QED BY <2>3, <2>4
  <1>10. Waits' = U BY <1>8, <1>9, Determined
  <1>11. Told' = [c \in Callers |-> IF \E e \in E : V[f][e] = c THEN "running" ELSE Told[c]]
    <2>1. Now("running").where = "running" BY DEF Now
    <2>. QED BY <1>6, <2>1 DEF Told
  <1>12. /\ Waits' = [Waits EXCEPT ![f] = [e \in Events |-> IF e \in E THEN None ELSE @[e]]]
         /\ \A e \in E : Waits[f][e] # None
         /\ Told' = [c \in Callers |-> IF \E e \in E : Waits[f][e] = c THEN "running" ELSE Told[c]]
    BY <1>1, <1>4, <1>7, <1>10, <1>11
  <1>13. Service!Cardinality(E) = Cardinality(E) BY DEF Service!Cardinality, Cardinality
  <1>. QED BY <1>12, <1>13 DEF Service!Wake

\* addEvent: a caller starts to wait, or nothing can be told of the call.
LEMMA AddServes ==
  ASSUME IInv, TheyWait, TheyWait', NEW w \in Workers, AddEvent(w)
  PROVE  [Service!Next]_(Service!vars)
  <1>0. PICK f, a, k, e : f = op[w].fd /\ a = op[w].ptr /\ k = op[w].by /\ e = op[w].event
    OBVIOUS
  <1>1. /\ f \in Fds /\ e \in Events /\ k \in Callers /\ at[k] = Now("calling")
        /\ a # None /\ table[f] = a
    BY <1>0 DEF AddEvent, Done, Goto, IInv, Control
  <1>2. ASSUME NEW s \in {"running", "threw"}, at' = [at EXCEPT ![k] = Now(s)], count' = count
        PROVE  UNCHANGED Service!vars
    <2>1. Now(s).where = s /\ at[k].where = "calling" BY <1>1 DEF Now
    <2>2. at'[k] = Now(s) /\ \A c \in Callers : c # k => at'[c] = at[c]
      BY <1>1, <1>2 DEF IInv, TypeOK
    <2>. QED BY <1>2, <2>1, <2>2, Unseen
  <1>3. ASSUME e \notin ctx[a].events, at' = [at EXCEPT ![k] = WaitFor("parked", f, e)],
               count' = count + 1
        PROVE  Service!Wait(k, f, e)
    <2>1. PICK V : V = Waits OBVIOUS
    <2>2. /\ V \in [Fds -> [Events -> Callers \cup {None}]]
          /\ \A g \in Fds, d \in Events, c \in Callers : V[g][d] = c <=> at[c] = WaitFor("parked", g, d)
      BY <2>1 DEF TheyWait
    <2>3. V[f][e] = None BY <1>1, <1>3, <2>1 DEF Waits
    <2>4. at'[k] = WaitFor("parked", f, e) /\ \A c \in Callers : c # k => at'[c] = at[c]
      BY <1>1, <1>3 DEF IInv, TypeOK
    <2>5. PICK U : U = [V EXCEPT ![f][e] = k] OBVIOUS
    <2>6. /\ U \in [Fds -> [Events -> Callers \cup {None}]]
          /\ U[f][e] = k /\ \A g \in Fds, d \in Events : g # f \/ d # e => U[g][d] = V[g][d]
      BY <1>1, <2>2, <2>5
    <2>7. ASSUME NEW g \in Fds, NEW d \in Events, NEW c \in Callers
          PROVE  U[g][d] = c <=> at'[c] = WaitFor("parked", g, d)
      <3>1. WaitFor("parked", f, e) = WaitFor("parked", g, d) => f = g /\ e = d BY DEF WaitFor
      <3>2. at[k] # WaitFor("parked", g, d) BY <1>1 DEF Now, WaitFor
      <3>3. V[g][d] = c <=> at[c] = WaitFor("parked", g, d) BY <2>2
      <3>4. V[f][e] # c BY <2>3, NoneApart
      <3>5. CASE c = k
        <4>1. V[g][d] # k BY <3>2, <3>3, <3>5
        <4>. QED BY <2>4, <2>6, <3>1, <3>5, <4>1
      <3>6. CASE c # k
        <4>1. at'[c] = at[c] BY <2>4, <3>6
        <4>. QED BY <2>6, <3>3, <3>4, <3>6, <4>1
      <3>. QED BY <3>5, <3>6
    <2>8. Waits' = [Waits EXCEPT ![f][e] = k] BY <2>1, <2>5, <2>6, <2>7, Determined
    <2>9. Told[k] = "running" /\ Told' = [Told EXCEPT ![k] = "parked"]
      <3>1. at[k].where = "calling" BY <1>1 DEF Now
      <3>2. at'[k].where = "parked" BY <2>4, WaitFields
      <3>3. Told[k] = "running" BY <1>1, <3>1 DEF Told
      <3>4. \A c \in Callers : Told'[c] = IF c = k THEN "parked" ELSE Told[c]
        BY <2>4, <3>2 DEF Told
      <3>5. Told' = [c \in Callers |-> Told'[c]] /\ Told = [c \in Callers |-> Told[c]] BY DEF Told
      <3>. QED BY <3>3, <3>4, <3>5
    <2>. QED BY <1>3, <2>1, <2>3, <2>8, <2>9 DEF Service!Wait
  <1>4. \/ \E s \in {"running", "threw"} : at' = [at EXCEPT ![k] = Now(s)] /\ count' = count
        \/ /\ e \notin ctx[a].events /\ count' = count + 1
           /\ at' = [at EXCEPT ![k] = WaitFor("parked", f, e)]
    BY <1>0 DEF AddEvent, WaitFor
  <1>. QED BY <1>1, <1>2, <1>3, <1>4 DEF Service!Next

\* delEvent: one wait ends, and its waiter is not told.
LEMMA DelServes ==
  ASSUME IInv, TheyWait, TheyWait', NEW f \in Fds, NEW a \in Ctxs, table[f] = a, held = {},
         NEW e \in ctx[a].events,
         at' = [c \in Callers |-> IF c \in ctx[a].stored[e] /\ IsParkedFor(c, f, e)
                                  THEN Now("dropped") ELSE at[c]],
         count' = count - 1
  PROVE  Service!Withdraw(f, e)
  <1>2. a # None /\ ctx[a] \in FdContext BY NoneApart DEF IInv, TypeOK
  <1>3. e \in Events BY <1>2 DEF FdContext
  <1>4. PICK k \in Callers : k \in ctx[a].stored[e] /\ at[k] = WaitFor("parked", f, e)
    BY <1>2 DEF IInv, Entries
  <1>5. PICK V : V = Waits OBVIOUS
  <1>6. /\ V \in [Fds -> [Events -> Callers \cup {None}]]
        /\ \A g \in Fds, d \in Events, c \in Callers : V[g][d] = c <=> at[c] = WaitFor("parked", g, d)
    BY <1>5 DEF TheyWait
  <1>7. V[f][e] = k /\ k # None BY <1>3, <1>4, <1>6, NoneApart
  <1>1. \A c \in Callers : at[c] = at[k] => c = k
    BY <1>4, WaitFields DEF IInv, OneEach, Parked
  <1>8. at'[k] = Now("dropped") /\ \A c \in Callers : c # k => at'[c] = at[c]
    BY <1>1, <1>4 DEF IsParkedFor, WaitFor
  <1>9. PICK U : U = [V EXCEPT ![f][e] = None] OBVIOUS
  <1>10. /\ U \in [Fds -> [Events -> Callers \cup {None}]]
         /\ U[f][e] = None /\ \A g \in Fds, d \in Events : g # f \/ d # e => U[g][d] = V[g][d]
    BY <1>3, <1>6, <1>9
  <1>11. ASSUME NEW g \in Fds, NEW d \in Events, NEW c \in Callers
         PROVE  U[g][d] = c <=> at'[c] = WaitFor("parked", g, d)
    <2>1. WaitFor("parked", f, e) = WaitFor("parked", g, d) => f = g /\ e = d BY DEF WaitFor
    <2>2. Now("dropped") # WaitFor("parked", g, d) BY DEF Now, WaitFor
    <2>3. V[g][d] = c <=> at[c] = WaitFor("parked", g, d) BY <1>6
    <2>4. c # None BY NoneApart
    <2>5. CASE c = k
      <3>1. U[g][d] # k BY <1>4, <1>10, <2>1, <2>3, <2>4, <2>5
      <3>. QED BY <1>8, <2>2, <2>5, <3>1
    <2>6. CASE c # k
      <3>1. at'[c] = at[c] BY <1>8, <2>6
      <3>2. U[g][d] = c <=> V[g][d] = c BY <1>7, <1>10, <2>4, <2>6
      <3>. QED BY <2>3, <3>1, <3>2
    <2>. QED BY <2>5, <2>6
  <1>12. Waits' = [Waits EXCEPT ![f][e] = None] BY <1>5, <1>9, <1>10, <1>11, Determined
  <1>13. Told' = [Told EXCEPT ![k] = "dropped"]
    <2>1. at'[k].where = "dropped" BY <1>8 DEF Now
    <2>2. \A c \in Callers : Told'[c] = IF c = k THEN "dropped" ELSE Told[c] BY <1>8, <2>1 DEF Told
    <2>3. Told' = [c \in Callers |-> Told'[c]] /\ Told = [c \in Callers |-> Told[c]] BY DEF Told
    <2>. QED BY <2>2, <2>3
  <1>. QED BY <1>5, <1>7, <1>12, <1>13 DEF Service!Withdraw

\* cancelAll of a descriptor somebody waits to write to.
LEMMA CancelAllServes ==
  ASSUME IInv, TheyWait, TheyWait', NEW f \in Fds, NEW a \in Ctxs, table[f] = a, held = {},
         NEW E, E = ctx[a].events \cap {"READ"}, "WRITE" \in ctx[a].events,
         Wakes(f, E, ctx[a].events), count' = count - Cardinality(E)
  PROVE  Service!CancelAll(f)
  <1>1. PICK V : V = Waits OBVIOUS
  <1>2. /\ V \in [Fds -> [Events -> Callers \cup {None}]]
        /\ \A g \in Fds, d \in Events, c \in Callers : V[g][d] = c <=> at[c] = WaitFor("parked", g, d)
    BY <1>1 DEF TheyWait
  <1>3. a # None /\ ctx[a] \in FdContext BY NoneApart DEF IInv, TypeOK
  <1>4. PICK events, reader, writer :
          events = ctx[a].events /\ reader = V[f]["READ"] /\ writer = V[f]["WRITE"]
    OBVIOUS
  <1>5. events \subseteq Events BY <1>3, <1>4 DEF FdContext
  <1>6. \A e \in events : V[f][e] \in Callers
    <2> SUFFICES ASSUME NEW e \in events PROVE V[f][e] \in Callers OBVIOUS
    <2>1. PICK c \in Callers : at[c] = WaitFor("parked", f, e) 
      BY <1>3, <1>4, <1>5 DEF IInv, Entries
    <2>. QED BY <1>2, <1>5, <2>1
  <1>7. writer \in Callers /\ "WRITE" \in events BY <1>4, <1>6
  <1>8. V[f]["READ"] = IF "READ" \in events THEN V[f]["READ"] ELSE None
    <2> SUFFICES ASSUME "READ" \notin events PROVE V[f]["READ"] = None OBVIOUS
    <2>. QED BY <1>1, <1>4 DEF Waits, Events
  <1>9. \A c \in Callers : /\ at[c] = WaitFor("parked", f, "READ") <=> c = reader
                           /\ at[c] = WaitFor("parked", f, "WRITE") <=> c = writer
    BY <1>2, <1>4 DEF Events
  <1>10. \A c \in Callers : c # None BY NoneApart
  <1>11. reader \in Callers => "READ" \in events BY <1>4, <1>8, <1>10
  <1>12. E = events \cap {"READ"} /\ Wakes(f, E, events) BY <1>4
  <1>13. \A c \in Callers :
           at'[c] = IF c = reader THEN Now("running")
                    ELSE IF c = writer THEN Forgotten(c) ELSE at[c]
    <2> SUFFICES ASSUME NEW c \in Callers
                 PROVE  at'[c] = IF c = reader THEN Now("running")
                                 ELSE IF c = writer THEN Forgotten(c) ELSE at[c]
      OBVIOUS
    <2>1. (\E e \in E : at[c] = WaitFor("parked", f, e)) <=> c = reader BY <1>9, <1>11, <1>12
    <2>2. c # reader => ((\E e \in events \ E : at[c] = WaitFor("parked", f, e)) <=> c = writer)
      <3>1. events \ E = {"WRITE"} BY <1>5, <1>7, <1>12 DEF Events
      <3>. QED BY <1>9, <3>1
    <2>. QED BY <1>12, <2>1, <2>2 DEF Wakes
  <1>14. reader # writer \/ reader = None
    <2> SUFFICES ASSUME reader = writer PROVE FALSE OBVIOUS
    <2>1. WaitFor("parked", f, "READ") # WaitFor("parked", f, "WRITE") BY DEF WaitFor
    <2>. QED BY <1>7, <1>9, <2>1
  <1>15. PICK U : U = [V EXCEPT ![f] = [e \in Events |-> None]] OBVIOUS
  <1>16. /\ U \in [Fds -> [Events -> Callers \cup {None}]]
         /\ \A d \in Events : U[f][d] = None
         /\ \A g \in Fds : g # f => U[g] = V[g]
    BY <1>2, <1>15
  <1>17. ASSUME NEW g \in Fds, NEW d \in Events, NEW c \in Callers
         PROVE  U[g][d] = c <=> at'[c] = WaitFor("parked", g, d)
    <2>1. WaitFor("parked", g, d) # Now("running") BY DEF WaitFor, Now
    <2>2. V[g][d] = c <=> at[c] = WaitFor("parked", g, d) BY <1>2
    <2>3. c # None BY <1>10
    <2>4. d = "READ" \/ d = "WRITE" BY DEF Events
    <2>5. \A y : WaitFor("parked", f, y) = WaitFor("parked", g, d) => f = g BY DEF WaitFor
    <2>6. CASE c = reader
      <3>1. at'[c] = Now("running") BY <1>13, <2>6
      <3>2. g # f => V[g][d] # c BY <1>9, <2>2, <2>5, <2>6
      <3>. QED BY <1>16, <2>1, <2>3, <3>1, <3>2
    <2>7. CASE c # reader /\ c = writer
      <3>1. at'[c] = Forgotten(c) BY <1>13, <2>7
      <3>2. at[c] = WaitFor("parked", f, "WRITE") BY <1>9, <2>7
      <3>3. Forgotten(c) = WaitFor("forgotten", f, "WRITE") BY <3>2 DEF Forgotten, WaitFor
      <3>4. at'[c] # WaitFor("parked", g, d) BY <3>1, <3>3 DEF WaitFor
      <3>5. g # f => V[g][d] # c BY <2>2, <2>5, <3>2
      <3>. QED BY <1>16, <2>3, <3>4, <3>5
    <2>8. CASE c # reader /\ c # writer
      <3>1. at'[c] = at[c] BY <1>13, <2>8
      <3>2. g = f => V[g][d] # c BY <1>4, <2>4, <2>8
      <3>. QED BY <1>16, <2>2, <2>3, <3>1, <3>2
    <2>. QED BY <2>6, <2>7, <2>8
  <1>18. Waits' = [Waits EXCEPT ![f] = [e \in Events |-> None]]
    BY <1>1, <1>15, <1>16, <1>17, Determined
  <1>19. Told' = [c \in Callers |-> IF c = reader THEN "running"
                                   ELSE IF c = writer THEN "forgotten" ELSE Told[c]]
    <2>1. Now("running").where = "running" BY DEF Now
    <2>2. Forgotten(writer).where = "forgotten"
      <3>1. at[writer] = WaitFor("parked", f, "WRITE") BY <1>7, <1>9
      <3>. QED BY <3>1 DEF Forgotten, WaitFor
    <2>3. \A c \in Callers : Told'[c] = IF c = reader THEN "running"
                                        ELSE IF c = writer THEN "forgotten" ELSE Told[c]
      BY <1>13, <2>1, <2>2 DEF Told
    <2>4. Told' = [c \in Callers |-> Told'[c]] BY DEF Told
    <2>. QED BY <2>3, <2>4
  <1>20. count' = IF reader = None THEN count ELSE count - 1
    <2>1. CASE "READ" \in events
      <3>1. E = {"READ"} BY <1>12, <2>1
      <3>2. Cardinality(E) = 1 BY <3>1, FS_Singleton
      <3>3. reader # None BY <1>4, <1>6, <1>10, <2>1
      <3>. QED BY <3>2, <3>3
    <2>2. CASE "READ" \notin events
      <3>1. E = {} BY <1>12, <2>2
      <3>2. Cardinality(E) = 0 BY <3>1, FS_EmptySet
      <3>3. reader = None BY <1>4, <1>8, <2>2
      <3>4. count \in Int BY DEF IInv, TypeOK
      <3>. QED BY <3>2, <3>3, <3>4
    <2>. QED BY <2>1, <2>2
  <1>21. Waits[f]["WRITE"] # None BY <1>1, <1>4, <1>7, <1>10
  <1>22. reader = Waits[f]["READ"] /\ writer = Waits[f]["WRITE"] BY <1>1, <1>4
  <1>. QED BY <1>18, <1>19, <1>20, <1>21, <1>22 DEF Service!CancelAll

LEMMA WithdrawServes ==
  ASSUME IInv, Alone, TheyWait, TheyWait', NEW w \in Workers, Withdraw(w)
  PROVE  Service!Next
  <1>1. PICK o, f, a, events, gone :
          /\ o = op[w] /\ f = o.fd /\ a = o.ptr /\ events = ctx[a].events
          /\ gone = Removed(o, events)
    OBVIOUS
  <1>2. /\ pc[w] = "lock" /\ o.kind \in {"del", "cancel", "cancelAll"}
        /\ gone # {} /\ gone \subseteq events
    BY <1>1, IOAssumption DEF Withdraw, Done, Goto, Removed
  <1>3. f \in Fds /\ o.event \in Events /\ a # None /\ table[f] = a /\ a \in Ctxs /\ held = {}
    BY <1>1, <1>2 DEF IInv, Control, Holders, Alone, TypeOK
  <1>4. events \subseteq Events
    <2>1. ctx[a] \in FdContext BY <1>3 DEF IInv, TypeOK
    <2>. QED BY <1>1, <2>1 DEF FdContext
  <1>5. CASE o.kind = "del"
    <2>1. o.event \in events BY <1>2, <1>1, <1>5 DEF Removed
    <2>2. /\ at' = [c \in Callers |-> IF c \in ctx[a].stored[o.event] /\ IsParkedFor(c, f, o.event)
                                       THEN Now("dropped") ELSE at[c]]
          /\ count' = count - 1
      BY <1>1, <1>5 DEF Withdraw
    <2>3. Service!Withdraw(f, o.event) BY <1>1, <1>3, <2>1, <2>2, DelServes
    <2>. QED BY <1>3, <2>3 DEF Service!Next
  <1>6. CASE o.kind # "del"
    <2>1. PICK E : E = Woken(o, events) OBVIOUS
    <2>2. Trigger(a, E, gone) /\ count' = count - Cardinality(E)
      BY <1>1, <1>6, <2>1 DEF Withdraw
    <2>3. E \subseteq gone BY <1>1, <1>2, <1>6, <2>1 DEF Woken, Removed
    <2>4. E \in SUBSET ctx[a].events /\ gone \in SUBSET ctx[a].events /\ ctx[a].events # {}
      BY <1>1, <1>2, <2>3
    <2>8. mixed' = mixed BY DEF Withdraw
    <2>5. Wakes(f, E, gone) BY <1>3, <2>2, <2>4, <2>8, TriggerIs
    <2>6. CASE o.kind = "cancelAll" /\ "WRITE" \in events
      <3>1. gone = ctx[a].events /\ E = ctx[a].events \cap {"READ"}
        BY <1>1, <2>1, <2>6 DEF Removed, Woken
      <3>2. Service!CancelAll(f) BY <1>1, <1>3, <2>2, <2>5, <2>6, <3>1, CancelAllServes
      <3>. QED BY <1>3, <3>2 DEF Service!Next
    <2>7. CASE ~(o.kind = "cancelAll" /\ "WRITE" \in events)
      <3>1. E = gone
        BY <1>1, <1>2, <1>4, <1>6, <2>1, <2>7 DEF Removed, Woken, Events
      <3>2. Service!Wake(f, E) BY <1>2, <1>3, <2>2, <2>4, <2>5, <3>1, WakeServes
      <3>3. E \in SUBSET Events BY <1>1, <1>4, <2>4
      <3>. QED BY <1>3, <3>2, <3>3 DEF Service!Next
    <2>. QED BY <2>6, <2>7
  <1>. QED BY <1>5, <1>6

LEMMA HandleServes ==
  ASSUME IInv, Alone, TheyWait, TheyWait', NEW w \in Workers, Handle(w)
  PROVE  [Service!Next]_(Service!vars)
  <1>0. PICK r \in reports[w] :
          /\ \/ UNCHANGED <<count, at>>
             \/ Trigger(r.ptr, Real(r), {}) /\ count' = count - Cardinality(Real(r))
          /\ pc[w] = "handle"
    BY DEF Handle, Goto
  <1>1. PICK a, f, E :
          /\ a = r.ptr /\ f = ctx[a].fd /\ E = Real(r)
          /\ \/ UNCHANGED <<count, at>>
             \/ Trigger(a, E, {}) /\ count' = count - Cardinality(E)
          /\ pc[w] = "handle"
    BY <1>0
  <1>2. PICK g \in Fds : table[g] = a BY <1>1 DEF IInv, Reported
  <1>3. /\ held = {} /\ a # None /\ a \in Ctxs
        /\ ctx[a].events # {} /\ r.events \subseteq ctx[a].events /\ (r.events = {} => r.hup)
    BY <1>1, <1>2 DEF IInv, Control, Holders, Alone, Reported, TypeOK
  <1>4. f = g BY <1>1, <1>2, <1>3 DEF IInv, Entries
  <1>5. E \in SUBSET ctx[a].events /\ E # {} BY <1>1, <1>3 DEF Real
  <1>6. CASE UNCHANGED <<count, at>> BY <1>6, Unseen
  <1>7. CASE Trigger(a, E, {}) /\ count' = count - Cardinality(E)
    <2>1. {} \in SUBSET ctx[a].events OBVIOUS
    <2>6. mixed' = mixed BY DEF Handle
    <2>2. Wakes(g, E, {}) BY <1>2, <1>3, <1>5, <1>7, <2>1, <2>6, TriggerIs
    <2>3. Wakes(g, E, E) BY <2>2 DEF Wakes
    <2>4. Service!Wake(g, E) BY <1>2, <1>3, <1>5, <1>7, <2>3, WakeServes
    <2>5. E \in SUBSET Events
      <3>1. ctx[a] \in FdContext BY <1>3 DEF IInv, TypeOK
      <3>. QED BY <1>5, <3>1 DEF FdContext
    <2>. QED BY <2>4, <2>5 DEF Service!Next
  <1>. QED BY <1>1, <1>6, <1>7

LEMMA ServiceInit == Init => Service!Init
  <1> SUFFICES ASSUME Init PROVE Service!Init OBVIOUS
  <1>1. Waits = [f \in Fds |-> [e \in Events |-> None]] BY DEF Init, Waits
  <1>2. Told = [c \in Callers |-> "running"] BY DEF Init, Told, Now
  <1>. QED BY <1>1, <1>2 DEF Init, Service!Init

LEMMA ServiceStep ==
  ASSUME IInv, Alone, TheyWait, TheyWait', [Next]_vars
  PROVE  [Service!Next]_(Service!vars)
  <1>1. CASE UNCHANGED <<at, count>> BY <1>1, Unseen
  <1>2. ASSUME NEW w \in Workers, NEW k \in Callers, CallAddEvent(w, k)
        PROVE  [Service!Next]_(Service!vars)
    <2>1. at[k].where = "running" /\ at' = [at EXCEPT ![k] = Now("calling")] /\ count' = count
      BY <1>2 DEF CallAddEvent, Start
    <2>2. at'[k] = Now("calling") /\ \A c \in Callers : c # k => at'[c] = at[c]
      BY <2>1 DEF IInv, TypeOK
    <2>3. at'[k].where = "calling" BY <2>2 DEF Now
    <2>. QED BY <2>1, <2>2, <2>3, Unseen
  <1>3. ASSUME NEW w \in Workers, CallOther(w) PROVE UNCHANGED <<at, count>>
    BY <1>3 DEF CallOther, Start
  <1>4. ASSUME NEW w \in Workers,
               Lookup(w) \/ Create(w) \/ WithdrawNothing(w) \/ DeleteEventCb(w)
        PROVE  UNCHANGED <<at, count>>
    BY <1>4 DEF Lookup, Create, WithdrawNothing, DeleteEventCb
  <1>5. ASSUME NEW w \in Workers, EpollWait(w) \/ EndWait(w) PROVE UNCHANGED <<at, count>>
    BY <1>5 DEF EpollWait, EndWait
  <1>6. ASSUME NEW w \in Workers, Call(w) PROVE [Service!Next]_(Service!vars)
    BY <1>1, <1>2, <1>3, <1>6 DEF Call
  <1>7. ASSUME NEW w \in Workers, Proceed(w) PROVE [Service!Next]_(Service!vars)
    BY <1>1, <1>4, <1>7, AddServes, WithdrawServes DEF Proceed
  <1>8. ASSUME NEW w \in Workers, Wait(w) PROVE [Service!Next]_(Service!vars)
    BY <1>1, <1>5, <1>8, HandleServes DEF Wait
  <1>9. CASE UNCHANGED vars
    <2>1. UNCHANGED <<at, count>> BY <1>9 DEF vars
    <2>. QED BY <1>1, <2>1
  <1>. QED BY <1>6, <1>7, <1>8, <1>9 DEF Next, Over

\* With one thread the table, for all its contexts, epoll calls and locks, is
\* the event service: one wake-up for each wait, and a count of the waits.
THEOREM TableServes == ASSUME Alone PROVE Spec => ImplementsService
  <1>1. IInv => TheyWait BY WhoWaits
  <1>2. IInv' => TheyWait' BY <1>1, PTL
  <1>3. IInv /\ IInv' /\ [Next]_vars => [Service!Next]_(Service!vars)
    BY <1>1, <1>2, ServiceStep
  <1>. QED BY <1>3, ServiceInit, Inductive, PTL DEF Spec, ImplementsService, Service!Spec

=============================================================================
