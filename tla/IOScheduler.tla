----------------------------- MODULE IOScheduler -----------------------------
(***************************************************************************)
(* The event table of IOScheduler: addEvent, delEvent, cancelEvent,        *)
(* cancelAll and the part of wait() that handles what epoll reported       *)
(* (ioscheduler.cc).  Contexts are heap cells: they are created, freed and *)
(* their address is used again.  A step is what one thread does between    *)
(* two points where another thread can come in: the release of m_rwmutex   *)
(* after the lookup, and deleteEventCb, which takes m_rwmutex again while  *)
(* the context's own mutex is held.                                        *)
(***************************************************************************)
EXTENDS Integers, FiniteSets

CONSTANTS
  Workers,  \* threads that run coroutines, timer callbacks and wait()
  Fds,      \* descriptors
  Ctxs,     \* addresses an FdContext can have
  Callers,  \* who waits for events: coroutines and callbacks
  Callbacks,\* those of them that are callbacks
  None,
  Ops,      \* which of "del", "cancel", "cancelAll" the program calls
  Fails     \* whether epoll_ctl may fail for a reason of its own

Events == {"READ", "WRITE"}

Interest == [events : SUBSET Events, ptr : Ctxs]

ASSUME IOAssumption ==
  /\ None \notin Ctxs /\ None \notin Callers /\ None \notin Fds /\ None \notin Interest
  /\ Callbacks \subseteq Callers
  /\ Ops \subseteq {"del", "cancel", "cancelAll"}
  /\ Fails \in BOOLEAN

VARIABLES
  table,    \* m_fdContexts
  live,     \* the contexts that are allocated
  ctx,      \* each context's fd, events, and whom it stores for each event
  held,     \* the contexts whose m_mutex is held across a step
  interest, \* what epoll has registered for each descriptor
  count,    \* m_eventConut
  at,       \* where each caller is
  pc, op,   \* what each worker does
  reports,  \* what epoll_wait gave each worker and it has not handled yet
  mixed,    \* history: an event had a coroutine and a callback stored at once
  spurious  \* someone was added to the run queue for a wait he is not in

vars == <<table, live, ctx, held, interest, count, at, pc, op, reports, mixed, spurious>>

\* An EventContext has a place for a coroutine and one for a callback.
FdContext == [fd : Fds \cup {None}, events : SUBSET Events, stored : [Events -> SUBSET Callers]]
NewContext == [fd |-> None, events |-> {}, stored |-> [e \in Events |-> {}]]
Report == [ptr : Ctxs, events : SUBSET Events, hup : BOOLEAN]
Op == [kind : {"add"} \cup Ops \cup {"wait"}, fd : Fds \cup {None},
       event : Events \cup {None}, by : Callers \cup {None}, ptr : Ctxs \cup {None}]
NoOp == [kind |-> "wait", fd |-> None, event |-> None, by |-> None, ptr |-> None]

TypeOK ==
  /\ table \in [Fds -> Ctxs \cup {None}]
  /\ live \in SUBSET Ctxs
  /\ ctx \in [Ctxs -> FdContext]
  /\ held \in SUBSET Ctxs
  /\ interest \in [Fds -> Interest \cup {None}]
  /\ count \in Int
  /\ at \in [Callers -> [where : {"running", "calling", "dropped", "threw"}, fd : {None}, event : {None}]
                   \cup [where : {"parked", "forgotten"}, fd : Fds, event : Events]]
  /\ pc \in [Workers -> {"free", "lookup", "create", "lock", "delete", "handle"}]
  /\ op \in [Workers -> Op]
  /\ reports \in [Workers -> SUBSET Report]
  /\ mixed \in BOOLEAN /\ spurious \in BOOLEAN

Now(s) == [where |-> s, fd |-> None, event |-> None]

Init ==
  /\ table = [f \in Fds |-> None]
  /\ live = {}
  /\ ctx = [a \in Ctxs |-> NewContext]
  /\ held = {}
  /\ interest = [f \in Fds |-> None]
  /\ count = 0
  /\ at = [c \in Callers |-> Now("running")]
  /\ pc = [w \in Workers |-> "free"]
  /\ op = [w \in Workers |-> NoOp]
  /\ reports = [w \in Workers |-> {}]
  /\ mixed = FALSE /\ spurious = FALSE

Goto(w, from, to) ==
  /\ pc[w] = from
  /\ pc' = [pc EXCEPT ![w] = to]

Done(w, from) == Goto(w, from, "free") /\ op' = [op EXCEPT ![w] = NoOp]

-----------------------------------------------------------------------------
(* The start of an operation, and its lookup under the shared m_rwmutex.    *)

Start(w, kind, f, e, c) ==
  /\ Goto(w, "free", "lookup")
  /\ op' = [op EXCEPT ![w] = [kind |-> kind, fd |-> f, event |-> e, by |-> c, ptr |-> None]]
  /\ UNCHANGED <<table, live, ctx, held, interest, count, reports, mixed, spurious>>

\* addEvent is called for a coroutine about to park, or with a callback.
CallAddEvent(w, c) ==
  /\ at[c].where = "running"
  /\ at' = [at EXCEPT ![c] = Now("calling")]
  /\ \E f \in Fds, e \in Events : Start(w, "add", f, e, c)

\* A timer's callback, or whoever else, calls one of the other operations.
CallOther(w) ==
  /\ \E kind \in Ops, f \in Fds, e \in Events : Start(w, kind, f, e, None)
  /\ UNCHANGED at

Lookup(w) == pc[w] = "lookup" /\ LET a == table[op[w].fd] IN
  /\ IF a # None
       THEN Goto(w, "lookup", "lock") /\ op' = [op EXCEPT ![w].ptr = a]
       ELSE IF op[w].kind = "add" THEN Goto(w, "lookup", "create") /\ UNCHANGED op
                                  ELSE Done(w, "lookup")
  /\ UNCHANGED <<table, live, ctx, held, interest, count, at, reports, mixed, spurious>>

\* The shared lock is dropped for the exclusive one, and the table is not
\* looked at again: a context another thread has just put there is replaced.
Create(w) == \E a \in Ctxs \ live :
  /\ Goto(w, "create", "lock")
  /\ live' = live \cup {a}
  /\ ctx' = [ctx EXCEPT ![a] = NewContext]
  /\ table' = [table EXCEPT ![op[w].fd] = a]
  /\ op' = [op EXCEPT ![w].ptr = a]
  /\ UNCHANGED <<held, interest, count, at, reports, mixed, spurious>>

-----------------------------------------------------------------------------
(* epoll_ctl, and triggerEvent. *)

\* ADD of a registered descriptor must fail, MOD and DEL of an unregistered one;
\* any of them may (a closed descriptor, a kind epoll cannot watch, no memory).
MustFail(f, ctl) == IF ctl = "ADD" THEN interest[f] # None ELSE interest[f] = None
MayFail(f, ctl)  == Fails \/ MustFail(f, ctl)

\* Leaves `left` registered, or nothing at all when nothing is left.
RelaxAlways(f, left, a) == interest' = [interest EXCEPT ![f] = None]   \* mutant: always DEL
Relax(f, left, a) ==
  interest' = [interest EXCEPT ![f] = IF left = {} THEN None ELSE [events |-> left, ptr |-> a]]

IsParkedFor(c, f, e) == at[c] = [where |-> "parked", fd |-> f, event |-> e]

Forgotten(c) == [at[c] EXCEPT !.where = "forgotten"]

\* triggerEvent for every event of E: clear the bit and add() the coroutine and
\* the callback stored for it, which both stay stored.  add() of someone who is
\* not in that wait is a second wake-up.  The events of `gone` go with the
\* context: who waits for one of them that is not in E is forgotten.
Trigger(a, E, gone) ==
  LET woken == UNION {ctx[a].stored[e] : e \in E}
      parkedFor(c, F) == \E e \in F : IsParkedFor(c, ctx[a].fd, e)
      rightly == {c \in woken : parkedFor(c, E)}
  IN
  /\ ctx' = [ctx EXCEPT ![a].events = @ \ E]
  /\ at' = [c \in Callers |-> IF c \in rightly THEN Now("running")
                            ELSE IF parkedFor(c, gone \ E) THEN Forgotten(c) ELSE at[c]]
  /\ spurious' = (spurious \/ woken # rightly)

\* The mutex of a context is free.  What a thread does with a context that has
\* been freed is undefined, and not modelled: NoDangling tells when it happens.
Enter(a) == a \in live /\ a \notin held

-----------------------------------------------------------------------------
(* addEvent under the context's mutex. *)

\* The new waiter takes the place of its kind; the other place is left alone.
SameKind(c, d) == c \in Callbacks <=> d \in Callbacks
Store(places, c) == {d \in places : ~SameKind(c, d)} \cup {c}

AddEvent(w) ==
  LET o == op[w]
      a == o.ptr
      before == ctx[a].events
      ctl == IF before = {} THEN "ADD" ELSE "MOD"
      stores == Store(ctx[a].stored[o.event], o.by)
  IN
  /\ o.kind = "add" /\ Enter(a)
  /\ Done(w, "lock")
  /\ \/ /\ o.event \in before               \* throws invalid_argument
        /\ ctx' = [ctx EXCEPT ![a].fd = o.fd]
        /\ at' = [at EXCEPT ![o.by] = Now("threw")]
        /\ UNCHANGED <<interest, count, mixed>>
     \/ /\ o.event \notin before /\ MayFail(o.fd, ctl)
        /\ ctx' = [ctx EXCEPT ![a].fd = o.fd]
        /\ at' = [at EXCEPT ![o.by] = Now("running")]
        /\ UNCHANGED <<interest, count, mixed>>
     \/ /\ o.event \notin before /\ ~MustFail(o.fd, ctl)
        /\ interest' = [interest EXCEPT ![o.fd] = [events |-> before \cup {o.event}, ptr |-> a]]
        /\ ctx' = [ctx EXCEPT ![a] = [fd |-> o.fd, events |-> before \cup {o.event},
                      stored |-> [ctx[a].stored EXCEPT ![o.event] = stores]]]
        /\ mixed' = (mixed \/ stores # {o.by})
        /\ count' = count + 1
        /\ at' = [at EXCEPT ![o.by] = [where |-> "parked", fd |-> o.fd, event |-> o.event]]
  /\ UNCHANGED <<table, live, held, reports, spurious>>

-----------------------------------------------------------------------------
(* delEvent, cancelEvent and cancelAll under the context's mutex.           *)

\* What an operation takes out of the context, and what it wakes: cancelAll
\* tests READ twice and never WRITE.
Removed(o, events) == IF o.kind = "cancelAll" THEN events ELSE events \cap {o.event}
WokenBoth(o, events) ==              \* mutant: cancel triggers both events
  IF o.kind = "cancel" THEN Events ELSE {}
WokenNone(o, events) == {}           \* mutant: cancel triggers none
Woken(o, events)   == CASE o.kind = "cancel"    -> {o.event}
                        [] o.kind = "cancelAll" -> events \cap {"READ"}
                        [] OTHER                -> {}

Withdraw(w) ==
  LET o == op[w]
      a == o.ptr
      gone == Removed(o, ctx[a].events)
      left == ctx[a].events \ gone
  IN
  /\ o.kind \in Ops /\ Enter(a)
  /\ gone # {} /\ ~MustFail(o.fd, "DEL")
  /\ Relax(o.fd, left, a)
  /\ IF o.kind = "del"
       THEN /\ ctx' = [ctx EXCEPT ![a].events = left, ![a].stored[o.event] = {}]
            /\ at' = [c \in Callers |-> IF c \in ctx[a].stored[o.event] /\ IsParkedFor(c, o.fd, o.event)
                                         THEN Now("dropped") ELSE at[c]]
            /\ count' = count - 1
            /\ UNCHANGED spurious
       ELSE /\ Trigger(a, Woken(o, ctx[a].events), gone)
            /\ count' = count - Cardinality(Woken(o, ctx[a].events))
  /\ IF left = {} THEN Goto(w, "lock", "delete") /\ held' = held \cup {a} /\ UNCHANGED op
                  ELSE Done(w, "lock") /\ UNCHANGED held
  /\ UNCHANGED <<table, live, reports, mixed>>

\* The event is not registered, or epoll_ctl fails: return false.
WithdrawNothing(w) ==
  LET o == op[w] IN
  /\ o.kind \in Ops /\ Enter(o.ptr)
  /\ Removed(o, ctx[o.ptr].events) = {} \/ MayFail(o.fd, "DEL")
  /\ Done(w, "lock")
  /\ UNCHANGED <<table, live, ctx, held, interest, count, at, reports, mixed, spurious>>

\* What deleteEventCb does to the table and the heap.
FreeKeepingEntry(f) == live' = live \ {table[f]} /\ UNCHANGED table   \* mutant: no erase
FreeEntry(f) == live' = live \ {table[f]} /\ table' = [table EXCEPT ![f] = None]

\* It frees whatever context the table has for the descriptor now, with the
\* caller still in the critical section of its own.
DeleteEventCb(w) ==
  LET o == op[w] IN
  /\ IF o.kind = "wait" THEN Goto(w, "delete", "handle") /\ op' = [op EXCEPT ![w] = NoOp]
                        ELSE Done(w, "delete")
  /\ FreeEntry(o.fd)
  /\ held' = held \ {o.ptr}
  /\ UNCHANGED <<ctx, interest, count, at, reports, mixed, spurious>>

-----------------------------------------------------------------------------
(* wait(): epoll_wait and the loop over its results. *)

EpollWait(w) ==
  /\ Goto(w, "free", "handle")
  /\ \E F \in SUBSET {f \in Fds : interest[f] # None} :
       /\ F # {}
       /\ \E ev \in [F -> SUBSET Events], hup \in [F -> BOOLEAN] :
            /\ \A f \in F : ev[f] \subseteq interest[f].events /\ (ev[f] = {} => hup[f])
            /\ reports' = [reports EXCEPT ![w] =
                 {[ptr |-> interest[f].ptr, events |-> ev[f], hup |-> hup[f]] : f \in F}]
  /\ UNCHANGED <<table, live, ctx, held, interest, count, at, op, mixed, spurious>>

\* The events to handle: an error or a hang-up stands for all that is registered.
Real(r) == r.events \cup (IF r.hup THEN ctx[r.ptr].events ELSE {})

\* Triggers and counts every event reported, registered still or not.
Handle(w) == \E r \in reports[w] :
  LET a == r.ptr
      f == ctx[a].fd
      left == ctx[a].events \ Real(r)
  IN
  /\ Enter(a)
  /\ reports' = [reports EXCEPT ![w] = @ \ {r}]
  /\ \/ /\ ctx[a].events \cap Real(r) = {} \/ MayFail(f, "DEL")
        /\ Goto(w, "handle", "handle")
        /\ UNCHANGED <<ctx, held, interest, count, at, op, mixed, spurious>>
     \/ /\ ctx[a].events \cap Real(r) # {} /\ ~MustFail(f, "DEL")
        /\ Relax(f, left, a)
        /\ Trigger(a, Real(r), {})
        /\ count' = count - Cardinality(Real(r))
        /\ IF left = {}
             THEN /\ Goto(w, "handle", "delete") /\ held' = held \cup {a}
                  /\ op' = [op EXCEPT ![w].fd = f, ![w].ptr = a]
             ELSE Goto(w, "handle", "handle") /\ UNCHANGED <<held, op>>
  /\ UNCHANGED <<table, live, mixed>>

EndWait(w) ==
  /\ reports[w] = {}
  /\ Done(w, "handle")
  /\ UNCHANGED <<table, live, ctx, held, interest, count, at, reports, mixed, spurious>>

-----------------------------------------------------------------------------

Call(w)    == (\E c \in Callers : CallAddEvent(w, c)) \/ CallOther(w)
Proceed(w) == Lookup(w) \/ Create(w) \/ AddEvent(w) \/ Withdraw(w) \/ WithdrawNothing(w)
                \/ DeleteEventCb(w)
Wait(w)    == EpollWait(w) \/ Handle(w) \/ EndWait(w)

\* What becomes of a program in which someone was woken for a wait he is not in
\* depends on where he is by then: the behaviours of this module end there.
Over == spurious /\ UNCHANGED vars

Next == \/ ~spurious /\ \E w \in Workers : Call(w) \/ Proceed(w) \/ Wait(w)
        \/ Over

Spec == Init /\ [][Next]_vars

-----------------------------------------------------------------------------
(* Properties. *)

Parked(c) == at[c].where = "parked"

\* The context that a thread found in the table still exists when the thread
\* gets to its mutex: nobody frees it in between.
LookupStaysValid == \A w \in Workers : pc[w] = "lock" => op[w].ptr \in live

\* Nor is a context freed that epoll has reported to a thread and the thread
\* has yet to handle.
NoDangling == LookupStaysValid /\ \A w \in Workers : \A r \in reports[w] : r.ptr \in live

\* A parked waiter is in the table, under the descriptor and event it waits
\* for, and epoll watches that event and would report that very context; the
\* exception is who waits to write to a descriptor that cancelAll is called for.
NoLostWaiter == \A c \in Callers : Parked(c) =>
  LET f == at[c].fd
      e == at[c].event
      a == table[f]
  IN  /\ a \in live /\ e \in ctx[a].events /\ c \in ctx[a].stored[e]
      /\ interest[f] # None /\ interest[f].ptr = a /\ e \in interest[f].events

\* A waiter is put on the run queue only for the wait it is parked in, as long
\* as no event gets a callback while a coroutine is still stored for it, or the
\* other way round: then the pointer that a context keeps after its event was
\* triggered is overwritten before the event can be triggered again.
NoSpuriousWake == spurious => mixed

\* m_eventConut, which is_stop reads, is the number of coroutines that have not
\* come back from their wait.
CountMatches == count = Cardinality({c \in Callers : at[c].where \in {"parked", "forgotten"}})

\* Every allocated context is in the table, once, and nothing else is.
NoLeak == /\ live = {table[f] : f \in Fds} \ {None}
          /\ \A f, g \in Fds : f # g /\ table[f] # None => table[f] # table[g]

\* What epoll watches is what the context has registered, no more and no less,
\* so no report is without a taker and no descriptor stays in epoll for ever;
\* except while an operation that emptied the context goes on to free it.
EpollAgrees == \A f \in Fds : table[f] \notin held =>
  LET registered == IF table[f] = None THEN {} ELSE ctx[table[f]].events
  IN  registered = IF interest[f] = None THEN {} ELSE interest[f].events

\* The five views of what is registered (the table, the heap, epoll, the counter
\* and the threads' pointers) agree.
TableSound == TypeOK /\ NoDangling /\ CountMatches /\ NoLeak /\ EpollAgrees

\* Who waits for an event, but for those whom cancelAll has left behind.
Waits == [f \in Fds |-> [e \in Events |->
            LET here == IF table[f] = None \/ e \notin ctx[table[f]].events THEN {}
                        ELSE {c \in ctx[table[f]].stored[e] : IsParkedFor(c, f, e)}
            IN  IF here = {} THEN None ELSE CHOOSE c \in here : TRUE]]

\* What a coroutine can tell of its own wait.
Told == [c \in Callers |-> IF at[c].where \in {"parked", "dropped", "forgotten"}
                            THEN at[c].where ELSE "running"]

\* The table implements the abstract event service.
Service == INSTANCE EventService WITH waiting <- Waits, at <- Told

ImplementsService == Service!Spec
=============================================================================
