------------------------------- MODULE Socket -------------------------------
(***************************************************************************)
(* The calls of socket.cc that wait: each tries its system call, and if it *)
(* would block, arms a timer, registers an event, suspends its coroutine   *)
(* and tries again when it is resumed.  What IOScheduler, TimerManage and  *)
(* the workers do about it are steps of their own, as abstract as modules  *)
(* EventService and TimerService have them.                                *)
(***************************************************************************)
EXTENDS Integers, FiniteSets

CONSTANTS
  Users,   \* coroutines, each with the Socket it uses
  Fds,
  Conds,   \* addresses the int of a call's timer can have
  None,
  Ops,     \* the calls that are made
  Ends     \* whether peers close their connections and calls fail for good

Receives == {"accept", "connect", "recv", "recvmsg"}
Sends    == {"send", "sendmsg", "sendto", "sendmsgto"}
Dirs     == {"READ", "WRITE"}

ASSUME SocketAssumption ==
  /\ None \notin Users \cup Fds \cup Conds
  /\ Ops \subseteq Receives \cup Sends
  /\ Ends \in BOOLEAN

VARIABLES
  sock,    \* m_sock of each user's Socket
  op,      \* the call a user is in
  pc,      \* where in it
  timed,   \* the users with a timeout: m_receipttime, m_sendtime are not -1
  t,       \* the int of a user's call, shared with its timer
  result,  \* what the last call has returned
  hit,     \* the ints that are ETIMEDOUT
  timer,   \* what has become of an int's timer
  about,   \* the descriptor and event captured by the timer's callback
  ready,   \* what the kernel would say of a descriptor: "no", "yes" or "end"
  told,    \* the registered events epoll is to report
  waiter,  \* the coroutine of each registered event
  woken    \* the coroutines that are queued to be resumed

user == <<sock, op, pc, timed, t, result>>
clock == <<hit, timer, about>>
kernel == <<ready, told>>
table == <<waiter, woken>>
vars == <<user, clock, kernel, table>>

Keys == Fds \X Dirs
Dir(o) == IF o \in Receives THEN "READ" ELSE "WRITE"
Key(u) == <<sock[u], Dir(op[u])>>

TypeOK ==
  /\ sock \in [Users -> Fds \cup {None}]
  /\ op \in [Users -> Ops \cup {None}]
  /\ pc \in [Users -> {"out", "try", "arm", "add", "suspend", "parked"}]
  /\ timed \subseteq Users
  /\ t \in [Users -> Conds \cup {None}]
  /\ result \in [Users -> {"none", "done", "fail", "timeout"}]
  /\ hit \subseteq Conds
  /\ timer \in [Conds -> {"none", "armed", "expired", "fired"}]
  /\ about \in [Conds -> Keys \cup {None}]
  /\ ready \in [Keys -> {"no", "yes", "end"}]
  /\ told \subseteq Keys
  /\ waiter \in [Keys -> Users \cup {None}]
  /\ woken \subseteq Users

Init ==
  /\ sock = [u \in Users |-> None]
  /\ op = [u \in Users |-> None]
  /\ pc = [u \in Users |-> "out"]
  /\ timed \in SUBSET Users
  /\ t = [u \in Users |-> None]
  /\ result = [u \in Users |-> "none"]
  /\ hit = {}
  /\ timer = [k \in Conds |-> "none"]
  /\ about = [k \in Conds |-> None]
  /\ ready = [k \in Keys |-> "no"]
  /\ told = {}
  /\ waiter = [k \in Keys |-> None]
  /\ woken = {}

Goto(u, from, to) == pc[u] = from /\ pc' = [pc EXCEPT ![u] = to]

Return(u, from, r) ==
  /\ Goto(u, from, "out")
  /\ op' = [op EXCEPT ![u] = None]
  /\ result' = [result EXCEPT ![u] = r]

-----------------------------------------------------------------------------
(* The calls. *)

Call(u, o) ==
  /\ o \in Ops
  /\ Goto(u, "out", "try")
  /\ sock[u] # None
  /\ op' = [op EXCEPT ![u] = o]
  /\ result' = [result EXCEPT ![u] = "none"]
  /\ UNCHANGED <<sock, timed, t, clock, kernel, table>>

Accept(u)    == u \notin timed /\ Call(u, "accept")    \* accept arms no timer
Connect(u)   == Call(u, "connect")
Recv(u)      == Call(u, "recv")
RecvMsg(u)   == Call(u, "recvmsg")
Send(u)      == Call(u, "send")
SendMsg(u)   == Call(u, "sendmsg")
SendTo(u)    == Call(u, "sendto")
SendMsgTo(u) == Call(u, "sendmsgto")

\* A result greater than 0, which connect(2) never has.
Succeeds(u) == ready[Key(u)] = "yes" /\ op[u] # "connect"

Done(u) ==
  /\ Return(u, "try", "done")
  /\ Succeeds(u)
  /\ \E left \in {"no", "yes"} : ready' = [ready EXCEPT ![Key(u)] = left]
  /\ UNCHANGED <<sock, timed, t, told, clock, table>>

\* After a result of 0, and an error other than EWOULDBLOCK, the loop calls again.
Spin(u) ==
  /\ pc[u] = "try" /\ ready[Key(u)] # "no" /\ ~Succeeds(u)
  /\ UNCHANGED vars

WouldBlock(u) ==
  /\ Goto(u, "try", "arm")
  /\ ready[Key(u)] = "no"
  /\ UNCHANGED <<sock, op, timed, t, result, clock, kernel, table>>

StaleInt(k) == hit   \* mutant: the int is not initialised
FreshInt(k) == hit \ {k}

Arm(u) ==
  /\ Goto(u, "arm", "add")
  /\ IF u \in timed
       THEN \E k \in Conds :
              /\ timer[k] = "none" /\ \A v \in Users : t[v] # k
              /\ t' = [t EXCEPT ![u] = k]
              /\ timer' = [timer EXCEPT ![k] = "armed"]
              /\ about' = [about EXCEPT ![k] = Key(u)]
              /\ hit' = FreshInt(k)
       ELSE UNCHANGED <<t, clock>>
  /\ UNCHANGED <<sock, op, timed, result, kernel, table>>

\* cancelTimer(timer), which finds it as long as it has not expired, and the
\* call's int goes out of scope.
CancelTimerNot(u) == timer   \* mutant: the timer is left armed
CancelTimer(u) ==
  [k \in Conds |-> IF k = t[u] /\ timer[k] = "armed" THEN "none" ELSE timer[k]]

Settle(u) ==
  /\ timer' = CancelTimer(u)
  /\ t' = [t EXCEPT ![u] = None]
  /\ UNCHANGED <<hit, about>>

\* epoll_ctl reports at once what is ready already.
ToldLater(k) == told   \* mutant: as if only what becomes ready were reported
ToldNow(k)   == IF ready[k] # "no" THEN told \cup {k} ELSE told \ {k}

AddEvent(u) ==
  /\ Goto(u, "add", "suspend")
  /\ waiter[Key(u)] = None
  /\ waiter' = [waiter EXCEPT ![Key(u)] = u]
  /\ told' = ToldNow(Key(u))
  /\ UNCHANGED <<sock, op, timed, t, result, clock, ready, woken>>

AddEventFails(u) ==
  /\ Return(u, "add", "fail")
  /\ Settle(u)
  /\ UNCHANGED <<sock, timed, kernel, table>>

Suspend(u) ==
  /\ Goto(u, "suspend", "parked")
  /\ UNCHANGED <<sock, op, timed, t, result, clock, kernel, table>>

\* The test of *t after Coroutine::ToSUSPENDED().
TimedOut(u) == t[u] \in hit

Resume(u) ==
  /\ u \in woken
  /\ IF TimedOut(u)
       THEN Return(u, "parked", "timeout")
       ELSE Goto(u, "parked", "try") /\ UNCHANGED <<op, result>>
  /\ Settle(u)
  /\ woken' = woken \ {u}
  /\ UNCHANGED <<sock, timed, kernel, waiter>>

-----------------------------------------------------------------------------
(* Timers, events, the kernel, and sockets that come and go. *)

Expire(k) ==
  /\ timer[k] = "armed"
  /\ timer' = [timer EXCEPT ![k] = "expired"]
  /\ UNCHANGED <<user, hit, about, kernel, table>>

\* The callback up to its cancelEvent: nothing if the call's int is gone.
CallbackBlind(k) == FALSE   \* mutant: nothing but the callback's weak_ptr holds the int
CallbackSees(k)  == \E u \in Users : t[u] = k

Callback(k) ==
  /\ timer[k] = "expired"
  /\ IF CallbackSees(k)
       THEN timer' = [timer EXCEPT ![k] = "fired"] /\ hit' = hit \cup {k}
       ELSE timer' = [timer EXCEPT ![k] = "none"] /\ UNCHANGED hit
  /\ UNCHANGED <<user, about, kernel, table>>

\* triggerEvent: the coroutine is queued and the event is registered no more.
TriggerLost(k) == woken    \* mutant: the coroutine is not queued
Trigger(k) == woken \cup {waiter[k]}

Unregister(k) ==
  /\ woken' = Trigger(k)
  /\ waiter' = [waiter EXCEPT ![k] = None]
  /\ told' = told \ {k}

Registered(k) == waiter[k] # None

CancelEvent(k) ==
  /\ timer[k] = "fired"
  /\ timer' = [timer EXCEPT ![k] = "none"]
  /\ IF Registered(about[k]) THEN Unregister(about[k]) ELSE UNCHANGED <<table, told>>
  /\ UNCHANGED <<user, hit, about, ready>>

Report(k) ==
  /\ k \in told
  /\ waiter[k] # None
  /\ Unregister(k)
  /\ UNCHANGED <<user, clock, ready>>

\* Data or room, or the end of it, arrives at an open descriptor.
Arrive(k, r) ==
  /\ \E u \in Users : sock[u] = k[1]
  /\ r = "end" => Ends
  /\ ready[k] = "no" \/ (ready[k] = "yes" /\ r = "end")
  /\ ready' = [ready EXCEPT ![k] = r]
  /\ told' = IF waiter[k] # None THEN told \cup {k} ELSE told
  /\ UNCHANGED <<user, clock, table>>

Open(u) == \E f \in Fds :
  /\ pc[u] = "out" /\ sock[u] = None
  /\ \A v \in Users : sock[v] # f
  /\ sock' = [sock EXCEPT ![u] = f]
  /\ ready' = [k \in Keys |-> IF k[1] = f THEN "no" ELSE ready[k]]
  /\ UNCHANGED <<op, pc, timed, t, result, told, clock, table>>

Close(u) ==
  /\ pc[u] = "out" /\ sock[u] # None
  /\ sock' = [sock EXCEPT ![u] = None]
  /\ result' = [result EXCEPT ![u] = "none"]
  /\ UNCHANGED <<op, pc, timed, t, clock, kernel, table>>

\* What a user does in a call, with the scheduler that resumes it.
InCall(u) ==
  Done(u) \/ Spin(u) \/ WouldBlock(u) \/ Arm(u) \/ AddEvent(u) \/ Suspend(u) \/ Resume(u)

Timer(k) == Expire(k) \/ Callback(k) \/ CancelEvent(k)

Next ==
  \/ \E u \in Users :
       \/ Open(u) \/ Close(u)
       \/ Accept(u) \/ Connect(u) \/ Recv(u) \/ RecvMsg(u)
       \/ Send(u) \/ SendMsg(u) \/ SendTo(u) \/ SendMsgTo(u)
       \/ InCall(u) \/ AddEventFails(u)
  \/ \E k \in Conds : Timer(k)
  \/ \E k \in Keys : Report(k) \/ Arrive(k, "yes") \/ Arrive(k, "end")

Spec == Init /\ [][Next]_vars

\* Coroutines that can run do, callbacks too, and epoll reports what is ready;
\* no data is promised to arrive.
FairSpec ==
  /\ Spec
  /\ \A u \in Users : WF_vars(InCall(u))
  /\ \A k \in Conds : WF_vars(Timer(k))
  /\ \A k \in Keys : WF_vars(Report(k))

-----------------------------------------------------------------------------
(* Properties. *)

Waiting(u) == pc[u] \in {"suspend", "parked"}

\* A coroutine that suspends, or is about to, can be reached: it is queued, or
\* registered under its own descriptor and event, never both.
Reachable == \A u \in Users :
  Waiting(u) => (u \in woken) # (waiter[Key(u)] = u)

\* What is ready while a coroutine waits for it is going to be reported,
\* though it may have come between the system call and the registration.
NothingMissed == \A k \in Keys :
  waiter[k] # None /\ ready[k] # "no" => k \in told

\* Who waits is woken: every waiter is where the program will find it.
WaitSound == TypeOK /\ Reachable /\ NothingMissed

\* No timer survives its call: one that is armed belongs to a call that waits,
\* so that it cannot cancel an event of the descriptor's next owner.
NoStrayTimer == \A k \in Conds :
  timer[k] = "armed" => \E u \in Users : t[u] = k /\ about[k] = Key(u)

\* Whoever's event a late callback cancels, a call ends in a timeout only if
\* its own timer has expired while it waited.
OwnTimeout == [][\A u \in Users :
  result'[u] = "timeout" /\ result[u] # "timeout" =>
    u \in timed /\ timer[t[u]] # "armed" /\ pc[u] = "parked"]_vars

\* A call whose data has arrived does not stay suspended.
DataReturns == \A u \in Users :
  Waiting(u) /\ ready[Key(u)] = "yes" ~> pc[u] = "try" \/ pc[u] = "out"

\* A call that suspends with its timer still armed is resumed.
TimeoutWakes == \A u \in Users :
  Waiting(u) /\ t[u] # None /\ timer[t[u]] = "armed" ~> ~Waiting(u)

\* tests/echo_server.cc:39 looks at whether recv has got anything: it returns
\* also without data, when the peer has closed the connection.
EndReturns == \A u \in Users :
  op[u] = "recv" /\ ready[Key(u)] = "end" ~> pc[u] = "out"
=============================================================================
