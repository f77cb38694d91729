----------------------------- MODULE TimerManage -----------------------------
(***************************************************************************)
(* The timers (timer.cc) and the workers that wait for them in             *)
(* IOScheduler::wait.  A critical section of m_rwlock is one step; what    *)
(* the code does before, between and after its critical sections are steps *)
(* of their own.  Time is what is left of each delay.                      *)
(***************************************************************************)
EXTENDS Integers, FiniteSets

CONSTANTS
  Callers,    \* threads and coroutines that use timers
  Workers,    \* workers that poll
  Timers,     \* addresses a Timer can have
  Periods,    \* values of m_ms
  MaxTimeout, \* MAX_TIMEOUT
  IntMax,     \* the greatest int
  MaxLag,     \* bound: the ticks between reading the clock and using it
  None

ASSUME TimerAssumption ==
  /\ Callers \cap Workers = {}
  /\ None \notin Timers
  /\ Periods \subseteq Nat /\ Periods # {}
  /\ MaxTimeout \in Nat /\ IntMax \in Nat /\ MaxTimeout <= IntMax
  /\ MaxLag \in Nat \ {0}

VARIABLES
  timers,   \* m_timers
  ms,       \* m_ms of each timer
  recur,    \* the timers with m_recurr
  left,     \* m_next of each timer, less the time: what is left of its delay
  pc,       \* where each caller and worker is
  val,      \* the timer a caller holds outside the set
  asked,    \* next_timeout of a worker that polls
  until,    \* what is left of its epoll_wait
  late,     \* history: the time between its getNextTimer and this epoll_wait
  lag,      \* how long ago a worker has read the clock
  seen,     \* the worker's epoll_wait has reported the pipe
  edge,     \* the pipe has been written to since it was last reported
  cbs       \* the timers whose callbacks a worker is to add

vars == <<timers, ms, recur, left, pc, val, asked, until, late, lag, seen, edge, cbs>>

Forever == -1   \* a negative timeout of epoll_wait

Floor(d) == IF d < -MaxLag THEN -MaxLag ELSE d   \* no worker is later than MaxLag

\* Who has lost that much has overslept whatever his timeout is and however long
\* a timer has been over: more is not told apart.
MaxLate == MaxTimeout + MaxLag
LoseTime(lost) == IF lost > MaxLate THEN MaxLate ELSE lost

FirstPeriod == CHOOSE p \in Periods : TRUE   \* ms of a timer that is not there

Held   == {val[c] : c \in Callers} \ {None}
Armed  == timers \cup Held

TypeOK ==
  /\ timers \subseteq Timers /\ recur \subseteq Timers
  /\ ms \in [Timers -> Periods]
  /\ left \in [Timers -> Int] /\ \A t \in Timers : left[t] >= -MaxLag
  /\ pc \in [Callers \cup Workers ->
               {"out", "insert", "notify", "idle", "timed", "sleep", "now", "check", "collect", "add"}]
  /\ val \in [Callers -> Timers \cup {None}]
  /\ asked \in [Workers -> Forever..MaxTimeout] /\ until \in [Workers -> Forever..MaxTimeout]
  /\ \A w \in Workers : until[w] <= asked[w] /\ (until[w] = Forever <=> asked[w] = Forever)
  /\ late \in [Workers -> 0..MaxLate]
  /\ lag \in [Workers -> 0..MaxLag]
  /\ seen \subseteq Workers
  /\ edge \in BOOLEAN
  /\ cbs \in [Workers -> SUBSET Timers]

Init ==
  /\ timers = {} /\ recur = {}
  /\ ms = [t \in Timers |-> FirstPeriod]
  /\ left = [t \in Timers |-> 0]
  /\ pc = [x \in Callers \cup Workers |-> IF x \in Callers THEN "out" ELSE "idle"]
  /\ val = [c \in Callers |-> None]
  /\ asked = [w \in Workers |-> 0] /\ until = asked /\ late = asked
  /\ lag = [w \in Workers |-> 0]
  /\ seen = {} /\ edge = FALSE
  /\ cbs = [w \in Workers |-> {}]

Goto(x, from, to) == pc[x] = from /\ pc' = [pc EXCEPT ![x] = to]

-----------------------------------------------------------------------------
(* The operations. *)

\* addTimer(ms, cb, recurring): the new Timer reads the clock, without a lock.
New(c, t, p) ==
  /\ Goto(c, "out", "insert")
  /\ t \notin Armed /\ \A w \in Workers : t \notin cbs[w]
  /\ ms' = [ms EXCEPT ![t] = p]
  /\ left' = [left EXCEPT ![t] = p]
  /\ recur' \in {recur \cup {t}, recur \ {t}}
  /\ val' = [val EXCEPT ![c] = t]
  /\ UNCHANGED <<timers, asked, until, late, lag, seen, edge, cbs>>

\* at_front: the timer precedes all others, or has the same time as the first
\* and a smaller address.
FrontNever(t, front) == ~front   \* mutant: a timer put at the front wakes nobody
AtFront(t, front) ==
  /\ (\A u \in timers : left[u] > left[t]) => front
  /\ (\E u \in timers : left[u] < left[t]) => ~front

\* addTimer(Timer::ptr), up to its notifyTimer().
Insert(c) == \E front \in BOOLEAN :
  /\ Goto(c, "insert", IF front THEN "notify" ELSE "out")
  /\ AtFront(val[c], front)
  /\ timers' = timers \cup {val[c]}
  /\ val' = [val EXCEPT ![c] = None]
  /\ UNCHANGED <<ms, recur, left, asked, until, late, lag, seen, edge, cbs>>

Notify(c) ==
  /\ Goto(c, "notify", "out")
  /\ edge' = TRUE
  /\ UNCHANGED <<timers, ms, recur, left, val, asked, until, late, lag, seen, cbs>>

\* cancelTimer, which returns whether it has found the timer.
CancelTimer(t) ==
  /\ t \in timers
  /\ timers' = timers \ {t} /\ recur' = recur \ {t}
  /\ ms' = [ms EXCEPT ![t] = FirstPeriod] /\ left' = [left EXCEPT ![t] = 0]
  /\ UNCHANGED <<pc, val, asked, until, late, lag, seen, edge, cbs>>

RefreshTimer(t) ==
  /\ t \in timers
  /\ left' = [left EXCEPT ![t] = ms[t]]
  /\ UNCHANGED <<timers, ms, recur, pc, val, asked, until, late, lag, seen, edge, cbs>>

Taken(t) == timers \ {t}

\* resetTimer, up to its addTimer.
ResetTimer(c, t, p, from_now) ==
  /\ p # ms[t] \/ from_now
  /\ t \in timers
  /\ Goto(c, "out", "insert")
  /\ timers' = Taken(t)
  /\ left' = [left EXCEPT ![t] = IF from_now THEN p ELSE Floor(left[t] - ms[t] + p)]
  /\ ms' = [ms EXCEPT ![t] = p]
  /\ val' = [val EXCEPT ![c] = t]
  /\ UNCHANGED <<recur, asked, until, late, lag, seen, edge, cbs>>

-----------------------------------------------------------------------------
(* The workers: IOScheduler::wait, getNextTimer and listExpiredCbs. *)

\* getNextTimer.
NextTimer ==
  LET first == CHOOSE t \in timers : \A u \in timers : left[t] <= left[u]
  IN  IF left[first] > 0 THEN left[first] ELSE 0

\* (int) next_timeout: what does not fit is negative, or begins again at 0.
AsInt(n) == LET m == n % (2 * IntMax + 2) IN IF m > IntMax THEN m - (2 * IntMax + 2) ELSE m

TimeoutNone == Forever   \* mutant: the timers are not asked for
Timeout ==
  IF timers = {} \/ AsInt(NextTimer) > MaxTimeout THEN MaxTimeout
  ELSE IF AsInt(NextTimer) >= 0 THEN AsInt(NextTimer)
  ELSE Forever

GetNextTimer(w) ==
  /\ Goto(w, "idle", "timed")
  /\ asked' = [asked EXCEPT ![w] = Timeout] /\ until' = [until EXCEPT ![w] = Timeout]
  /\ UNCHANGED <<timers, ms, recur, left, val, late, lag, seen, edge, cbs>>

EpollWait(w) ==
  /\ Goto(w, "timed", "sleep")
  /\ UNCHANGED <<timers, ms, recur, left, val, asked, until, late, lag, seen, edge, cbs>>

\* A signal interrupts epoll_wait, and it is called again with the timeout it
\* had at first.
Interrupted(w) ==
  /\ pc[w] = "sleep" /\ until[w] # 0
  /\ until' = [until EXCEPT ![w] = asked[w]]
  /\ late' = [late EXCEPT ![w] = LoseTime(@ + asked[w] - until[w])]
  /\ UNCHANGED <<timers, ms, recur, left, pc, val, asked, lag, seen, edge, cbs>>

Return(w) ==
  /\ Goto(w, "sleep", "now")
  /\ asked' = [asked EXCEPT ![w] = 0] /\ until' = [until EXCEPT ![w] = 0]
  /\ late' = [late EXCEPT ![w] = 0]
  /\ UNCHANGED <<timers, ms, recur, left, val, lag, cbs>>

\* epoll_wait returns: the time is up, or it reports the pipe, which is
\* registered edge-triggered.
Wake(w) ==
  /\ until[w] = 0 \/ edge
  /\ Return(w)
  /\ seen' = IF edge THEN seen \cup {w} ELSE seen
  /\ edge' = FALSE

\* It reports a descriptor.
WakeByEvent(w) == Return(w) /\ UNCHANGED <<seen, edge>>

ReadNow(w) ==
  /\ Goto(w, "now", "check")
  /\ lag' = [lag EXCEPT ![w] = 0]
  /\ UNCHANGED <<timers, ms, recur, left, val, asked, until, late, seen, edge, cbs>>

DueSoon(w) == {t \in timers : left[t] <= 1 - lag[w]}   \* mutant: expires a tick early
Due(w) == {t \in timers : left[t] <= -lag[w]}

\* The look at the first timer under the shared lock.
CheckFirst(w) ==
  /\ Goto(w, "check", IF Due(w) = {} THEN "add" ELSE "collect")
  /\ lag' = [lag EXCEPT ![w] = IF Due(w) = {} THEN 0 ELSE @]
  /\ UNCHANGED <<timers, ms, recur, left, val, asked, until, late, seen, edge, cbs>>

RearmAll(due)  == timers         \* mutant: every timer is put back
Rearm(due) == (timers \ due) \cup (due \cap recur)

Collect(w) == LET due == Due(w) IN
  /\ Goto(w, "collect", "add")
  /\ timers' = Rearm(due)
  /\ left' = [t \in Timers |-> IF t \notin due THEN left[t]
                             ELSE IF t \in recur THEN Floor(ms[t] - lag[w]) ELSE 0]
  /\ ms' = [t \in Timers |-> IF t \in due \ recur THEN FirstPeriod ELSE ms[t]]
  /\ cbs' = [cbs EXCEPT ![w] = due]
  /\ lag' = [lag EXCEPT ![w] = 0]
  /\ UNCHANGED <<recur, val, asked, until, late, seen, edge>>

\* The callbacks become tasks, the pipe is drained if it was reported, and the
\* worker runs tasks until it is idle again.  listExpiredCbs puts as many empty
\* callbacks in front of those it has found, which add() passes over.
AddCbs(w) ==
  /\ Goto(w, "add", "idle")
  /\ cbs' = [cbs EXCEPT ![w] = {}]
  /\ edge' = (edge /\ w \notin seen)
  /\ seen' = seen \ {w}
  /\ UNCHANGED <<timers, ms, recur, left, val, asked, until, late, lag>>

Tick ==
  /\ \A w \in Workers : lag[w] < MaxLag
  /\ left' = [t \in Timers |-> IF t \in Armed THEN Floor(left[t] - 1) ELSE left[t]]
  /\ until' = [w \in Workers |-> IF pc[w] = "sleep" /\ until[w] > 0 THEN until[w] - 1 ELSE until[w]]
  /\ late' = [w \in Workers |-> IF pc[w] = "timed" THEN LoseTime(late[w] + 1) ELSE late[w]]
  /\ lag' = [w \in Workers |-> IF pc[w] \in {"check", "collect"} THEN lag[w] + 1 ELSE 0]
  /\ UNCHANGED <<timers, ms, recur, pc, val, asked, seen, edge, cbs>>

Caller(c) ==
  \/ \E t \in Timers, p \in Periods :
       \/ New(c, t, p)
       \/ \E from_now \in BOOLEAN : ResetTimer(c, t, p, from_now)
  \/ Insert(c) \/ Notify(c)

\* What a worker does once it is in wait().
InWait(w) ==
  EpollWait(w) \/ Wake(w) \/ ReadNow(w) \/ CheckFirst(w) \/ Collect(w) \/ AddCbs(w)

Worker(w) == GetNextTimer(w) \/ InWait(w) \/ WakeByEvent(w) \/ Interrupted(w)

Next ==
  \/ \E c \in Callers : Caller(c)
  \/ \E t \in Timers : CancelTimer(t) \/ RefreshTimer(t)
  \/ \E w \in Workers : Worker(w)
  \/ Tick

Spec == Init /\ [][Next]_vars

\* Threads run, and time passes; no descriptor is promised to wake a worker, and
\* no worker to run out of tasks and poll again.
Fairness ==
  /\ \A c \in Callers : WF_vars(Insert(c) \/ Notify(c))
  /\ \A w \in Workers : WF_vars(InWait(w))
  /\ WF_vars(Tick)

FairSpec == Spec /\ Fairness

-----------------------------------------------------------------------------
(* Properties. *)

\* A timer is in the set, or in the hands of the one caller that is putting it
\* there, never both and never in two hands: nothing can be inserted twice, or
\* changed in the set while the set is ordered by it.
OneHome ==
  /\ \A c \in Callers : val[c] # None <=> pc[c] = "insert"
  /\ \A c \in Callers : val[c] \notin timers
  /\ \A c, d \in Callers : val[c] = val[d] /\ val[c] # None => c = d

\* The workers never all sleep past the first timer by more than the time they
\* lose on the way: unless a notification is there or on its way, or a worker is
\* up, one of them has a timeout that ends no later than the first timer, but for
\* what has passed between its getNextTimer and its epoll_wait, which a signal
\* makes begin anew.
NoOversleep ==
  \/ edge \/ \E c \in Callers : pc[c] = "notify"
  \/ \E w \in Workers :
       \/ pc[w] \notin {"timed", "sleep"}
       \/ until[w] # Forever /\ \A t \in timers : until[w] <= left[t] + late[w] \/ until[w] = 0

\* Callers and workers share the timers without losing one or sleeping past one.
TimersSound == TypeOK /\ OneHome /\ NoOversleep

\* No callback is handed out before the delay of its timer has passed, though
\* the clock is read before the lock is waited for, and timers are refreshed and
\* reset meanwhile.
NeverEarly == [][\A w \in Workers : \A t \in cbs'[w] \ cbs[w] : left[t] <= 0]_vars

\* TimerManage, with its reset timers on their way back, keeps the promises.
Service == INSTANCE TimerService WITH
  armed <- Armed, recurring <- recur, pending <- UNION {cbs[w] : w \in Workers}
ImplementsService == Service!Spec

\* An armed timer expires, unless it is cancelled, refreshed or reset, as long as
\* some worker polls again and again, and is not interrupted by signals for ever:
\* workers that sleep wake in time, and are told of what they do not know of.
PollsOn(w) == []<>(pc[w] # "idle")
SignalsEnd == <>[][\A w \in Workers : ~Interrupted(w)]_vars

Fires == (\E w \in Workers : PollsOn(w)) /\ SignalsEnd =>
  \A t \in Timers :
    t \in timers /\ left[t] <= 0
      ~> t \notin timers \/ left[t] > 0 \/ \E w \in Workers : t \in cbs[w]
=============================================================================
