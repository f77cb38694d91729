---------------------------- MODULE CorScheduler ----------------------------
(***************************************************************************)
(* The coroutine scheduler of ttw: CorScheduler::run's worker loop, the    *)
(* life of a Coroutine, and the idle coroutine that IOScheduler::wait runs *)
(* on each worker (corscheduler.cc, coroutine.cc, ioscheduler.cc).         *)
(*                                                                         *)
(* Where a parked coroutine gets its wake-up from is abstracted to wake[c]:*)
(* an armed timer (Coroutine::sleep) or a registered fd event (addEvent).  *)
(* The event table itself is module IOScheduler, the timer list module     *)
(* TimerManage.  A task of the run queue is a coroutine of the program     *)
(* (<<c, "main">>) or the coroutine that wraps an expired timer's callback,*)
(* whose whole body is scheduler->run(c) (<<c, "waker">>).                 *)
(***************************************************************************)
EXTENDS Naturals, Sequences

CONSTANTS
  Workers,    \* the threads of m_threads
  Ext,        \* a thread outside the scheduler that calls run()
  Cors,       \* the coroutines the program creates
  None,       \* cor == nullptr
  StopFlag,   \* IOScheduler::m_stop, as the constructor set it
  PipeCap     \* bytes the notification pipe holds

ASSUME SchedulerAssumption ==
  /\ Ext \notin Workers
  /\ StopFlag \in BOOLEAN
  /\ PipeCap \in Nat \ {0}
  /\ None \notin Cors \X {"main", "waker"}

Threads == Workers \cup {Ext}
Tasks   == Cors \X {"main", "waker"}
Main(c)  == <<c, "main">>
Waker(c) == <<c, "waker">>

Finished == {"FINIAH", "EXCEPT"}
CoState  == {"NONE", "INIT", "READY", "RUNNING", "SUSPENDED"} \cup Finished

VARIABLES
  coroutines, \* m_coroutines, the run queue
  state,      \* m_state of each coroutine; "NONE" before it is created
  wake,       \* the armed wake-up of each coroutine
  pc, after,  \* where each thread is, and where it goes after notifyCor()
  cor,        \* run()'s local cor: the task a worker holds
  idle,       \* m_state of each worker's idle coroutine
  todo,       \* what wait() still has to add(), per worker
  pipe,       \* unread bytes of the notification pipe, at most PipeCap
  exited      \* a finished context was resumed: the process is gone

vars == <<coroutines, state, wake, pc, after, cor, idle, todo, pipe, exited>>

PC == {"scan", "notify", "resume", "body", "suspend", "swapout", "back",
       "wait", "epoll", "dispatch", "out"}

TypeOK ==
  /\ coroutines \in Seq(Tasks)
  /\ state \in [Cors -> CoState]
  /\ wake \in [Cors -> {"none", "timer", "event"}]
  /\ pc \in [Threads -> PC]
  /\ after \in [Threads -> PC \ {"notify"}]
  /\ cor \in [Workers -> Tasks \cup {None}]
  /\ idle \in [Workers -> {"INIT", "RUNNING", "SUSPENDED", "FINIAH"}]
  /\ todo \in [Workers -> SUBSET Tasks]
  /\ pipe \in 0..PipeCap
  /\ exited \in BOOLEAN

Init ==
  /\ coroutines = <<>>
  /\ state = [c \in Cors |-> "NONE"]
  /\ wake = [c \in Cors |-> "none"]
  /\ pc = [t \in Threads |-> IF t = Ext THEN "out" ELSE "scan"]
  /\ after = [t \in Threads |-> IF t = Ext THEN "out" ELSE "scan"]
  /\ cor = [w \in Workers |-> None]
  /\ idle = [w \in Workers |-> "INIT"]
  /\ todo = [w \in Workers |-> {}]
  /\ pipe = 0
  /\ exited = FALSE

Goto(t, from, to) ==
  /\ ~exited
  /\ pc[t] = from
  /\ pc' = [pc EXCEPT ![t] = to]

\* add() up to its notifyCor(): push under m_mutex, notify outside of it.
Add(t, from, task, next) ==
  /\ Goto(t, from, "notify")
  /\ coroutines' = Append(coroutines, task)
  /\ after' = [after EXCEPT ![t] = next]

\* notify(): one byte into the pipe, whose write end is a blocking descriptor:
\* a thread that finds the pipe full waits here until a worker has read it.
Notify(t) ==
  /\ Goto(t, "notify", after[t])
  /\ pipe < PipeCap
  /\ pipe' = pipe + 1
  /\ UNCHANGED <<coroutines, state, wake, after, cor, idle, todo, exited>>

\* run(cb) from a thread that is no worker.
ExternalRun(c) ==
  /\ state[c] = "NONE"
  /\ state' = [state EXCEPT ![c] = "INIT"]
  /\ Add(Ext, "out", Main(c), "out")
  /\ UNCHANGED <<wake, cor, idle, todo, pipe, exited>>

-----------------------------------------------------------------------------
(* The worker loop. *)

\* The scan passes over a coroutine that some worker still runs.
EligibleAlways(task) == TRUE   \* mutant: the test of the state is missing
EligibleFresh(task) ==         \* mutant: it passes over suspended ones too
  task[2] = "main" => state[task[1]] \notin {"RUNNING", "SUSPENDED"}
Eligible(task) == task[2] = "main" => state[task[1]] # "RUNNING"

FirstEligible(i) ==
  /\ i \in 1..Len(coroutines)
  /\ Eligible(coroutines[i])
  /\ \A j \in 1..(i - 1) : ~Eligible(coroutines[j])

Erase(seq, i) == [j \in 1..(Len(seq) - 1) |-> IF j < i THEN seq[j] ELSE seq[j + 1]]

\* After the erase `it` is never end(), so a worker that found work notifies.
Take(w) ==
  /\ Goto(w, "scan", "notify")
  /\ \E i \in 1..Len(coroutines) :
       /\ FirstEligible(i)
       /\ cor' = [cor EXCEPT ![w] = coroutines[i]]
       /\ coroutines' = Erase(coroutines, i)
  /\ after' = [after EXCEPT ![w] = "resume"]
  /\ UNCHANGED <<state, wake, idle, todo, pipe, exited>>

\* Coroutine::swapIn of the task taken; a finished one is dropped.
Resume(w) == pc[w] = "resume" /\ LET c == cor[w][1] IN
  /\ IF cor[w][2] = "main" /\ state[c] \in Finished
       THEN Goto(w, "resume", "scan") /\ cor' = [cor EXCEPT ![w] = None]
            /\ UNCHANGED state
       ELSE /\ Goto(w, "resume", "body")
            /\ state' = IF cor[w][2] = "main"
                          THEN [state EXCEPT ![c] = "RUNNING"] ELSE state
            /\ UNCHANGED cor
  /\ UNCHANGED <<coroutines, wake, after, idle, todo, pipe, exited>>

\* What run() makes of a coroutine that has swapped out: queue it again, or,
\* unless it has come to its end, call it SUSPENDED.
RequeuesAll(c)  == state[c] \notin Finished   \* mutant: not only a READY one
RequeuesNone(c) == FALSE                      \* mutant: ToReady is forgotten
Requeues(c)     == state[c] = "READY"
EndsNever(c)    == FALSE                      \* mutant: a finished one is suspended too
Ends(c)         == state[c] \in Finished

Back(w) == pc[w] = "back" /\ LET c == cor[w][1] IN
  /\ cor' = [cor EXCEPT ![w] = None]
  /\ IF cor[w][2] = "main" /\ Requeues(c)
       THEN /\ Add(w, "back", cor[w], "scan")
            /\ UNCHANGED state
       ELSE /\ Goto(w, "back", "scan")
            /\ state' = IF cor[w][2] = "main" /\ ~Ends(c)
                          THEN [state EXCEPT ![c] = "SUSPENDED"] ELSE state
            /\ UNCHANGED <<coroutines, after>>
  /\ UNCHANGED <<wake, idle, todo, pipe, exited>>

-----------------------------------------------------------------------------
(* What a coroutine does while it runs.  It arms at most one wake-up before *)
(* it parks, as every caller in ttw does.                                   *)

Runs(w, c) == pc[w] = "body" /\ cor[w] = Main(c)

\* Coroutine::sleep: addTimer, which notifies when the timer is the earliest.
Sleep(w) == \E c \in Cors :
  /\ Runs(w, c)
  /\ wake' = [wake EXCEPT ![c] = "timer"]
  /\ \E first \in BOOLEAN :
       Goto(w, "body", IF first THEN "notify" ELSE "suspend")
  /\ after' = [after EXCEPT ![w] = "suspend"]
  /\ UNCHANGED <<coroutines, state, cor, idle, todo, pipe, exited>>

\* A socket operation that would block: addEvent for this coroutine.
AddEvent(w) == \E c \in Cors :
  /\ Runs(w, c)
  /\ Goto(w, "body", "suspend")
  /\ wake' = [wake EXCEPT ![c] = "event"]
  /\ UNCHANGED <<coroutines, state, after, cor, idle, todo, pipe, exited>>

\* Coroutine::ToSUSPENDED: the state stays RUNNING until the worker is back.
ToSUSPENDED(w) ==
  /\ Goto(w, "suspend", "back")
  /\ UNCHANGED <<coroutines, state, wake, after, cor, idle, todo, pipe, exited>>

\* Coroutine::ToReady, and the end of Coroutine::Mian: the new state is
\* visible to the other workers before the context is saved.
LeaveAs(w, s) == \E c \in Cors :
  /\ Runs(w, c)
  /\ Goto(w, "body", "swapout")
  /\ state' = [state EXCEPT ![c] = s]
  /\ UNCHANGED <<coroutines, wake, after, cor, idle, todo, pipe, exited>>

ToReady(w) == LeaveAs(w, "READY")
Mian(w)    == \E s \in Finished : LeaveAs(w, s)

SwapOut(w) ==
  /\ Goto(w, "swapout", "back")
  /\ UNCHANGED <<coroutines, state, wake, after, cor, idle, todo, pipe, exited>>

\* run(cb) from inside a coroutine, as the accept loop does for each client.
Spawn(w) == \E c \in Cors :
  /\ pc[w] = "body" /\ cor[w][2] = "main"
  /\ state[c] = "NONE"
  /\ state' = [state EXCEPT ![c] = "INIT"]
  /\ Add(w, "body", Main(c), "body")
  /\ UNCHANGED <<wake, cor, idle, todo, pipe, exited>>

\* The callback that sleep() gave its timer: scheduler->run(cur), then done.
WakerBody(w) ==
  /\ pc[w] = "body" /\ cor[w][2] = "waker"
  /\ Add(w, "body", Main(cor[w][1]), "swapout")
  /\ UNCHANGED <<state, wake, cor, idle, todo, pipe, exited>>

-----------------------------------------------------------------------------
(* The idle coroutine: IOScheduler::wait. *)

\* Nothing to run.  Resuming an idle coroutine that has finished returns from
\* its entry function with no uc_link, which ends the process.
GoIdle(w) ==
  /\ \A i \in 1..Len(coroutines) : ~Eligible(coroutines[i])
  /\ IF idle[w] = "FINIAH"
       THEN /\ pc[w] = "scan" /\ ~exited
            /\ exited' = TRUE
            /\ UNCHANGED <<pc, idle>>
       ELSE /\ Goto(w, "scan", "wait")
            /\ idle' = [idle EXCEPT ![w] = "RUNNING"]
            /\ UNCHANGED exited
  /\ UNCHANGED <<coroutines, state, wake, after, cor, todo, pipe>>

\* is_stop: m_stop, no timer, and m_eventConut not zero.
IsStop == /\ StopFlag
          /\ \A c \in Cors : wake[c] # "timer"
          /\ \E c \in Cors : wake[c] = "event"

WaitCheck(w) ==
  /\ IF IsStop
       THEN Goto(w, "wait", "scan") /\ idle' = [idle EXCEPT ![w] = "FINIAH"]
       ELSE Goto(w, "wait", "epoll") /\ UNCHANGED idle
  /\ UNCHANGED <<coroutines, state, wake, after, cor, todo, pipe, exited>>

\* epoll_wait returns, at the latest after MAX_TIMEOUT, with any of the events
\* that are due, perhaps the pipe's, and finds the timers that have expired.
Poll(w) ==
  /\ Goto(w, "epoll", "dispatch")
  /\ \E due \in SUBSET {c \in Cors : wake[c] # "none"} :
       /\ todo' = [todo EXCEPT ![w] =
            {Waker(c) : c \in {d \in due : wake[d] = "timer"}} \cup
            {Main(c)  : c \in {d \in due : wake[d] = "event"}}]
       /\ wake' = [c \in Cors |-> IF c \in due THEN "none" ELSE wake[c]]
  /\ pipe' \in {pipe, 0}
  /\ UNCHANGED <<coroutines, state, after, cor, idle, exited>>

\* add(cb) of each expired timer and triggerEvent's add(coroutine).
Dispatch(w) == \E task \in todo[w] :
  /\ Add(w, "dispatch", task, "dispatch")
  /\ todo' = [todo EXCEPT ![w] = @ \ {task}]
  /\ UNCHANGED <<state, wake, cor, idle, pipe, exited>>

\* The idle coroutine swaps out at the end of a pass of wait().
IdleToReady(w) ==              \* mutant: by ToReady
  /\ todo[w] = {}
  /\ Goto(w, "dispatch", "scan")
  /\ idle' = [idle EXCEPT ![w] = "READY"]
  /\ UNCHANGED <<coroutines, state, wake, after, cor, todo, pipe, exited>>

IdleSwapOut(w) ==
  /\ todo[w] = {}
  /\ Goto(w, "dispatch", "scan")
  /\ idle' = [idle EXCEPT ![w] = "SUSPENDED"]
  /\ UNCHANGED <<coroutines, state, wake, after, cor, todo, pipe, exited>>

-----------------------------------------------------------------------------

Switch(w) == Resume(w) \/ Back(w) \/ ToSUSPENDED(w) \/ SwapOut(w)
Body(w)   == Sleep(w) \/ AddEvent(w) \/ ToReady(w) \/ Mian(w) \/ Spawn(w) \/ WakerBody(w)
Idle(w)   == GoIdle(w) \/ WaitCheck(w) \/ Poll(w) \/ Dispatch(w) \/ IdleSwapOut(w)

Worker(w) == Take(w) \/ Notify(w) \/ Switch(w) \/ Body(w) \/ Idle(w)

Next == (\E w \in Workers : Worker(w)) \/ Notify(Ext) \/ (\E c \in Cors : ExternalRun(c))

Spec == Init /\ [][Next]_vars

\* The threads run, coroutine bodies come to a switch, epoll_wait returns
\* (its timeout is at most MAX_TIMEOUT), and a poll made again and again finds
\* each armed timer expired.  Nothing says a descriptor ever becomes ready.
FairSpec ==
  /\ Spec
  /\ \A w \in Workers : WF_vars(Worker(w))
  /\ WF_vars(Notify(Ext))
  /\ \A c \in Cors :
       SF_vars(wake[c] = "timer" /\ (\E w \in Workers : Poll(w)) /\ wake'[c] = "none")

-----------------------------------------------------------------------------
(* Properties. *)

\* No coroutine is on the stack of two workers at once, nor taken by a second
\* worker before the first has saved its context: the RUNNING test of the
\* scan (corscheduler.cc:47) is all that keeps an early wake-up away.
ExclusiveRun == \A v, w \in Workers :
  v # w /\ cor[v] # None /\ cor[v] = cor[w] => cor[v][2] # "main"

\* The assertions of coroutine.cc: swapIn finds the coroutine not RUNNING
\* (144), ToReady and ToSUSPENDED find it RUNNING (105, 113).
StateAsserts == \A w \in Workers, c \in Cors : cor[w] = Main(c) =>
  /\ pc[w] = "resume" => state[c] # "RUNNING"
  /\ pc[w] \in {"body", "suspend"} => state[c] = "RUNNING"

\* Where the one wake-up of coroutine c can be.
InQueue(task)  == \E i \in 1..Len(coroutines) : coroutines[i] = task
InTodo(task)   == \E w \in Workers : task \in todo[w]
WakerHeld(c)   == \E w \in Workers :
  /\ cor[w] = Waker(c)
  /\ \/ pc[w] \in {"resume", "body"}
     \/ pc[w] = "notify" /\ after[w] \in {"resume", "body"}
Pending(c) == \/ wake[c] # "none"
              \/ \E k \in {"main", "waker"} : InQueue(<<c, k>>) \/ InTodo(<<c, k>>)
              \/ WakerHeld(c)

\* A coroutine that has been created, has not finished and is held by no
\* worker still has a wake-up on the way: nothing is parked and forgotten.
NoOrphan == \A c \in Cors :
  \/ state[c] \in Finished \cup {"NONE"}
  \/ Pending(c)
  \/ \E w \in Workers : cor[w] = Main(c)

\* A coroutine is queued at most once, so the queue never outgrows them.
QueuedOnce == \A i, j \in 1..Len(coroutines) : coroutines[i] = coroutines[j] => i = j

\* No wake-up is lost, and none is queued twice: timers, events and the workers
\* that put back what has yielded all queue coroutines.
WokenRight == NoOrphan /\ QueuedOnce

\* A finished coroutine is never run again.
FinishedForGood == [][\A c \in Cors : state[c] \in Finished => state'[c] = state[c]]_state

\* The process does not end because a worker had nothing to do.
KeepsRunning == ~exited

OnCpu(c) == \E w \in Workers : pc[w] = "body" /\ cor[w] = Main(c)

\* The premises of progress: the process lives on, and the pipe does not stay
\* full.  A full pipe that no worker is left to read stops every thread at its
\* next notify(), and the idle coroutines, its only readers, notify as well.
Notifiable == ([]~exited) /\ []<>(pipe < PipeCap)

\* A queued coroutine is run in the end, if Notifiable: an early wake-up that
\* the scan passed over because the coroutine had not swapped out yet is not
\* lost, though nobody is notified when it becomes eligible.
QueuedRuns == Notifiable => \A c \in Cors : InQueue(Main(c)) ~> OnCpu(c)

\* A sleeping coroutine runs again, if Notifiable and as long as some worker
\* keeps going idle: only the idle coroutine looks at the timers.
SleeperRuns == Notifiable /\ []<>(\E w \in Workers : pc[w] = "epoll") =>
  \A c \in Cors : wake[c] = "timer" ~> OnCpu(c)
=============================================================================
