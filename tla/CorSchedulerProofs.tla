------------------------- MODULE CorSchedulerProofs -------------------------
(***************************************************************************)
(* Proofs about CorScheduler: its type invariant, ExclusiveRun, the        *)
(* assertions of coroutine.cc and NoOrphan, for any number of workers and  *)
(* coroutines, any pipe, and either value of the stop flag.                *)
(*                                                                         *)
(* The argument is that of a token.  Every live coroutine has one token,   *)
(* and whoever has it may make the coroutine runnable: it is in the queue, *)
(* in the results of one poll, in a timer callback that has not run yet,   *)
(* in an armed timer or event, or with the worker that holds the coroutine.*)
(* A coroutine that parks gives its token to the wake-up it arms while its *)
(* worker still holds it; in that window its state is RUNNING, and the     *)
(* scan passes over it.                                                    *)
(***************************************************************************)
EXTENDS CorScheduler, TLAPS

At(w, labels) == pc[w] \in labels \/ (pc[w] = "notify" /\ after[w] \in labels)

\* The coroutine c has an entry in a run queue; no coroutine has two.
Has(seq, c)   == \E i \in 1..Len(seq) : seq[i][1] = c
Distinct(seq) == \A i, j \in 1..Len(seq) : seq[i][1] = seq[j][1] => i = j

TodoBy(w, c)  == Main(c) \in todo[w] \/ Waker(c) \in todo[w]
WakerBy(w, c) == cor[w] = Waker(c) /\ At(w, {"resume", "body"})
MainBy(w, c)  == cor[w] = Main(c)
ParkedBy(w, c) == /\ MainBy(w, c)
                  /\ At(w, {"suspend"}) \/ (At(w, {"back"}) /\ state[c] = "RUNNING")

\* A wake-up of c is armed, or already in the run queue.
Queued(c) == Has(coroutines, c)
Armed(c)  == wake[c] # "none"

Where ==  \* what a worker's program counter says of the task it holds
  \A w \in Workers :
    /\ pc[w] # "out" /\ after[w] # "out"
    /\ cor[w] = None <=> At(w, {"scan", "wait", "epoll", "dispatch"})
    /\ todo[w] # {} => At(w, {"dispatch"})
    /\ \A c \in Cors : cor[w] = Waker(c) => ~At(w, {"suspend"})
    /\ pc[w] = "notify" => after[w] # "back"

States ==  \* what the holder knows of the state of a coroutine
  \A w \in Workers, c \in Cors : MainBy(w, c) =>
    /\ At(w, {"resume"}) => state[c] \in {"INIT", "READY", "SUSPENDED"}
    /\ At(w, {"body", "suspend"}) => state[c] = "RUNNING"
    /\ At(w, {"swapout"}) => state[c] \in {"READY"} \cup Finished
    /\ At(w, {"back"}) => state[c] \in {"READY", "RUNNING"} \cup Finished

OneHolder ==
  \A v, w \in Workers, c \in Cors : MainBy(v, c) /\ MainBy(w, c) => v = w

RunningHeld ==
  \A c \in Cors : state[c] = "RUNNING" => \E w \in Workers : MainBy(w, c)

OneToken == \A c \in Cors :
  /\ Armed(c) => ~Queued(c)
  /\ \A v, w \in Workers :
       /\ TodoBy(v, c) => ~Armed(c) /\ ~Queued(c) /\ ~WakerBy(w, c)
       /\ WakerBy(v, c) => ~Armed(c) /\ ~Queued(c)
       /\ TodoBy(v, c) /\ TodoBy(w, c) => v = w
       /\ WakerBy(v, c) /\ WakerBy(w, c) => v = w

TodoOnce == \A w \in Workers, c \in Cors : ~(Main(c) \in todo[w] /\ Waker(c) \in todo[w])

\* Someone other than the holder has the token.
Coming(c) == \/ Armed(c) \/ Queued(c)
             \/ \E w \in Workers : TodoBy(w, c) \/ WakerBy(w, c)

HolderKeeps == \A w \in Workers, c \in Cors :
  MainBy(w, c) /\ ~ParkedBy(w, c) => ~Coming(c)

Dead(c) == state[c] \in Finished \cup {"NONE"}

DeadQuiet == \A c \in Cors : Dead(c) => ~Coming(c)

\* A coroutine that parks has given its token away before it swaps out.
Parked == \A w \in Workers, c \in Cors : ParkedBy(w, c) => Coming(c)

LiveKept == \A c \in Cors :
  Dead(c) \/ Coming(c) \/ \E w \in Workers : MainBy(w, c)

ExtOutside == pc[Ext] \in {"out", "notify"} /\ after[Ext] = "out"

Control == TypeOK /\ ExtOutside /\ Where /\ States /\ OneHolder /\ RunningHeld
Tokens  == OneToken /\ HolderKeeps /\ DeadQuiet /\ Parked /\ LiveKept
IInv    == Control /\ Distinct(coroutines) /\ TodoOnce /\ Tokens

-----------------------------------------------------------------------------
(* The run queue as a sequence of tasks. *)

\* Appending a task of a coroutine that has none yet.
LEMMA AppendHas ==
  ASSUME NEW seq \in Seq(Tasks), NEW task \in Tasks
  PROVE  /\ Append(seq, task) \in Seq(Tasks)
         /\ \A c : Has(Append(seq, task), c) <=> Has(seq, c) \/ task[1] = c
         /\ Distinct(seq) /\ ~Has(seq, task[1]) => Distinct(Append(seq, task))
  <1> DEFINE new == Append(seq, task)
  <1>1. /\ new \in Seq(Tasks) /\ Len(new) = Len(seq) + 1
        /\ Len(seq) \in Nat
        /\ \A i \in 1..Len(seq) : new[i] = seq[i]
        /\ new[Len(seq) + 1] = task
    OBVIOUS
  <1> HIDE DEF new
  <1>2. \A i \in 1..Len(new) : i \in 1..Len(seq) \/ i = Len(seq) + 1
    BY <1>1
  <1>3. \A c : Has(new, c) <=> Has(seq, c) \/ task[1] = c
    BY <1>1, <1>2 DEF Has
  <1>4. Distinct(seq) /\ ~Has(seq, task[1]) => Distinct(new)
    BY <1>1, <1>2 DEF Has, Distinct
  <1> QED BY <1>1, <1>3, <1>4 DEF new

\* Erasing the task at a position of a queue without duplicates.
LEMMA EraseHas ==
  ASSUME NEW seq \in Seq(Tasks), NEW i \in 1..Len(seq), Distinct(seq)
  PROVE  /\ Erase(seq, i) \in Seq(Tasks)
         /\ Distinct(Erase(seq, i))
         /\ \A c : Has(Erase(seq, i), c) <=> Has(seq, c) /\ c # seq[i][1]
  <1> DEFINE new == Erase(seq, i)
             at(j) == IF j < i THEN j ELSE j + 1
  <1>1. Len(seq) \in Nat /\ i \in Nat /\ Len(seq) - 1 \in Nat
    OBVIOUS
  <1>2. \A j \in 1..(Len(seq) - 1) : at(j) \in 1..Len(seq) /\ seq[at(j)] \in Tasks
    BY <1>1
  <1>3. /\ new \in Seq(Tasks) /\ Len(new) = Len(seq) - 1
        /\ \A j \in 1..Len(new) : new[j] = seq[at(j)]
    BY <1>1, <1>2 DEF Erase
  <1> HIDE DEF new
  <1>4. \A j, k \in 1..Len(new) : at(j) = at(k) => j = k
    BY <1>1, <1>3
  <1>5. \A j \in 1..Len(new) : at(j) # i
    BY <1>1, <1>3
  <1>6. \A k \in 1..Len(seq) : k # i => \E j \in 1..Len(new) : at(j) = k
    <2> TAKE k \in 1..Len(seq)
    <2>1. CASE k < i
      <3>1. k \in 1..Len(new) /\ at(k) = k  BY <2>1, <1>1, <1>3
      <3> QED BY <3>1
    <2>2. CASE k > i
      <3>1. (k - 1) \in 1..Len(new) /\ at(k - 1) = k  BY <2>2, <1>1, <1>3
      <3> QED BY <3>1
    <2> QED BY <2>1, <2>2, <1>1
  <1> HIDE DEF at
  <1>7. Distinct(new)
    BY <1>2, <1>3, <1>4 DEF Distinct
  <1>8. \A c : Has(new, c) => Has(seq, c) /\ c # seq[i][1]
    <2> SUFFICES ASSUME NEW c, NEW j \in 1..Len(new), new[j][1] = c
                 PROVE  Has(seq, c) /\ c # seq[i][1]
      BY DEF Has
    <2>1. at(j) \in 1..Len(seq) /\ at(j) # i /\ seq[at(j)][1] = c
      BY <1>2, <1>3, <1>5
    <2> QED BY <2>1 DEF Has, Distinct
  <1>9. \A c : Has(seq, c) /\ c # seq[i][1] => Has(new, c)
    <2> SUFFICES ASSUME NEW c, NEW k \in 1..Len(seq), seq[k][1] = c, c # seq[i][1]
                 PROVE  Has(new, c)
      BY DEF Has
    <2>1. PICK j \in 1..Len(new) : at(j) = k  BY <1>6
    <2>2. new[j][1] = c  BY <2>1, <1>3
    <2> QED BY <2>2 DEF Has
  <1> QED BY <1>3, <1>7, <1>8, <1>9 DEF new
-----------------------------------------------------------------------------
(* Steps that move no token. *)

TokensStay == \A c \in Cors :
  /\ Armed(c)' <=> Armed(c)
  /\ Queued(c)' <=> Queued(c)
  /\ \A v \in Workers : (TodoBy(v, c)' <=> TodoBy(v, c)) /\ (WakerBy(v, c)' <=> WakerBy(v, c))

HoldersStay == \A c \in Cors :
  /\ Dead(c)' <=> Dead(c)
  /\ \A v \in Workers : (MainBy(v, c)' <=> MainBy(v, c)) /\ (ParkedBy(v, c)' <=> ParkedBy(v, c))

LEMMA ComingStays == ASSUME TokensStay PROVE \A c \in Cors : Coming(c)' <=> Coming(c)
  BY DEF TokensStay, Coming

LEMMA Frame == ASSUME Tokens, TokensStay, HoldersStay PROVE Tokens'
  <1>1. OneToken'  BY DEF Tokens, TokensStay, OneToken
  <1>2. HolderKeeps' /\ DeadQuiet' /\ Parked' /\ LiveKept'
    BY ComingStays DEF Tokens, HoldersStay, HolderKeeps, DeadQuiet, Parked, LiveKept
  <1> QED BY <1>1, <1>2 DEF Tokens

LEMMA NotifyStep == ASSUME IInv, NEW w \in Threads, Notify(w) PROVE IInv'
  <1> USE SchedulerAssumption DEF IInv, Control, Notify, Goto, Threads
  <1>1. TypeOK'
    BY DEF TypeOK, PC, CoState
  <1>0. ExtOutside' /\ Where'
    BY DEF TypeOK, PC, ExtOutside, Where, At, Tasks, Main, Waker
  <1>2. States'
    BY DEF TypeOK, States, MainBy, At, Main, Finished, CoState, OneHolder
  <1>3. OneHolder' /\ RunningHeld'
    BY DEF OneHolder, RunningHeld, MainBy
  <1>4. Distinct(coroutines)' /\ TodoOnce'
    BY DEF Distinct, TodoOnce
  <1>5. TokensStay
    BY DEF TokensStay, TypeOK, Armed, Queued, TodoBy, WakerBy, At, Main, Waker
  <1>6. HoldersStay
    BY DEF HoldersStay, TypeOK, Dead, MainBy, ParkedBy, At, Main, States, Finished, CoState, OneHolder
  <1> QED BY <1>0, <1>1, <1>2, <1>3, <1>4, <1>5, <1>6, Frame

LEMMA ToSUSPENDEDStep == ASSUME IInv, NEW w \in Workers, ToSUSPENDED(w) PROVE IInv'
  <1> USE SchedulerAssumption DEF IInv, Control, ToSUSPENDED, Goto, Threads
  <1>1. TypeOK'
    BY DEF TypeOK, PC, CoState
  <1>0. ExtOutside' /\ Where'
    BY DEF TypeOK, PC, ExtOutside, Where, At, Tasks, Main, Waker
  <1>2. States'
    BY DEF TypeOK, States, MainBy, At, Main, Finished, CoState, OneHolder
  <1>3. OneHolder' /\ RunningHeld'
    BY DEF OneHolder, RunningHeld, MainBy
  <1>4. Distinct(coroutines)' /\ TodoOnce'
    BY DEF Distinct, TodoOnce
  <1>5. TokensStay
    BY DEF TokensStay, TypeOK, Armed, Queued, TodoBy, WakerBy, At, Main, Waker
  <1>6. HoldersStay
    BY DEF HoldersStay, TypeOK, Dead, MainBy, ParkedBy, At, Main, States, Finished, CoState, OneHolder
  <1> QED BY <1>0, <1>1, <1>2, <1>3, <1>4, <1>5, <1>6, Frame

LEMMA SwapOutStep == ASSUME IInv, NEW w \in Workers, SwapOut(w) PROVE IInv'
  <1> USE SchedulerAssumption DEF IInv, Control, SwapOut, Goto, Threads
  <1>1. TypeOK'
    BY DEF TypeOK, PC, CoState
  <1>0. ExtOutside' /\ Where'
    BY DEF TypeOK, PC, ExtOutside, Where, At, Tasks, Main, Waker
  <1>2. States'
    BY DEF TypeOK, States, MainBy, At, Main, Finished, CoState, OneHolder
  <1>3. OneHolder' /\ RunningHeld'
    BY DEF OneHolder, RunningHeld, MainBy
  <1>4. Distinct(coroutines)' /\ TodoOnce'
    BY DEF Distinct, TodoOnce
  <1>5. TokensStay
    BY DEF TokensStay, TypeOK, Armed, Queued, TodoBy, WakerBy, At, Main, Waker
  <1>6. HoldersStay
    BY DEF HoldersStay, TypeOK, Dead, MainBy, ParkedBy, At, Main, States, Finished, CoState, OneHolder
  <1> QED BY <1>0, <1>1, <1>2, <1>3, <1>4, <1>5, <1>6, Frame

LEMMA ToReadyStep == ASSUME IInv, NEW w \in Workers, ToReady(w) PROVE IInv'
  <1> USE SchedulerAssumption DEF IInv, Control, ToReady, Goto, LeaveAs, Runs, Threads
  <1>1. TypeOK'
    BY DEF TypeOK, PC, CoState
  <1>0. ExtOutside' /\ Where'
    BY DEF TypeOK, PC, ExtOutside, Where, At, Tasks, Main, Waker
  <1>2. States'
    BY DEF TypeOK, States, MainBy, At, Main, Finished, CoState, OneHolder
  <1>3. OneHolder' /\ RunningHeld'
    BY DEF OneHolder, RunningHeld, MainBy, TypeOK
  <1>4. Distinct(coroutines)' /\ TodoOnce'
    BY DEF Distinct, TodoOnce
  <1>5. TokensStay
    BY DEF TokensStay, TypeOK, Armed, Queued, TodoBy, WakerBy, At, Main, Waker
  <1>6. HoldersStay
    <2>1. PICK c \in Cors : /\ MainBy(w, c) /\ pc[w] = "body"
                           /\ pc' = [pc EXCEPT ![w] = "swapout"]
                           /\ state' = [state EXCEPT ![c] = "READY"]
                           /\ UNCHANGED <<coroutines, wake, after, cor, idle, todo, pipe, exited>>
      BY DEF MainBy
    <2>2. state[c] = "RUNNING"
      BY <2>1 DEF States, At
    <2>3. \A v \in Workers : v # w => ~MainBy(v, c)
      BY <2>1 DEF OneHolder
    <2>4. \A v \in Workers, d \in Cors : MainBy(v, d)' <=> MainBy(v, d)
      BY <2>1 DEF MainBy
    <2>5. \A d \in Cors : Dead(d)' <=> Dead(d)
      BY <2>1, <2>2 DEF TypeOK, Dead, Finished
    <2>6. \A v \in Workers, d \in Cors : ParkedBy(v, d)' <=> ParkedBy(v, d)
      BY <2>1, <2>2, <2>3, <2>4 DEF TypeOK, ParkedBy, At, MainBy, Main
    <2> QED BY <2>4, <2>5, <2>6 DEF HoldersStay
  <1> QED BY <1>0, <1>1, <1>2, <1>3, <1>4, <1>5, <1>6, Frame

LEMMA WaitCheckStep == ASSUME IInv, NEW w \in Workers, WaitCheck(w) PROVE IInv'
  <1> USE SchedulerAssumption DEF IInv, Control, WaitCheck, Goto, Threads
  <1>1. TypeOK'
    BY DEF TypeOK, PC, CoState
  <1>0. ExtOutside' /\ Where'
    BY DEF TypeOK, PC, ExtOutside, Where, At, Tasks, Main, Waker
  <1>2. States'
    BY DEF TypeOK, States, MainBy, At, Main, Finished, CoState, OneHolder
  <1>3. OneHolder' /\ RunningHeld'
    BY DEF OneHolder, RunningHeld, MainBy
  <1>4. Distinct(coroutines)' /\ TodoOnce'
    BY DEF Distinct, TodoOnce
  <1>5. TokensStay
    BY DEF TokensStay, TypeOK, Armed, Queued, TodoBy, WakerBy, At, Main, Waker
  <1>6. HoldersStay
    BY DEF HoldersStay, TypeOK, Dead, MainBy, ParkedBy, At, Main, States, Finished, CoState, OneHolder
  <1> QED BY <1>0, <1>1, <1>2, <1>3, <1>4, <1>5, <1>6, Frame

LEMMA IdleSwapOutStep == ASSUME IInv, NEW w \in Workers, IdleSwapOut(w) PROVE IInv'
  <1> USE SchedulerAssumption DEF IInv, Control, IdleSwapOut, Goto, Threads
  <1>1. TypeOK'
    BY DEF TypeOK, PC, CoState
  <1>0. ExtOutside' /\ Where'
    BY DEF TypeOK, PC, ExtOutside, Where, At, Tasks, Main, Waker
  <1>2. States'
    BY DEF TypeOK, States, MainBy, At, Main, Finished, CoState, OneHolder
  <1>3. OneHolder' /\ RunningHeld'
    BY DEF OneHolder, RunningHeld, MainBy
  <1>4. Distinct(coroutines)' /\ TodoOnce'
    BY DEF Distinct, TodoOnce
  <1>5. TokensStay
    BY DEF TokensStay, TypeOK, Armed, Queued, TodoBy, WakerBy, At, Main, Waker
  <1>6. HoldersStay
    BY DEF HoldersStay, TypeOK, Dead, MainBy, ParkedBy, At, Main, States, Finished, CoState, OneHolder
  <1> QED BY <1>0, <1>1, <1>2, <1>3, <1>4, <1>5, <1>6, Frame

LEMMA ResumeStep == ASSUME IInv, NEW w \in Workers, Resume(w) PROVE IInv'
  <1> USE SchedulerAssumption DEF IInv, Control
  <1>1. PICK c \in Cors : cor[w] \in {Main(c), Waker(c)}
    BY DEF Resume, Where, At, TypeOK, Tasks, Main, Waker
  <1>2. ~(cor[w][2] = "main" /\ state[cor[w][1]] \in Finished)
    BY <1>1 DEF Resume, States, MainBy, At, Main, Waker, Finished
  <1>3. /\ pc[w] = "resume" /\ pc' = [pc EXCEPT ![w] = "body"]
        /\ cor[w] = Main(c) => state' = [state EXCEPT ![c] = "RUNNING"]
        /\ cor[w] # Main(c) => state' = state
        /\ UNCHANGED <<cor, coroutines, wake, after, idle, todo, pipe, exited>>
    BY <1>1, <1>2 DEF Resume, Goto, Main, Waker
  <1>4. TypeOK' /\ ExtOutside' /\ Where'
    BY <1>3 DEF TypeOK, PC, CoState, Threads, ExtOutside, Where, At
  <1>5. States'
    BY <1>1, <1>3 DEF TypeOK, Threads, States, MainBy, At, Main, Waker, OneHolder
  <1>6. OneHolder' /\ RunningHeld'
    BY <1>1, <1>3 DEF OneHolder, RunningHeld, MainBy, TypeOK
  <1>7. Distinct(coroutines)' /\ TodoOnce'
    BY <1>3 DEF Distinct, TodoOnce
  <1>8. TokensStay
    BY <1>3 DEF TokensStay, TypeOK, Threads, Armed, Queued, TodoBy, WakerBy, At
  <1>9. HoldersStay
    <2>1. \A v \in Workers, d \in Cors : MainBy(v, d)' <=> MainBy(v, d)
      BY <1>3 DEF MainBy
    <2>2. \A v \in Workers, d \in Cors : ParkedBy(v, d) => v # w
      BY <1>3 DEF ParkedBy, At
    <2>3. \A v \in Workers, d \in Cors : MainBy(v, d) /\ v # w => state'[d] = state[d]
      BY <1>1, <1>3 DEF MainBy, OneHolder, TypeOK, Main
    <2>4. \A v \in Workers : v # w => pc'[v] = pc[v]
      BY <1>3 DEF TypeOK, Threads
    <2>5. pc'[w] = "body"
      BY <1>3 DEF TypeOK, Threads
    <2>6. \A v \in Workers, d \in Cors : ParkedBy(v, d)' <=> ParkedBy(v, d)
      <3> SUFFICES ASSUME NEW v \in Workers, NEW d \in Cors
                   PROVE  ParkedBy(v, d)' <=> ParkedBy(v, d)
        OBVIOUS
      <3>1. CASE v = w
        BY <3>1, <2>2, <2>5 DEF ParkedBy, At
      <3>2. CASE v # w
        <4>1. /\ At(v, {"suspend"})' <=> At(v, {"suspend"})
              /\ At(v, {"back"})' <=> At(v, {"back"})
          BY <3>2, <2>4, <1>3 DEF At
        <4>2. MainBy(v, d) => state'[d] = state[d]
          BY <3>2, <2>3
        <4>3. MainBy(v, d)' <=> MainBy(v, d)
          BY <2>1
        <4> HIDE DEF MainBy, At
        <4> QED BY <4>1, <4>2, <4>3 DEF ParkedBy
      <3> QED BY <3>1, <3>2
    <2>7. cor[w] = Main(c) => state[c] \notin Finished \cup {"NONE"}
      BY <1>3 DEF States, MainBy, At, Finished
    <2>8. \A d \in Cors : Dead(d)' <=> Dead(d)
      BY <1>1, <1>3, <2>7 DEF Dead, TypeOK, Finished
    <2> QED BY <2>1, <2>6, <2>8 DEF HoldersStay
  <1> QED BY <1>4, <1>5, <1>6, <1>7, <1>8, <1>9, Frame

LEMMA GoIdleStep == ASSUME IInv, NEW w \in Workers, GoIdle(w) PROVE IInv'
  <1> USE SchedulerAssumption DEF IInv, Control
  <1>1. /\ pc[w] = "scan"
        /\ pc' = [pc EXCEPT ![w] = "wait"] \/ pc' = pc
        /\ idle' = [idle EXCEPT ![w] = "RUNNING"] \/ idle' = idle
        /\ exited' \in {exited, TRUE}
        /\ UNCHANGED <<coroutines, state, wake, after, cor, todo, pipe>>
    BY DEF GoIdle, Goto
  <1>2. TypeOK' /\ ExtOutside' /\ Where'
    <2>1. TypeOK'
      BY <1>1 DEF TypeOK, PC, Threads
    <2>2. ExtOutside'
      BY <1>1 DEF TypeOK, Threads, ExtOutside
    <2>3. cor[w] = None /\ ~At(w, {"dispatch", "suspend", "notify"})
      BY <1>1 DEF Where, At
    <2>4. \A v \in Workers : pc'[v] = pc[v] \/ (v = w /\ pc'[v] = "wait")
      BY <1>1 DEF TypeOK, Threads
    <2>5. Where'
      BY <1>1, <2>3, <2>4 DEF Where, At
    <2> QED BY <2>1, <2>2, <2>5
  <1>3. States'
    BY <1>1 DEF TypeOK, Threads, States, MainBy, At
  <1>4. OneHolder' /\ RunningHeld'
    BY <1>1 DEF OneHolder, RunningHeld, MainBy
  <1>5. Distinct(coroutines)' /\ TodoOnce'
    BY <1>1 DEF Distinct, TodoOnce
  <1>6. TokensStay
    BY <1>1 DEF TokensStay, TypeOK, Threads, Armed, Queued, TodoBy, WakerBy, At
  <1>7. HoldersStay
    BY <1>1 DEF HoldersStay, TypeOK, Threads, Dead, MainBy, ParkedBy, At
  <1> QED BY <1>2, <1>3, <1>4, <1>5, <1>6, <1>7, Frame

LEMMA MianStep == ASSUME IInv, NEW w \in Workers, Mian(w) PROVE IInv'
  <1> USE SchedulerAssumption DEF IInv, Control
  <1>1. PICK c \in Cors, s \in Finished :
          /\ pc[w] = "body" /\ cor[w] = Main(c)
          /\ pc' = [pc EXCEPT ![w] = "swapout"]
          /\ state' = [state EXCEPT ![c] = s]
          /\ UNCHANGED <<coroutines, wake, after, cor, idle, todo, pipe, exited>>
    BY DEF Mian, LeaveAs, Runs, Goto
  <1>2. TypeOK' /\ ExtOutside' /\ Where'
    BY <1>1 DEF TypeOK, PC, CoState, Threads, ExtOutside, Where, At, Main, Waker
  <1>3. States'
    BY <1>1 DEF TypeOK, Threads, States, MainBy, At, Main, OneHolder
  <1>4. OneHolder' /\ RunningHeld'
    BY <1>1 DEF OneHolder, RunningHeld, MainBy, TypeOK, Finished
  <1>5. Distinct(coroutines)' /\ TodoOnce'
    BY <1>1 DEF Distinct, TodoOnce
  <1>6. TokensStay
    BY <1>1 DEF TokensStay, TypeOK, Threads, Armed, Queued, TodoBy, WakerBy, At, Main, Waker
  <1>7. /\ MainBy(w, c) /\ ~ParkedBy(w, c)
        /\ \A d \in Cors : Dead(d)' <=> Dead(d) \/ d = c
    BY <1>1 DEF MainBy, ParkedBy, At, Dead, Finished, TypeOK
  <1>8. \A v \in Workers, d \in Cors :
          (MainBy(v, d)' <=> MainBy(v, d)) /\ (ParkedBy(v, d)' <=> ParkedBy(v, d))
    BY <1>1 DEF MainBy, ParkedBy, At, Main, OneHolder, TypeOK, Threads, Finished
  <1>9. ~Coming(c)
    BY <1>7 DEF Tokens, HolderKeeps
  <1>10. OneToken'
    BY <1>6 DEF Tokens, TokensStay, OneToken
  <1>11. HolderKeeps' /\ DeadQuiet' /\ Parked' /\ LiveKept'
    BY <1>6, <1>7, <1>8, <1>9, ComingStays DEF Tokens, HolderKeeps, DeadQuiet, Parked, LiveKept
  <1> QED BY <1>2, <1>3, <1>4, <1>5, <1>10, <1>11 DEF Tokens

LEMMA TakeStep == ASSUME IInv, NEW w \in Workers, Take(w) PROVE IInv'
  <1> USE SchedulerAssumption DEF IInv, Control
  <1>1. PICK i \in 1..Len(coroutines) : FirstEligible(i) /\ cor' = [cor EXCEPT ![w] = coroutines[i]]
                                        /\ coroutines' = Erase(coroutines, i)
    BY DEF Take
  <1> DEFINE t == coroutines[i]
  <1>2. t \in Tasks /\ coroutines \in Seq(Tasks)
    BY DEF TypeOK
  <1>3. /\ coroutines' \in Seq(Tasks) /\ Distinct(coroutines)'
        /\ \A c : Queued(c)' <=> Queued(c) /\ c # t[1]
    BY <1>1, <1>2, EraseHas DEF Queued
  <1>4. Queued(t[1]) /\ Eligible(t)
    BY <1>1 DEF Queued, Has, FirstEligible
  <1>5. /\ pc[w] = "scan" /\ pc' = [pc EXCEPT ![w] = "notify"]
        /\ after' = [after EXCEPT ![w] = "resume"]
        /\ cor' = [cor EXCEPT ![w] = t]
        /\ UNCHANGED <<state, wake, idle, todo, pipe, exited>>
    BY <1>1 DEF Take, Goto
  <1> HIDE DEF t
  <1>6. PICK c \in Cors : c = t[1] /\ t \in {Main(c), Waker(c)}
    BY <1>2 DEF Tasks, Main, Waker
  <1>7. cor[w] = None /\ None \notin Tasks
    BY <1>5 DEF Where, At, Tasks
  <1>8. Coming(c) /\ ~Dead(c)
    BY <1>4, <1>6 DEF Coming, Tokens, DeadQuiet
  <1>9. t = Main(c) => state[c] \in {"INIT", "READY", "SUSPENDED"}
    BY <1>4, <1>8 DEF Eligible, Main, Dead, Finished, TypeOK, CoState
  <1>10. t = Main(c) => \A v \in Workers : ~MainBy(v, c)
    BY <1>8, <1>9 DEF Tokens, HolderKeeps, ParkedBy, States, At
  <1>11. TypeOK'
    BY <1>2, <1>3, <1>5 DEF TypeOK, PC, Threads
  <1>12. ExtOutside' /\ Where'
    BY <1>2, <1>5, <1>6, <1>7 DEF TypeOK, ExtOutside, Where, At, Main, Waker, Threads
  <1>13. States'
    BY <1>5, <1>6, <1>9 DEF TypeOK, States, MainBy, At, Main, Waker, Threads
  <1>14. \A v \in Workers, d \in Cors : MainBy(v, d)' <=> MainBy(v, d) \/ (v = w /\ t = Main(d))
    <2>1. \A v \in Workers : cor'[v] = IF v = w THEN t ELSE cor[v]
      BY <1>5 DEF TypeOK
    <2>2. \A v \in Workers, d \in Cors : v # w => (MainBy(v, d)' <=> MainBy(v, d))
      BY <2>1 DEF MainBy, Main
    <2>3. \A d \in Cors : ~MainBy(w, d)
      BY <1>7 DEF MainBy, Main, Tasks
    <2>4. \A d \in Cors : MainBy(w, d)' <=> t = Main(d)
      BY <2>1 DEF MainBy, Main
    <2> QED BY <2>2, <2>3, <2>4, <1>7
  <1>15. \A v \in Workers, d \in Cors : ParkedBy(v, d)' <=> ParkedBy(v, d)
    BY <1>5, <1>7 DEF ParkedBy, MainBy, TypeOK, Main, Tasks, At, Threads
  <1>16. \A v \in Workers, d \in Cors : WakerBy(v, d)' <=> WakerBy(v, d) \/ (v = w /\ t = Waker(d))
    BY <1>5, <1>7 DEF WakerBy, TypeOK, Waker, Tasks, At, Threads
  <1>17. \A v \in Workers, d \in Cors :
           /\ TodoBy(v, d)' <=> TodoBy(v, d)
           /\ Armed(d)' <=> Armed(d)
           /\ Dead(d)' <=> Dead(d)
           /\ d = c <=> (t = Main(d) \/ t = Waker(d))
           /\ ~(t = Main(c) /\ t = Waker(d))
    BY <1>5, <1>6 DEF TodoBy, Armed, Dead, Main, Waker
  <1>18. OneHolder'
    BY <1>10, <1>14, <1>17 DEF OneHolder
  <1>19. RunningHeld'
    BY <1>5, <1>14 DEF RunningHeld
  <1>20. TodoOnce'
    BY <1>5 DEF TodoOnce
  <1>21. OneToken'
    BY <1>3, <1>4, <1>6, <1>16, <1>17 DEF Tokens, OneToken
  <1>22. \A d \in Cors : Coming(d)' <=> Coming(d) /\ t # Main(d)
    BY <1>3, <1>4, <1>6, <1>16, <1>17 DEF Coming, Tokens, OneToken
  <1>23. HolderKeeps' /\ DeadQuiet' /\ Parked' /\ LiveKept'
    BY <1>10, <1>14, <1>15, <1>17, <1>22 DEF Tokens, HolderKeeps, DeadQuiet, Parked, LiveKept, ParkedBy
  <1> QED BY <1>3, <1>11, <1>12, <1>13, <1>18, <1>19, <1>20, <1>21, <1>23 DEF Tokens

LEMMA SleepStep == ASSUME IInv, NEW w \in Workers, Sleep(w) \/ AddEvent(w) PROVE IInv'
  <1> USE SchedulerAssumption DEF IInv, Control
  <1>1. PICK c \in Cors, how \in {"timer", "event"}, next \in {"notify", "suspend"} :
          /\ pc[w] = "body" /\ cor[w] = Main(c)
          /\ pc' = [pc EXCEPT ![w] = next]
          /\ wake' = [wake EXCEPT ![c] = how]
          /\ after' = [after EXCEPT ![w] = "suspend"] \/ (after' = after /\ next = "suspend")
          /\ UNCHANGED <<coroutines, state, cor, idle, todo, pipe, exited>>
    BY DEF Sleep, AddEvent, Runs, Goto
  <1>2. TypeOK'
    BY <1>1 DEF TypeOK, PC, Threads
  <1>3. ExtOutside' /\ Where'
    BY <1>1 DEF TypeOK, ExtOutside, Where, At, Main, Waker, Threads
  <1>4. States'
    BY <1>1 DEF TypeOK, States, MainBy, At, Main, Threads
  <1>5. OneHolder' /\ RunningHeld'
    BY <1>1 DEF OneHolder, RunningHeld, MainBy
  <1>6. Distinct(coroutines)' /\ TodoOnce'
    BY <1>1 DEF Distinct, TodoOnce
  <1>7. MainBy(w, c) /\ ~ParkedBy(w, c)
    BY <1>1 DEF MainBy, ParkedBy, At
  <1>8. ~Coming(c)
    BY <1>7 DEF Tokens, HolderKeeps
  <1>9. \A v \in Workers, d \in Cors :
          /\ MainBy(v, d)' <=> MainBy(v, d)
          /\ TodoBy(v, d)' <=> TodoBy(v, d)
          /\ Queued(d)' <=> Queued(d)
          /\ Armed(d)' <=> Armed(d) \/ d = c
          /\ Dead(d)' <=> Dead(d)
    BY <1>1 DEF MainBy, TodoBy, Queued, Armed, Dead, TypeOK
  <1>10. \A v \in Workers, d \in Cors : WakerBy(v, d)' <=> WakerBy(v, d)
    BY <1>1 DEF WakerBy, At, Main, Waker, TypeOK, Threads
  <1>11. \A v \in Workers, d \in Cors : ParkedBy(v, d)' <=> ParkedBy(v, d) \/ (v = w /\ d = c)
    BY <1>1 DEF ParkedBy, MainBy, At, Main, TypeOK, Threads
  <1>12. OneToken'
    BY <1>8, <1>9, <1>10 DEF Coming, Tokens, OneToken
  <1>13. \A d \in Cors : Coming(d)' <=> Coming(d) \/ d = c
    BY <1>9, <1>10 DEF Coming
  <1>14. ~Dead(c)
    BY <1>1 DEF States, MainBy, At, Dead, Finished
  <1>15. HolderKeeps' /\ DeadQuiet' /\ Parked' /\ LiveKept'
    BY <1>7, <1>9, <1>11, <1>13, <1>14 DEF Tokens, HolderKeeps, DeadQuiet, Parked, LiveKept, OneHolder
  <1> QED BY <1>2, <1>3, <1>4, <1>5, <1>6, <1>12, <1>15 DEF Tokens

LEMMA BackStep == ASSUME IInv, NEW w \in Workers, Back(w) PROVE IInv'
  <1> USE SchedulerAssumption DEF IInv, Control
  <1>1. PICK c \in Cors : cor[w] \in {Main(c), Waker(c)}
    BY DEF Back, Requeues, Ends, Where, At, TypeOK, Tasks, Main, Waker
  <1>2. pc[w] = "back" /\ cor' = [cor EXCEPT ![w] = None] /\ UNCHANGED <<wake, idle, todo, pipe, exited>>
    BY DEF Back, Requeues, Ends
  <1>3. /\ None \notin Tasks /\ Main(c) \in Tasks /\ Waker(c) \in Tasks
        /\ Main(c)[1] = c /\ Waker(c)[1] = c
    BY DEF Tasks, Main, Waker
  <1>4. \A v \in Workers, d \in Cors : MainBy(v, d)' <=> MainBy(v, d) /\ v # w
    BY <1>2, <1>3 DEF MainBy, TypeOK, Main, Tasks
  <1>5. OneHolder' /\ TodoOnce'
    BY <1>2, <1>4 DEF OneHolder, TodoOnce
  <1>6. CASE cor[w] = Main(c) /\ state[c] = "READY"
    <2>1. /\ pc' = [pc EXCEPT ![w] = "notify"] /\ after' = [after EXCEPT ![w] = "scan"]
          /\ coroutines' = Append(coroutines, Main(c)) /\ state' = state
      BY <1>6 DEF Back, Requeues, Ends, Add, Goto, Main
    <2>2. MainBy(w, c) /\ ~ParkedBy(w, c)
      BY <1>2, <1>6 DEF MainBy, ParkedBy, At
    <2>3. ~Coming(c)
      BY <2>2 DEF Tokens, HolderKeeps
    <2>4. /\ coroutines' \in Seq(Tasks) /\ Distinct(coroutines)'
          /\ \A d \in Cors : Queued(d)' <=> Queued(d) \/ d = c
      BY <1>3, <2>1, <2>3, AppendHas DEF TypeOK, Coming, Queued
    <2>5. TypeOK'
      BY <1>2, <2>1, <2>4 DEF TypeOK, PC, Threads
    <2>6. ExtOutside' /\ Where'
      BY <1>2, <1>3, <2>1 DEF TypeOK, ExtOutside, Where, At, Main, Waker, Tasks, Threads
    <2>7. States'
      BY <1>2, <1>3, <2>1 DEF TypeOK, States, MainBy, At, Main, Tasks, Threads
    <2>8. RunningHeld'
      <3>1. \A d \in Cors : MainBy(w, d) => d = c  BY <1>6 DEF MainBy, Main
      <3> QED BY <1>4, <1>6, <2>1, <3>1 DEF RunningHeld
    <2>9. \A v \in Workers, d \in Cors :
            /\ TodoBy(v, d)' <=> TodoBy(v, d)
            /\ Armed(d)' <=> Armed(d)
            /\ Dead(d)' <=> Dead(d)
      BY <1>2, <2>1 DEF TodoBy, Armed, Dead
    <2>10. \A v \in Workers, d \in Cors : WakerBy(v, d)' <=> WakerBy(v, d)
      BY <1>2, <1>3, <1>6, <2>1 DEF WakerBy, At, Main, Waker, TypeOK, Tasks, Threads
    <2>11. \A v \in Workers, d \in Cors : ParkedBy(v, d)' <=> ParkedBy(v, d)
      BY <1>2, <1>3, <1>6, <2>1 DEF ParkedBy, MainBy, At, Main, TypeOK, Tasks, Threads
    <2>12. OneToken'
      BY <2>3, <2>4, <2>9, <2>10 DEF Coming, Tokens, OneToken
    <2>13. \A d \in Cors : Coming(d)' <=> Coming(d) \/ d = c
      BY <2>4, <2>9, <2>10 DEF Coming
    <2>14. ~Dead(c)
      BY <1>6 DEF Dead, Finished
    <2>15. \A d \in Cors : MainBy(w, d) => d = c
      BY <1>6 DEF MainBy, Main
    <2>16. HolderKeeps' /\ DeadQuiet' /\ Parked' /\ LiveKept'
      BY <1>4, <2>2, <2>9, <2>11, <2>13, <2>14, <2>15 DEF Tokens, HolderKeeps, DeadQuiet, Parked, LiveKept, OneHolder
    <2> QED BY <1>5, <2>4, <2>5, <2>6, <2>7, <2>8, <2>12, <2>16 DEF Tokens
  <1>7. CASE ~(cor[w] = Main(c) /\ state[c] = "READY")
    <2>1. /\ pc' = [pc EXCEPT ![w] = "scan"] /\ UNCHANGED <<coroutines, after>>
          /\ state' = IF cor[w] = Main(c) /\ state[c] \notin Finished
                        THEN [state EXCEPT ![c] = "SUSPENDED"] ELSE state
      BY <1>1, <1>7 DEF Back, Requeues, Ends, Goto, Main, Waker
    <2>2. cor[w] = Main(c) => state[c] \in {"RUNNING"} \cup Finished
      BY <1>2, <1>7 DEF States, MainBy, At
    <2>3. \A d \in Cors : MainBy(w, d) <=> d = c /\ cor[w] = Main(c)
      BY <1>1 DEF MainBy, Main, Waker
    <2>4. TypeOK'
      BY <1>2, <2>1 DEF TypeOK, PC, CoState, Threads
    <2>5. ExtOutside' /\ Where'
      BY <1>2, <1>3, <2>1 DEF TypeOK, ExtOutside, Where, At, Main, Waker, Tasks, Threads
    <2>6. \A v \in Workers, d \in Cors : v # w /\ MainBy(v, d) => state'[d] = state[d]
      BY <2>1, <2>3 DEF OneHolder, TypeOK
    <2>7. States'
      BY <1>2, <1>4, <2>1, <2>6 DEF TypeOK, States, At, Threads
    <2>8. RunningHeld'
      BY <1>4, <2>1, <2>2, <2>3 DEF RunningHeld, TypeOK, Finished
    <2>9. Distinct(coroutines)'
      BY <2>1
    <2>10. TokensStay
      BY <1>2, <1>3, <2>1 DEF TokensStay, TypeOK, Threads, Armed, Queued, TodoBy, WakerBy, At, Waker, Tasks
    <2>11. \A d \in Cors : Dead(d)' <=> Dead(d)
      BY <2>1, <2>2 DEF Dead, TypeOK, Finished
    <2>12. \A v \in Workers, d \in Cors : ParkedBy(v, d)' <=> ParkedBy(v, d) /\ v # w
      BY <1>2, <1>4, <2>1, <2>6 DEF ParkedBy, At, TypeOK, Threads
    <2>13. \A d \in Cors : MainBy(w, d) => Dead(d) \/ ParkedBy(w, d)
      BY <1>2, <2>2, <2>3 DEF Dead, ParkedBy, At
    <2>14. OneToken'
      BY <2>10 DEF Tokens, TokensStay, OneToken
    <2>15. HolderKeeps' /\ DeadQuiet' /\ Parked' /\ LiveKept'
      BY <1>4, <2>10, <2>11, <2>12, <2>13, ComingStays DEF Tokens, HolderKeeps, DeadQuiet, Parked, LiveKept
    <2> QED BY <1>5, <2>4, <2>5, <2>7, <2>8, <2>9, <2>14, <2>15 DEF Tokens
  <1> QED BY <1>6, <1>7

\* run(cb): a coroutine that did not exist enters the queue.
LEMMA CreateStep ==
  ASSUME IInv, NEW e \in Cors, ExternalRun(e) \/ \E w \in Workers : Spawn(w)
  PROVE  IInv'
  <1> USE SchedulerAssumption DEF IInv, Control
  <1> DEFINE Enters(t, b, next) ==
          /\ \/ t = Ext /\ next = "out"
             \/ t \in Workers /\ next = "body" /\ pc[t] = "body"
          /\ pc' = [pc EXCEPT ![t] = "notify"] /\ after' = [after EXCEPT ![t] = next]
          /\ state[b] = "NONE" /\ state' = [state EXCEPT ![b] = "INIT"]
          /\ coroutines' = Append(coroutines, Main(b))
          /\ UNCHANGED <<wake, cor, idle, todo, pipe, exited>>
  <1>0. \E t \in Threads, b \in Cors, next \in {"out", "body"} : Enters(t, b, next)
    <2>1. CASE ExternalRun(e)
      <3>1. Enters(Ext, e, "out") BY <2>1 DEF ExternalRun, Add, Goto
      <3> QED BY <3>1 DEF Threads
    <2>2. CASE \E w \in Workers : Spawn(w)
      <3>1. PICK w \in Workers, b \in Cors : Enters(w, b, "body")
        BY <2>2 DEF Spawn, Add, Goto
      <3> QED BY <3>1 DEF Threads
    <2> QED BY <2>1, <2>2
  <1>1. PICK t \in Threads, b \in Cors, next \in {"out", "body"} : Enters(t, b, next)
    BY <1>0
  <1>2. Dead(b) /\ ~Coming(b) /\ Main(b) \in Tasks /\ Main(b)[1] = b
    BY <1>1 DEF Dead, Tokens, DeadQuiet, Tasks, Main
  <1>3. /\ coroutines' \in Seq(Tasks) /\ Distinct(coroutines)'
        /\ \A d \in Cors : Queued(d)' <=> Queued(d) \/ d = b
    BY <1>1, <1>2, AppendHas DEF TypeOK, Coming, Queued
  <1>4. \A v \in Workers : ~MainBy(v, b)
    <2> SUFFICES ASSUME NEW v \in Workers, MainBy(v, b) PROVE FALSE
      OBVIOUS
    <2>1. cor[v] # None  BY DEF MainBy, Main
    <2>2. At(v, {"resume", "body", "suspend", "swapout", "back"})
      BY <2>1 DEF Where, At, TypeOK, PC, Threads
    <2> QED BY <1>1, <2>2 DEF States, At, Finished
  <1>5. TypeOK'
    BY <1>1, <1>3 DEF TypeOK, PC, CoState
  <1>6. ExtOutside' /\ Where'
    BY <1>1 DEF TypeOK, ExtOutside, Where, At, Main, Waker, Threads
  <1>7. States'
    BY <1>1, <1>4 DEF TypeOK, States, MainBy, At, Threads
  <1>8. OneHolder' /\ RunningHeld' /\ TodoOnce'
    BY <1>1 DEF OneHolder, RunningHeld, TodoOnce, MainBy, TypeOK
  <1>9. \A d \in Cors :
          /\ Armed(d)' <=> Armed(d)
          /\ Dead(d)' <=> Dead(d) /\ d # b
          /\ \A v \in Workers : (MainBy(v, d)' <=> MainBy(v, d)) /\ (TodoBy(v, d)' <=> TodoBy(v, d))
    BY <1>1 DEF MainBy, TodoBy, Armed, Dead, TypeOK, Finished
  <1>10. \A v \in Workers, d \in Cors : WakerBy(v, d)' <=> WakerBy(v, d)
    BY <1>1 DEF WakerBy, At, TypeOK, Threads
  <1>11. \A v \in Workers, d \in Cors : ParkedBy(v, d)' <=> ParkedBy(v, d)
    BY <1>1, <1>4 DEF ParkedBy, MainBy, At, TypeOK, Threads
  <1>12. OneToken'
    BY <1>2, <1>3, <1>9, <1>10 DEF Coming, Tokens, OneToken
  <1>13. \A d \in Cors : Coming(d)' <=> Coming(d) \/ d = b
    BY <1>3, <1>9, <1>10 DEF Coming
  <1>14. HolderKeeps' /\ DeadQuiet' /\ Parked' /\ LiveKept'
    BY <1>4, <1>9, <1>11, <1>13 DEF Tokens, HolderKeeps, DeadQuiet, Parked, LiveKept
  <1> QED BY <1>3, <1>5, <1>6, <1>7, <1>8, <1>12, <1>14 DEF Tokens

LEMMA WakerBodyStep == ASSUME IInv, NEW w \in Workers, WakerBody(w) PROVE IInv'
  <1> USE SchedulerAssumption DEF IInv, Control
  <1>1. PICK c \in Cors : cor[w] \in {Main(c), Waker(c)}
    BY DEF WakerBody, Where, At, TypeOK, Tasks, Main, Waker
  <1>2. /\ cor[w] = Waker(c) /\ pc[w] = "body"
        /\ pc' = [pc EXCEPT ![w] = "notify"] /\ after' = [after EXCEPT ![w] = "swapout"]
        /\ coroutines' = Append(coroutines, Main(c))
        /\ UNCHANGED <<state, wake, cor, idle, todo, pipe, exited>>
    BY <1>1 DEF WakerBody, Add, Goto, Main, Waker
  <1>3. WakerBy(w, c)
    BY <1>2 DEF WakerBy, At
  <1>4. ~Queued(c) /\ Main(c) \in Tasks /\ Main(c)[1] = c
    BY <1>3 DEF Tokens, OneToken, Tasks, Main
  <1>5. /\ coroutines' \in Seq(Tasks) /\ Distinct(coroutines)'
        /\ \A d \in Cors : Queued(d)' <=> Queued(d) \/ d = c
    BY <1>2, <1>4, AppendHas DEF TypeOK, Queued
  <1>6. TypeOK'
    BY <1>2, <1>5 DEF TypeOK, PC, Threads
  <1>7. ExtOutside' /\ Where'
    BY <1>2 DEF TypeOK, ExtOutside, Where, At, Main, Waker, Threads
  <1>8. States'
    BY <1>2 DEF TypeOK, States, MainBy, At, Main, Waker, Threads
  <1>9. OneHolder' /\ RunningHeld' /\ TodoOnce'
    BY <1>2 DEF OneHolder, RunningHeld, TodoOnce, MainBy
  <1>10. \A v \in Workers, d \in Cors :
           /\ MainBy(v, d)' <=> MainBy(v, d)
           /\ TodoBy(v, d)' <=> TodoBy(v, d)
           /\ Armed(d)' <=> Armed(d)
           /\ Dead(d)' <=> Dead(d)
    BY <1>2 DEF MainBy, TodoBy, Armed, Dead
  <1>11. \A v \in Workers, d \in Cors : WakerBy(v, d)' <=> WakerBy(v, d) /\ v # w
    BY <1>2 DEF WakerBy, At, TypeOK, Threads
  <1>12. \A v \in Workers, d \in Cors : ParkedBy(v, d)' <=> ParkedBy(v, d)
    BY <1>2 DEF ParkedBy, MainBy, At, Main, Waker, TypeOK, Threads
  <1>13. \A d \in Cors : WakerBy(w, d) => d = c
    BY <1>2 DEF WakerBy, Waker
  <1>14. OneToken'
    BY <1>3, <1>5, <1>10, <1>11, <1>13 DEF Tokens, OneToken
  <1>15. \A d \in Cors : Coming(d)' <=> Coming(d)
    BY <1>3, <1>5, <1>10, <1>11, <1>13 DEF Coming
  <1>16. HolderKeeps' /\ DeadQuiet' /\ Parked' /\ LiveKept'
    BY <1>10, <1>12, <1>15 DEF Tokens, HolderKeeps, DeadQuiet, Parked, LiveKept
  <1> QED BY <1>5, <1>6, <1>7, <1>8, <1>9, <1>14, <1>16 DEF Tokens

LEMMA PollStep == ASSUME IInv, NEW w \in Workers, Poll(w) PROVE IInv'
  <1> USE SchedulerAssumption DEF IInv, Control
  <1>1. PICK due \in SUBSET {c \in Cors : wake[c] # "none"} :
          /\ todo' = [todo EXCEPT ![w] =
               {Waker(c) : c \in {d \in due : wake[d] = "timer"}} \cup
               {Main(c)  : c \in {d \in due : wake[d] = "event"}}]
          /\ wake' = [c \in Cors |-> IF c \in due THEN "none" ELSE wake[c]]
    BY DEF Poll
  <1>2. /\ pc[w] = "epoll" /\ pc' = [pc EXCEPT ![w] = "dispatch"]
        /\ pipe' \in {pipe, 0}
        /\ UNCHANGED <<coroutines, state, after, cor, idle, exited>>
    BY DEF Poll, Goto
  <1>3. \A d \in Cors :
          /\ Main(d) \in todo'[w] <=> d \in due /\ wake[d] = "event"
          /\ Waker(d) \in todo'[w] <=> d \in due /\ wake[d] = "timer"
    BY <1>1 DEF Main, Waker, TypeOK
  <1>4. \A v \in Workers : v # w => todo'[v] = todo[v]
    BY <1>1 DEF TypeOK
  <1>5. todo[w] = {}
    BY <1>2 DEF Where, At
  <1>6. \A v \in Workers, d \in Cors :
          /\ TodoBy(v, d)' <=> TodoBy(v, d) \/ (v = w /\ d \in due)
          /\ Armed(d)' <=> Armed(d) /\ d \notin due
          /\ d \in due => Armed(d)
    BY <1>1, <1>3, <1>4, <1>5 DEF TodoBy, Armed, TypeOK
  <1>7. \A v \in Workers, d \in Cors :
          /\ MainBy(v, d)' <=> MainBy(v, d)
          /\ Queued(d)' <=> Queued(d)
          /\ Dead(d)' <=> Dead(d)
          /\ WakerBy(v, d)' <=> WakerBy(v, d)
          /\ ParkedBy(v, d)' <=> ParkedBy(v, d)
    BY <1>2 DEF MainBy, Queued, Dead, WakerBy, ParkedBy, At, TypeOK, Threads
  <1>8. TypeOK'
    <2>1. todo' \in [Workers -> SUBSET Tasks]
      BY <1>1 DEF TypeOK, Tasks, Main, Waker
    <2>2. wake' \in [Cors -> {"none", "timer", "event"}] /\ pipe' \in 0..PipeCap
      BY <1>1, <1>2 DEF TypeOK
    <2> QED BY <1>2, <2>1, <2>2 DEF TypeOK, PC
  <1>9. ExtOutside' /\ Where'
    BY <1>2, <1>4 DEF TypeOK, ExtOutside, Where, At, Threads
  <1>10. States'
    BY <1>2 DEF TypeOK, States, MainBy, At, Threads
  <1>11. OneHolder' /\ RunningHeld' /\ Distinct(coroutines)'
    BY <1>2 DEF OneHolder, RunningHeld, MainBy
  <1>12. TodoOnce'
    BY <1>3, <1>4 DEF TodoOnce
  <1>13. OneToken'
    BY <1>6, <1>7 DEF Tokens, OneToken
  <1>14. \A d \in Cors : Coming(d)' <=> Coming(d)
    BY <1>6, <1>7 DEF Coming
  <1>15. HolderKeeps' /\ DeadQuiet' /\ Parked' /\ LiveKept'
    BY <1>7, <1>14 DEF Tokens, HolderKeeps, DeadQuiet, Parked, LiveKept
  <1> QED BY <1>8, <1>9, <1>10, <1>11, <1>12, <1>13, <1>15 DEF Tokens

LEMMA DispatchStep == ASSUME IInv, NEW w \in Workers, Dispatch(w) PROVE IInv'
  <1> USE SchedulerAssumption DEF IInv, Control
  <1>1. PICK task \in todo[w] :
          /\ pc[w] = "dispatch" /\ pc' = [pc EXCEPT ![w] = "notify"]
          /\ after' = [after EXCEPT ![w] = "dispatch"]
          /\ coroutines' = Append(coroutines, task)
          /\ todo' = [todo EXCEPT ![w] = @ \ {task}]
          /\ UNCHANGED <<state, wake, cor, idle, pipe, exited>>
    BY DEF Dispatch, Add, Goto
  <1>2. PICK c \in Cors : c = task[1] /\ task \in {Main(c), Waker(c)} /\ task \in Tasks
    BY DEF TypeOK, Tasks, Main, Waker
  <1>3. TodoBy(w, c)
    BY <1>1, <1>2 DEF TodoBy
  <1>4. ~Queued(c)
    BY <1>3 DEF Tokens, OneToken
  <1>5. /\ coroutines' \in Seq(Tasks) /\ Distinct(coroutines)'
        /\ \A d \in Cors : Queued(d)' <=> Queued(d) \/ d = c
    BY <1>1, <1>2, <1>4, AppendHas DEF TypeOK, Queued
  <1>6. \A v \in Workers, d \in Cors : TodoBy(v, d)' <=> TodoBy(v, d) /\ ~(v = w /\ d = c)
    <2>1. \A v \in Workers : todo'[v] = IF v = w THEN todo[v] \ {task} ELSE todo[v]
      BY <1>1 DEF TypeOK
    <2>2. \A d \in Cors : d # c => Main(d) # task /\ Waker(d) # task
      BY <1>2 DEF Main, Waker
    <2>3. ~(Main(c) \in todo'[w]) /\ ~(Waker(c) \in todo'[w])
      <3>1. todo'[w] = todo[w] \ {task}  BY <2>1
      <3>2. ~(Main(c) \in todo[w] /\ Waker(c) \in todo[w])  BY DEF TodoOnce
      <3> QED BY <1>1, <1>2, <3>1, <3>2
    <2> QED BY <2>1, <2>2, <2>3 DEF TodoBy
  <1>7. \A v \in Workers, d \in Cors :
          /\ MainBy(v, d)' <=> MainBy(v, d)
          /\ Armed(d)' <=> Armed(d)
          /\ Dead(d)' <=> Dead(d)
          /\ WakerBy(v, d)' <=> WakerBy(v, d)
          /\ ParkedBy(v, d)' <=> ParkedBy(v, d)
    BY <1>1 DEF MainBy, Armed, Dead, WakerBy, ParkedBy, At, TypeOK, Threads
  <1>8. TypeOK'
    BY <1>1, <1>5 DEF TypeOK, PC, Threads
  <1>9. ExtOutside' /\ Where'
    BY <1>1 DEF TypeOK, ExtOutside, Where, At, Threads
  <1>10. States'
    BY <1>1 DEF TypeOK, States, MainBy, At, Threads
  <1>11. OneHolder' /\ RunningHeld'
    BY <1>1 DEF OneHolder, RunningHeld, MainBy
  <1>12. TodoOnce'
    BY <1>1 DEF TodoOnce, TypeOK
  <1>13. OneToken'
    BY <1>3, <1>5, <1>6, <1>7 DEF Tokens, OneToken
  <1>14. \A d \in Cors : Coming(d)' <=> Coming(d)
    BY <1>3, <1>5, <1>6, <1>7 DEF Coming, Tokens, OneToken
  <1>15. HolderKeeps' /\ DeadQuiet' /\ Parked' /\ LiveKept'
    BY <1>7, <1>14 DEF Tokens, HolderKeeps, DeadQuiet, Parked, LiveKept
  <1> QED BY <1>5, <1>8, <1>9, <1>10, <1>11, <1>12, <1>13, <1>15 DEF Tokens

-----------------------------------------------------------------------------

LEMMA InitIInv == Init => IInv
  <1> USE SchedulerAssumption DEF Init
  <1> SUFFICES ASSUME Init PROVE IInv
    OBVIOUS
  <1>1. TypeOK
    <2>1. coroutines \in Seq(Tasks) /\ pipe \in 0..PipeCap
      OBVIOUS
    <2>2. pc \in [Threads -> PC] /\ after \in [Threads -> PC \ {"notify"}]
      BY DEF PC
    <2>3. /\ state \in [Cors -> CoState] /\ wake \in [Cors -> {"none", "timer", "event"}]
          /\ cor \in [Workers -> Tasks \cup {None}] /\ todo \in [Workers -> SUBSET Tasks]
          /\ idle \in [Workers -> {"INIT", "RUNNING", "SUSPENDED", "FINIAH"}] /\ exited \in BOOLEAN
      BY DEF CoState
    <2> QED BY <2>1, <2>2, <2>3 DEF TypeOK
  <1>2. ExtOutside /\ Where
    BY DEF ExtOutside, Where, At, Main, Waker, Threads
  <1>3. \A v \in Workers, c \in Cors : ~MainBy(v, c) /\ ~TodoBy(v, c) /\ ~WakerBy(v, c) /\ ~ParkedBy(v, c)
    BY DEF MainBy, TodoBy, WakerBy, ParkedBy, Main, Waker
  <1>4. \A c \in Cors : ~Armed(c) /\ ~Queued(c) /\ Dead(c)
    BY DEF Armed, Queued, Has, Dead
  <1>5. States /\ OneHolder /\ RunningHeld
    BY <1>3 DEF States, OneHolder, RunningHeld
  <1>6. Distinct(coroutines) /\ TodoOnce
    BY DEF Distinct, TodoOnce
  <1>7. Tokens
    BY <1>3, <1>4 DEF Tokens, OneToken, HolderKeeps, DeadQuiet, Parked, LiveKept, Coming
  <1> QED BY <1>1, <1>2, <1>5, <1>6, <1>7 DEF IInv, Control

LEMMA StutterStep == ASSUME IInv, UNCHANGED vars PROVE IInv'
  <1> USE DEF IInv, Control, vars
  <1>1. Control'
    BY DEF TypeOK, ExtOutside, Where, States, OneHolder, RunningHeld, At, MainBy
  <1>2. Distinct(coroutines)' /\ TodoOnce'
    BY DEF Distinct, TodoOnce
  <1>3. TokensStay /\ HoldersStay
    BY DEF TokensStay, HoldersStay, Armed, Queued, TodoBy, WakerBy, Dead, MainBy, ParkedBy, At
  <1> QED BY <1>1, <1>2, <1>3, Frame

LEMMA NextIInv == IInv /\ [Next]_vars => IInv'
  <1> SUFFICES ASSUME IInv, [Next]_vars PROVE IInv'
    OBVIOUS
  <1>1. ASSUME NEW w \in Workers, Take(w) PROVE IInv'         BY <1>1, TakeStep
  <1>2. ASSUME NEW w \in Threads, Notify(w) PROVE IInv'       BY <1>2, NotifyStep
  <1>3. ASSUME NEW w \in Workers, Switch(w) PROVE IInv'
    BY <1>3, ResumeStep, BackStep, ToSUSPENDEDStep, SwapOutStep DEF Switch
  <1>4. ASSUME NEW w \in Workers, Body(w) PROVE IInv'
    <2>1. CASE Spawn(w)
      <3>1. PICK e \in Cors : TRUE  BY <2>1 DEF Spawn
      <3> QED BY <2>1, <3>1, CreateStep
    <2> QED BY <1>4, <2>1, SleepStep, ToReadyStep, MianStep, WakerBodyStep DEF Body
  <1>5. ASSUME NEW w \in Workers, Idle(w) PROVE IInv'
    BY <1>5, GoIdleStep, WaitCheckStep, PollStep, DispatchStep, IdleSwapOutStep DEF Idle
  <1>6. ASSUME NEW c \in Cors, ExternalRun(c) PROVE IInv'     BY <1>6, CreateStep
  <1>7. CASE UNCHANGED vars                                  BY <1>7, StutterStep
  <1> QED BY <1>1, <1>2, <1>3, <1>4, <1>5, <1>6, <1>7 DEF Next, Worker, Threads

\* The strengthening holds in every reachable state.
THEOREM Invariance == Spec => []IInv
  BY InitIInv, NextIInv, PTL DEF Spec

\* Type correctness.
THEOREM TypeCorrect == Spec => []TypeOK
  BY Invariance, PTL DEF IInv, Control

\* No coroutine is ever run, or about to be run, by two workers.
THEOREM RunsExclusively == Spec => []ExclusiveRun
  <1>1. IInv => ExclusiveRun
    <2> SUFFICES ASSUME IInv, NEW v \in Workers, NEW w \in Workers,
                        v # w, cor[v] # None, cor[v] = cor[w]
                 PROVE  cor[v][2] # "main"
      BY DEF ExclusiveRun
    <2>1. cor[v] \in Tasks
      BY DEF IInv, Control, TypeOK
    <2>2. PICK c \in Cors, kind \in {"main", "waker"} : cor[v] = <<c, kind>>
      BY <2>1 DEF Tasks
    <2>3. SUFFICES ASSUME kind = "main"
                   PROVE  FALSE
      BY <2>2
    <2>4. MainBy(v, c) /\ MainBy(w, c)
      BY <2>2, <2>3 DEF MainBy, Main
    <2>5. OneHolder
      BY DEF IInv, Control
    <2> QED BY <2>4, <2>5 DEF OneHolder
  <1> QED BY <1>1, Invariance, PTL

\* The assertions of swapIn, ToReady and ToSUSPENDED never fail.
THEOREM AssertsHold == Spec => []StateAsserts
  <1>1. IInv => StateAsserts
    BY DEF IInv, Control, States, StateAsserts, MainBy, At
  <1> QED BY <1>1, Invariance, PTL

\* No coroutine has two entries in the run queue.
THEOREM QueuesOnce == Spec => []QueuedOnce
  <1>1. IInv => QueuedOnce
    BY DEF IInv, Distinct, QueuedOnce
  <1> QED BY <1>1, Invariance, PTL

\* No live coroutine is ever left without a worker and without a wake-up.
THEOREM NothingForgotten == Spec => []NoOrphan
  <1>1. ASSUME IInv PROVE NoOrphan
    <2> SUFFICES ASSUME NEW c \in Cors, Coming(c) PROVE Pending(c)
      BY <1>1 DEF IInv, Tokens, LiveKept, NoOrphan, Dead, MainBy
    <2>1. CASE Armed(c)  BY <2>1 DEF Armed, Pending
    <2>2. CASE Queued(c)
      <3>1. PICK i \in 1..Len(coroutines) : coroutines[i][1] = c  BY <2>2 DEF Queued, Has
      <3>2. coroutines[i] \in Tasks  BY <1>1 DEF IInv, Control, TypeOK
      <3>3. \E k \in {"main", "waker"} : coroutines[i] = <<c, k>>  BY <3>1, <3>2 DEF Tasks
      <3> QED BY <3>3 DEF Pending, InQueue
    <2>3. CASE \E w \in Workers : TodoBy(w, c)
      BY <2>3 DEF TodoBy, Main, Waker, Pending, InTodo
    <2>4. CASE \E w \in Workers : WakerBy(w, c)
      BY <2>4 DEF WakerBy, At, Pending, WakerHeld
    <2> QED BY <2>1, <2>2, <2>3, <2>4 DEF Coming
  <1> QED BY <1>1, Invariance, PTL

\* No wake-up is lost and none is queued twice.
THEOREM WakesRight == Spec => []WokenRight
  BY QueuesOnce, NothingForgotten, PTL DEF WokenRight

\* A coroutine that has returned or thrown keeps that state: it is not resumed.
THEOREM FinishedStays == Spec => FinishedForGood
  <1> DEFINE Stays == \A c \in Cors : state[c] \in Finished => state'[c] = state[c]
  <1>1. ASSUME IInv, Next PROVE Stays
    <2> USE <1>1 DEF IInv, Control
    <2>1. ASSUME NEW w \in Workers, Resume(w) PROVE Stays
      BY <2>1 DEF Resume, Goto, TypeOK, States, MainBy, At, Finished
    <2>2. ASSUME NEW w \in Workers, Back(w) PROVE Stays
      BY <2>2 DEF Back, Requeues, Ends, Goto, TypeOK
    <2>3. ASSUME NEW w \in Workers, Body(w) PROVE Stays
      <3>1. \A c \in Cors : Runs(w, c) => state[c] = "RUNNING"
        BY DEF Runs, States, MainBy, At
      <3> QED BY <2>3, <3>1 DEF Body, Sleep, AddEvent, ToReady, Mian, LeaveAs, Spawn, WakerBody, TypeOK, Finished
    <2>4. ASSUME NEW c \in Cors, ExternalRun(c) PROVE Stays
      BY <2>4 DEF ExternalRun, TypeOK, Finished
    <2>5. ASSUME NEW w \in Threads,
                 Notify(w) \/ Take(w) \/ ToSUSPENDED(w) \/ SwapOut(w) \/ Idle(w)
          PROVE  Stays
      BY <2>5 DEF Notify, Take, ToSUSPENDED, SwapOut, Idle, GoIdle, WaitCheck, Poll, Dispatch, IdleSwapOut
    <2> QED BY <1>1, <2>1, <2>2, <2>3, <2>4, <2>5 DEF Next, Worker, Switch, Threads
  <1>2. IInv /\ [Next]_vars => [Stays]_state
    BY <1>1 DEF vars
  <1> QED BY <1>2, Invariance, PTL DEF Spec, FinishedForGood
=============================================================================
