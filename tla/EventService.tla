---------------------------- MODULE EventService ----------------------------
(***************************************************************************)
(* What the event table of IOScheduler promises its callers, with no       *)
(* contexts, no epoll and no locks: each direction of a descriptor has at  *)
(* most one waiter, a wait ends with exactly one wake-up, and the number   *)
(* of waits is known.  cancelAll is the exception: it ends the wait of a   *)
(* writer without a wake-up, and the wait stays counted.                   *)
(***************************************************************************)
EXTENDS Integers, FiniteSets

CONSTANTS Fds, Events, Callers, None

VARIABLES
  waiting,  \* waiting[f][e]: who waits for event e of descriptor f
  at,       \* "running", "parked", or given up: "dropped" or "forgotten"
  count     \* how many waits there are

vars == <<waiting, at, count>>

Init ==
  /\ waiting = [f \in Fds |-> [e \in Events |-> None]]
  /\ at = [c \in Callers |-> "running"]
  /\ count = 0

\* A running caller starts to wait where nobody does.
Wait(c, f, e) ==
  /\ at[c] = "running" /\ waiting[f][e] = None
  /\ waiting' = [waiting EXCEPT ![f][e] = c]
  /\ at' = [at EXCEPT ![c] = "parked"]
  /\ count' = count + 1

\* Some waits for f end: each waiter runs again.
Wake(f, E) ==
  /\ E # {} /\ \A e \in E : waiting[f][e] # None
  /\ waiting' = [waiting EXCEPT ![f] = [e \in Events |-> IF e \in E THEN None ELSE @[e]]]
  /\ at' = [c \in Callers |-> IF \E e \in E : waiting[f][e] = c THEN "running" ELSE at[c]]
  /\ count' = count - Cardinality(E)

\* A wait is withdrawn: its waiter is not woken for it.
Withdraw(f, e) ==
  /\ waiting[f][e] # None
  /\ waiting' = [waiting EXCEPT ![f][e] = None]
  /\ at' = [at EXCEPT ![waiting[f][e]] = "dropped"]
  /\ count' = count - 1

\* All waits for f end, and only the reader runs again.
CancelAll(f) ==
  /\ waiting[f]["WRITE"] # None
  /\ LET reader == waiting[f]["READ"]
         writer == waiting[f]["WRITE"]
     IN  /\ at' = [c \in Callers |-> IF c = reader THEN "running"
                                  ELSE IF c = writer THEN "forgotten" ELSE at[c]]
         /\ count' = IF reader = None THEN count ELSE count - 1
  /\ waiting' = [waiting EXCEPT ![f] = [e \in Events |-> None]]

Next == \E f \in Fds :
  \/ \E c \in Callers, e \in Events : Wait(c, f, e)
  \/ \E E \in SUBSET Events : Wake(f, E)
  \/ \E e \in Events : Withdraw(f, e)
  \/ CancelAll(f)

Spec == Init /\ [][Next]_vars
=============================================================================
