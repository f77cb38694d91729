---------------------------- MODULE TimerService ----------------------------
(***************************************************************************)
(* What TimerManage promises: a timer that is armed stays so until it is   *)
(* cancelled or expires, its callback is called only after it has expired, *)
(* and a recurring one, and no other, is armed again by expiring.          *)
(***************************************************************************)
CONSTANT Timers

VARIABLES
  armed,      \* the timers that will expire
  recurring,
  pending     \* those whose callback is about to be called

vars == <<armed, recurring, pending>>

Init == armed = {} /\ recurring = {} /\ pending = {}

Arm(t) ==
  /\ t \notin armed \cup pending
  /\ armed' = armed \cup {t}
  /\ recurring' \in {recurring \cup {t}, recurring \ {t}}
  /\ UNCHANGED pending

Cancel(t) ==
  /\ t \in armed
  /\ armed' = armed \ {t} /\ recurring' = recurring \ {t}
  /\ UNCHANGED pending

Expire(due) ==
  /\ pending' = pending \cup due
  /\ armed' = armed \ (due \ recurring)
  /\ UNCHANGED recurring

Call == pending' \in SUBSET pending /\ UNCHANGED <<armed, recurring>>

Next ==
  \/ \E t \in Timers : Arm(t) \/ Cancel(t)
  \/ \E due \in SUBSET armed : Expire(due)
  \/ Call

Spec == Init /\ [][Next]_vars
=============================================================================
