---------------------------- MODULE MCTimerManage ----------------------------
\* Instances of TimerManage for TLC.
EXTENDS TimerManage

CONSTANTS c1, w1, w2, t1, t2

\* Two instances in one: there are two timers, and one of the workers never gets
\* to poll; or two workers that do, and one timer.
VARIABLE two

MCInit == Init /\ two \in {"timers", "workers"}

MCNext ==
  /\ Next /\ UNCHANGED two
  /\ two = "timers"  => pc'[w2] = "idle"
  /\ two = "workers" => t2 \notin Armed'

MCSpec == MCInit /\ [][MCNext]_<<vars, two>> /\ Fairness
=============================================================================
