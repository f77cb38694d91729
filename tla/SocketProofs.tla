---------------------------- MODULE SocketProofs ----------------------------
(***************************************************************************)
(* Proofs about Socket, for any number of coroutines, descriptors and      *)
(* timers: whoever suspends can be reached and misses nothing, no timer    *)
(* survives its call, and a call ends in a timeout by its own timer only.  *)
(***************************************************************************)
EXTENDS Socket, TLAPS

\* A user in a call has an open descriptor, and a call.
InUse == \A u \in Users : pc[u] # "out" => op[u] \in Ops /\ sock[u] \in Fds

\* Whoever is registered or queued waits, at no other place than its own.
OnlyWaiters ==
  /\ \A k \in Keys, u \in Users : waiter[k] = u => Waiting(u) /\ k = Key(u)
  /\ \A u \in woken : Waiting(u)

\* A user has an int from when its call's timer is armed until the call goes on.
InScope == \A u \in Users :
  t[u] \in Conds => u \in timed /\ pc[u] \in {"add", "suspend", "parked"}

\* An armed timer has not set its int, and what is not over knows its event.
NotYetHit == \A k \in Conds : timer[k] = "armed" => k \notin hit
Informed  == \A k \in Conds : timer[k] # "none" => about[k] \in Keys

IInv == /\ WaitSound /\ NoStrayTimer
        /\ InUse /\ OnlyWaiters /\ InScope /\ NotYetHit /\ Informed

-----------------------------------------------------------------------------

\* The place of a user in a call is one of the table's.
LEMMA KeyIsKey == ASSUME InUse, NEW u \in Users, pc[u] # "out" PROVE Key(u) \in Keys
  BY DEF InUse, Key, Keys, Dirs, Dir

LEMMA InitHolds == Init => IInv
  BY SocketAssumption DEF Init, IInv, WaitSound, TypeOK, Reachable, NothingMissed, NoStrayTimer, InUse,
     OnlyWaiters, InScope, NotYetHit, Informed, Waiting, Keys

-----------------------------------------------------------------------------
(* The steps of a user. *)

\* Beginning a call, and whatever moves a user inside one with no effect on the
\* rest: its place stays what it is.
LEMMA CallStep == ASSUME IInv, NEW u \in Users, NEW o \in Ops, Call(u, o) PROVE IInv'
  <1> USE SocketAssumption DEF Call, Goto, IInv, WaitSound, TypeOK, clock, kernel, table
  <1>1. TypeOK' OBVIOUS
  <1>2. \A v \in Users : v # u => Key(v)' = Key(v) /\ Waiting(v)' = Waiting(v)
    BY DEF Key, Waiting
  <1>3. ~Waiting(u) /\ ~Waiting(u)' BY DEF Waiting
  <1>4. Reachable' BY <1>2, <1>3 DEF Reachable
  <1>5. NothingMissed' BY DEF NothingMissed
  <1>6. NoStrayTimer'
    <2>1. ASSUME NEW k \in Conds, timer[k] = "armed"
          PROVE  \E v \in Users : t[v] = k /\ about[k] = Key(v)'
      <3>1. PICK v \in Users : t[v] = k /\ about[k] = Key(v) BY <2>1 DEF NoStrayTimer
      <3>2. v # u BY <3>1 DEF InScope
      <3>. QED BY <3>1, <3>2, <1>2
    <2>. QED BY <2>1 DEF NoStrayTimer
  <1>7. InUse' BY DEF InUse
  <1>8. OnlyWaiters' BY <1>2, <1>3 DEF OnlyWaiters
  <1>9. InScope' /\ NotYetHit' /\ Informed' BY DEF InScope, NotYetHit, Informed
  <1>. QED BY <1>1, <1>4, <1>5, <1>6, <1>7, <1>8, <1>9

LEMMA DoneStep == ASSUME IInv, NEW u \in Users, Done(u) PROVE IInv'
  <1> USE SocketAssumption DEF Done, Return, Goto, IInv, WaitSound, TypeOK, clock, table
  <1>1. pc[u] = "try" /\ ready[Key(u)] = "yes" /\ Key(u) \in Keys
    BY KeyIsKey DEF Succeeds
  <1>2. TypeOK' BY <1>1
  <1>3. \A v \in Users : v # u => Key(v)' = Key(v) /\ Waiting(v)' = Waiting(v)
    BY DEF Key, Waiting
  <1>4. ~Waiting(u) /\ ~Waiting(u)' BY <1>1 DEF Waiting
  <1>5. Reachable' BY <1>3, <1>4 DEF Reachable
  <1>6. NothingMissed' BY <1>1 DEF NothingMissed
  <1>7. NoStrayTimer'
    <2>1. ASSUME NEW k \in Conds, timer[k] = "armed"
          PROVE  \E v \in Users : t[v] = k /\ about[k] = Key(v)'
      <3>1. PICK v \in Users : t[v] = k /\ about[k] = Key(v) BY <2>1 DEF NoStrayTimer
      <3>2. v # u BY <3>1, <1>1 DEF InScope
      <3>. QED BY <3>1, <3>2, <1>3
    <2>. QED BY <2>1 DEF NoStrayTimer
  <1>8. InUse' BY DEF InUse
  <1>9. OnlyWaiters' BY <1>3, <1>4 DEF OnlyWaiters
  <1>10. InScope' /\ NotYetHit' /\ Informed' BY <1>1 DEF InScope, NotYetHit, Informed
  <1>. QED BY <1>2, <1>5, <1>6, <1>7, <1>8, <1>9, <1>10

LEMMA WouldBlockStep == ASSUME IInv, NEW u \in Users, WouldBlock(u) PROVE IInv'
  <1> USE SocketAssumption DEF WouldBlock, Goto, IInv, WaitSound, TypeOK, clock, kernel, table
  <1>1. TypeOK' OBVIOUS
  <1>2. \A v \in Users : Key(v)' = Key(v) BY DEF Key
  <1>3. \A v \in Users : Waiting(v)' = Waiting(v) BY DEF Waiting
  <1>4. Reachable' /\ NothingMissed' BY <1>2, <1>3 DEF Reachable, NothingMissed
  <1>5. NoStrayTimer' BY <1>2 DEF NoStrayTimer
  <1>6. InUse' BY DEF InUse
  <1>7. OnlyWaiters' BY <1>2, <1>3 DEF OnlyWaiters
  <1>8. InScope' /\ NotYetHit' /\ Informed' BY DEF InScope, NotYetHit, Informed
  <1>. QED BY <1>1, <1>4, <1>5, <1>6, <1>7, <1>8

\* The new int is nobody's, and its timer knows the place of its call.
LEMMA ArmStep == ASSUME IInv, NEW u \in Users, Arm(u) PROVE IInv'
  <1> USE SocketAssumption DEF Arm, Goto, IInv, WaitSound, TypeOK, clock, kernel, table, FreshInt
  <1>1. pc[u] = "arm" /\ Key(u) \in Keys BY KeyIsKey
  <1>2. \A v \in Users : Key(v)' = Key(v) BY DEF Key
  <1>3. \A v \in Users : Waiting(v)' = Waiting(v) BY DEF Waiting
  <1>4. t[u] \notin Conds BY <1>1 DEF InScope
  <1>5. CASE u \in timed
    <2>1. PICK k \in Conds :
            /\ timer[k] = "none" /\ \A v \in Users : t[v] # k
            /\ t' = [t EXCEPT ![u] = k]
            /\ timer' = [timer EXCEPT ![k] = "armed"]
            /\ about' = [about EXCEPT ![k] = Key(u)]
            /\ hit' = hit \ {k}
      BY <1>5
    <2>2. TypeOK' BY <1>1, <2>1
    <2>3. Reachable' /\ NothingMissed' BY <1>2, <1>3 DEF Reachable, NothingMissed
    <2>4. NoStrayTimer'
      <3>1. ASSUME NEW i \in Conds, timer'[i] = "armed"
            PROVE  \E v \in Users : t'[v] = i /\ about'[i] = Key(v)'
        <4>1. CASE i = k BY <4>1, <2>1, <1>2
        <4>2. CASE i # k
          <5>1. PICK v \in Users : t[v] = i /\ about[i] = Key(v)
            BY <4>2, <3>1, <2>1 DEF NoStrayTimer
          <5>2. v # u BY <5>1, <1>4
          <5>. QED BY <5>1, <5>2, <4>2, <2>1, <1>2
        <4>. QED BY <4>1, <4>2
      <3>. QED BY <3>1 DEF NoStrayTimer
    <2>5. InUse' BY DEF InUse
    <2>6. OnlyWaiters' BY <1>2, <1>3 DEF OnlyWaiters
    <2>7. InScope' BY <2>1, <1>5 DEF InScope
    <2>8. NotYetHit' /\ Informed' BY <2>1, <1>1 DEF NotYetHit, Informed
    <2>. QED BY <2>2, <2>3, <2>4, <2>5, <2>6, <2>7, <2>8
  <1>6. CASE u \notin timed
    <2>1. UNCHANGED <<t, hit, timer, about>> BY <1>6
    <2>2. TypeOK' BY <2>1
    <2>3. Reachable' /\ NothingMissed' BY <1>2, <1>3 DEF Reachable, NothingMissed
    <2>4. NoStrayTimer' BY <1>2, <2>1 DEF NoStrayTimer
    <2>5. InUse' BY DEF InUse
    <2>6. OnlyWaiters' BY <1>2, <1>3 DEF OnlyWaiters
    <2>7. InScope' /\ NotYetHit' /\ Informed' BY <2>1 DEF InScope, NotYetHit, Informed
    <2>. QED BY <2>2, <2>3, <2>4, <2>5, <2>6, <2>7
  <1>. QED BY <1>5, <1>6

\* What is ready by now is reported at once.
LEMMA AddEventStep == ASSUME IInv, NEW u \in Users, AddEvent(u) PROVE IInv'
  <1> USE SocketAssumption DEF AddEvent, Goto, IInv, WaitSound, TypeOK, clock
  <1>1. pc[u] = "add" /\ Key(u) \in Keys /\ waiter[Key(u)] = None BY KeyIsKey
  <1>2. TypeOK' BY <1>1 DEF ToldNow
  <1>3. \A v \in Users : Key(v)' = Key(v) BY DEF Key
  <1>4. \A v \in Users : v # u => Waiting(v)' = Waiting(v) BY DEF Waiting
  <1>5. ~Waiting(u) /\ Waiting(u)' BY <1>1 DEF Waiting
  <1>6. u \notin woken BY <1>5 DEF OnlyWaiters
  <1>7. Reachable'
    <2>1. ASSUME NEW v \in Users, Waiting(v)'
          PROVE  (v \in woken') # (waiter'[Key(v)] = v)
      <3>1. CASE v = u BY <3>1, <1>1, <1>3, <1>6
      <3>2. CASE v # u
        <4>1. Waiting(v) /\ Key(v) \in Keys BY <3>2, <2>1, <1>4, KeyIsKey DEF Waiting
        <4>2. waiter'[Key(v)] = v <=> waiter[Key(v)] = v
          BY <1>1, <3>2, <4>1
        <4>. QED BY <4>1, <4>2 DEF Reachable
      <3>. QED BY <3>1, <3>2
    <2>. QED BY <2>1, <1>3 DEF Reachable
  <1>8. NothingMissed' BY <1>1 DEF NothingMissed, ToldNow
  <1>9. NoStrayTimer' BY <1>3 DEF NoStrayTimer
  <1>10. InUse' BY DEF InUse
  <1>11. OnlyWaiters' BY <1>1, <1>3, <1>4, <1>5 DEF OnlyWaiters
  <1>12. InScope' /\ NotYetHit' /\ Informed' BY DEF InScope, NotYetHit, Informed
  <1>. QED BY <1>2, <1>7, <1>8, <1>9, <1>10, <1>11, <1>12

\* A call that goes on or returns takes its timer with it.
LEMMA SettleStays ==
  ASSUME IInv, NEW u \in Users, Settle(u), \A v \in Users : v # u => Key(v)' = Key(v)
  PROVE  /\ timer' \in [Conds -> {"none", "armed", "expired", "fired"}]
         /\ t' \in [Users -> Conds \cup {None}]
         /\ NoStrayTimer' /\ NotYetHit' /\ Informed'
         /\ t'[u] \notin Conds /\ \A v \in Users : v # u => t'[v] = t[v]
  <1> USE SocketAssumption DEF Settle, CancelTimer, IInv, WaitSound, TypeOK
  <1>1. /\ timer' \in [Conds -> {"none", "armed", "expired", "fired"}]
        /\ t' \in [Users -> Conds \cup {None}]
    OBVIOUS
  <1>2. ASSUME NEW k \in Conds, timer'[k] = "armed"
        PROVE  \E v \in Users : t'[v] = k /\ about'[k] = Key(v)'
    <2>1. timer[k] = "armed" /\ k # t[u] BY <1>2
    <2>2. PICK v \in Users : t[v] = k /\ about[k] = Key(v) BY <2>1 DEF NoStrayTimer
    <2>3. v # u BY <2>1, <2>2
    <2>. QED BY <2>2, <2>3
  <1>3. NoStrayTimer' BY <1>2 DEF NoStrayTimer
  <1>4. NotYetHit' /\ Informed' BY DEF NotYetHit, Informed
  <1>. QED BY <1>1, <1>3, <1>4

LEMMA AddEventFailsStep == ASSUME IInv, NEW u \in Users, AddEventFails(u) PROVE IInv'
  <1> USE SocketAssumption DEF AddEventFails, Return, Goto, IInv, WaitSound, TypeOK, kernel, table
  <1>1. \A v \in Users : v # u => Key(v)' = Key(v) /\ Waiting(v)' = Waiting(v)
    BY DEF Key, Waiting
  <1>2. ~Waiting(u) /\ ~Waiting(u)' BY DEF Waiting
  <1>3. /\ timer' \in [Conds -> {"none", "armed", "expired", "fired"}]
        /\ t' \in [Users -> Conds \cup {None}]
        /\ NoStrayTimer' /\ NotYetHit' /\ Informed'
        /\ t'[u] \notin Conds /\ \A v \in Users : v # u => t'[v] = t[v]
    <2>1. Settle(u) OBVIOUS
    <2>. QED BY <2>1, <1>1, SettleStays
  <1>4. hit' = hit /\ about' = about BY DEF Settle
  <1>5. TypeOK' BY <1>3, <1>4
  <1>6. Reachable' /\ NothingMissed' BY <1>1, <1>2 DEF Reachable, NothingMissed
  <1>7. InUse' BY DEF InUse
  <1>8. OnlyWaiters' BY <1>1, <1>2 DEF OnlyWaiters
  <1>9. InScope' BY <1>3 DEF InScope
  <1>. QED BY <1>3, <1>5, <1>6, <1>7, <1>8, <1>9

LEMMA SuspendStep == ASSUME IInv, NEW u \in Users, Suspend(u) PROVE IInv'
  <1> USE SocketAssumption DEF Suspend, Goto, IInv, WaitSound, TypeOK, clock, kernel, table
  <1>1. TypeOK' OBVIOUS
  <1>2. \A v \in Users : Key(v)' = Key(v) BY DEF Key
  <1>3. \A v \in Users : Waiting(v)' = Waiting(v) BY DEF Waiting
  <1>4. Reachable' /\ NothingMissed' BY <1>2, <1>3 DEF Reachable, NothingMissed
  <1>5. NoStrayTimer' BY <1>2 DEF NoStrayTimer
  <1>6. InUse' BY DEF InUse
  <1>7. OnlyWaiters' BY <1>2, <1>3 DEF OnlyWaiters
  <1>8. InScope' /\ NotYetHit' /\ Informed' BY DEF InScope, NotYetHit, Informed
  <1>. QED BY <1>1, <1>4, <1>5, <1>6, <1>7, <1>8

\* Who is queued is registered nowhere.
LEMMA ResumeStep == ASSUME IInv, NEW u \in Users, Resume(u) PROVE IInv'
  <1> USE SocketAssumption DEF Resume, Return, Goto, IInv, WaitSound, TypeOK, kernel
  <1>1. pc[u] = "parked" /\ u \in woken /\ Key(u) \in Keys BY KeyIsKey
  <1>2. \A v \in Users : v # u => Key(v)' = Key(v) /\ Waiting(v)' = Waiting(v)
    BY DEF Key, Waiting
  <1>3. Waiting(u) /\ ~Waiting(u)' BY <1>1 DEF Waiting
  <1>4. /\ timer' \in [Conds -> {"none", "armed", "expired", "fired"}]
        /\ t' \in [Users -> Conds \cup {None}]
        /\ NoStrayTimer' /\ NotYetHit' /\ Informed'
        /\ t'[u] \notin Conds /\ \A v \in Users : v # u => t'[v] = t[v]
    <2>1. Settle(u) OBVIOUS
    <2>. QED BY <2>1, <1>2, SettleStays
  <1>5. hit' = hit /\ about' = about BY DEF Settle
  <1>6. TypeOK' BY <1>4, <1>5
  <1>7. Reachable' BY <1>2, <1>3 DEF Reachable
  <1>8. NothingMissed' BY DEF NothingMissed
  <1>9. InUse' BY <1>1 DEF InUse
  <1>10. waiter[Key(u)] # u BY <1>1, <1>3 DEF Reachable
  <1>11. OnlyWaiters' BY <1>1, <1>2, <1>3, <1>10 DEF OnlyWaiters
  <1>12. InScope' BY <1>4 DEF InScope
  <1>. QED BY <1>4, <1>6, <1>7, <1>8, <1>9, <1>11, <1>12

-----------------------------------------------------------------------------
(* The sockets, the timers, the events and the kernel. *)

LEMMA SocketStep == ASSUME IInv, NEW u \in Users, Open(u) \/ Close(u) PROVE IInv'
  <1> USE SocketAssumption DEF Open, Close, IInv, WaitSound, TypeOK, clock, kernel, table
  <1>1. pc[u] = "out" /\ pc' = pc /\ op' = op /\ UNCHANGED <<timed, t, told, clock, table>> OBVIOUS
  <1>2. TypeOK' BY <1>1 DEF Keys
  <1>3. \A v \in Users : v # u => sock'[v] = sock[v] BY <1>1
  <1>4. \A v \in Users : v # u => Key(v)' = Key(v) BY <1>1, <1>3 DEF Key
  <1>5. \A v \in Users : Waiting(v)' = Waiting(v) BY <1>1 DEF Waiting
  <1>6. ~Waiting(u) BY <1>1 DEF Waiting
  <1>7. Reachable' BY <1>1, <1>4, <1>5, <1>6 DEF Reachable
  <1>8. NothingMissed' BY <1>1 DEF NothingMissed
  <1>9. NoStrayTimer'
    <2>1. ASSUME NEW k \in Conds, timer[k] = "armed"
          PROVE  \E v \in Users : t[v] = k /\ about[k] = Key(v)'
      <3>1. PICK v \in Users : t[v] = k /\ about[k] = Key(v) BY <2>1 DEF NoStrayTimer
      <3>2. v # u BY <3>1, <1>1 DEF InScope
      <3>. QED BY <3>1, <3>2, <1>4
    <2>. QED BY <2>1, <1>1 DEF NoStrayTimer
  <1>10. InUse' BY <1>1, <1>3 DEF InUse
  <1>11. OnlyWaiters' BY <1>1, <1>4, <1>5, <1>6 DEF OnlyWaiters
  <1>12. InScope' /\ NotYetHit' /\ Informed' BY <1>1 DEF InScope, NotYetHit, Informed
  <1>. QED BY <1>2, <1>7, <1>8, <1>9, <1>10, <1>11, <1>12

LEMMA ClockStep == ASSUME IInv, NEW k \in Conds, Expire(k) \/ Callback(k) PROVE IInv'
  <1> USE SocketAssumption DEF IInv, WaitSound, TypeOK
  <1>1. /\ UNCHANGED <<user, about, kernel, table>>
        /\ \E s \in {"none", "expired", "fired"} : timer' = [timer EXCEPT ![k] = s]
        /\ timer[k] # "none" /\ hit' \in {hit, hit \cup {k}}
    BY DEF Expire, Callback
  <1>2. \A v \in Users : Key(v)' = Key(v) /\ Waiting(v)' = Waiting(v)
    BY <1>1 DEF Key, Waiting, user
  <1>3. TypeOK' BY <1>1 DEF user, kernel, table
  <1>4. Reachable' /\ NothingMissed' BY <1>1, <1>2 DEF Reachable, NothingMissed, kernel, table
  <1>5. NoStrayTimer' BY <1>1, <1>2 DEF NoStrayTimer, user
  <1>6. InUse' BY <1>1 DEF InUse, user
  <1>7. OnlyWaiters' BY <1>1, <1>2 DEF OnlyWaiters, table
  <1>8. InScope' BY <1>1 DEF InScope, user
  <1>9. NotYetHit' /\ Informed' BY <1>1 DEF NotYetHit, Informed
  <1>. QED BY <1>3, <1>4, <1>5, <1>6, <1>7, <1>8, <1>9

\* Whoever was registered is queued instead.
LEMMA UnregisterStays ==
  ASSUME IInv, NEW k \in Keys, waiter[k] # None, Unregister(k), UNCHANGED <<user, ready>>
  PROVE  /\ told' \subseteq Keys /\ waiter' \in [Keys -> Users \cup {None}] /\ woken' \subseteq Users
         /\ Reachable' /\ NothingMissed' /\ OnlyWaiters'
  <1> USE SocketAssumption DEF Unregister, Trigger, IInv, WaitSound, TypeOK, user
  <1>1. \A v \in Users : Key(v)' = Key(v) /\ Waiting(v)' = Waiting(v) BY DEF Key, Waiting
  <1>2. waiter[k] \in Users /\ Waiting(waiter[k]) /\ Key(waiter[k]) = k
    BY DEF OnlyWaiters
  <1>3. told' \subseteq Keys /\ waiter' \in [Keys -> Users \cup {None}] /\ woken' \subseteq Users
    BY <1>2
  <1>4. ASSUME NEW v \in Users, Waiting(v)
        PROVE  (v \in woken') # (waiter'[Key(v)] = v)
    <2>1. Key(v) \in Keys BY <1>4, KeyIsKey DEF Waiting
    <2>2. CASE v = waiter[k] BY <2>1, <2>2, <1>2
    <2>3. CASE v # waiter[k] BY <2>1, <2>3, <1>4 DEF Reachable
    <2>. QED BY <2>2, <2>3
  <1>5. Reachable' BY <1>1, <1>4 DEF Reachable
  <1>6. NothingMissed' BY DEF NothingMissed
  <1>7. OnlyWaiters' BY <1>1, <1>2 DEF OnlyWaiters
  <1>. QED BY <1>3, <1>5, <1>6, <1>7

LEMMA CancelEventStep == ASSUME IInv, NEW k \in Conds, CancelEvent(k) PROVE IInv'
  <1> USE SocketAssumption DEF CancelEvent, Registered, IInv, WaitSound, TypeOK
  <1>1. /\ UNCHANGED <<user, hit, about, ready>> /\ timer' = [timer EXCEPT ![k] = "none"]
        /\ about[k] \in Keys
    BY DEF Informed
  <1>2. /\ told' \subseteq Keys /\ waiter' \in [Keys -> Users \cup {None}] /\ woken' \subseteq Users
        /\ Reachable' /\ NothingMissed' /\ OnlyWaiters'
    <2>1. CASE waiter[about[k]] # None BY <2>1, <1>1, UnregisterStays
    <2>2. CASE UNCHANGED <<waiter, woken, told>>
      <3>1. \A v \in Users : Key(v)' = Key(v) /\ Waiting(v)' = Waiting(v)
        BY <1>1 DEF Key, Waiting, user
      <3>. QED BY <2>2, <1>1, <3>1 DEF Reachable, NothingMissed, OnlyWaiters
    <2>. QED BY <2>1, <2>2 DEF table
  <1>3. \A v \in Users : Key(v)' = Key(v) BY <1>1 DEF Key, user
  <1>4. TypeOK' BY <1>1, <1>2 DEF user
  <1>5. NoStrayTimer' BY <1>1, <1>3 DEF NoStrayTimer, user
  <1>6. InUse' /\ InScope' BY <1>1 DEF InUse, InScope, user
  <1>7. NotYetHit' /\ Informed' BY <1>1 DEF NotYetHit, Informed
  <1>. QED BY <1>2, <1>4, <1>5, <1>6, <1>7

LEMMA ReportStep == ASSUME IInv, NEW k \in Keys, Report(k) PROVE IInv'
  <1> USE SocketAssumption DEF Report, IInv, WaitSound, TypeOK, clock
  <1>1. /\ told' \subseteq Keys /\ waiter' \in [Keys -> Users \cup {None}] /\ woken' \subseteq Users
        /\ Reachable' /\ NothingMissed' /\ OnlyWaiters'
    BY UnregisterStays
  <1>2. \A v \in Users : Key(v)' = Key(v) BY DEF Key, user
  <1>3. TypeOK' BY <1>1 DEF user
  <1>4. NoStrayTimer' BY <1>2 DEF NoStrayTimer, user
  <1>5. InUse' /\ InScope' BY DEF InUse, InScope, user
  <1>6. NotYetHit' /\ Informed' BY DEF NotYetHit, Informed
  <1>. QED BY <1>1, <1>3, <1>4, <1>5, <1>6

\* What arrives for a registered event is going to be reported.
LEMMA ArriveStep == ASSUME IInv, NEW k \in Keys, NEW r \in {"yes", "end"}, Arrive(k, r) PROVE IInv'
  <1> USE SocketAssumption DEF Arrive, IInv, WaitSound, TypeOK, clock, table, user
  <1>1. TypeOK' OBVIOUS
  <1>2. \A v \in Users : Key(v)' = Key(v) /\ Waiting(v)' = Waiting(v) BY DEF Key, Waiting
  <1>3. Reachable' /\ OnlyWaiters' BY <1>2 DEF Reachable, OnlyWaiters
  <1>4. NothingMissed' BY DEF NothingMissed
  <1>5. NoStrayTimer' BY <1>2 DEF NoStrayTimer
  <1>6. InUse' /\ InScope' /\ NotYetHit' /\ Informed' BY DEF InUse, InScope, NotYetHit, Informed
  <1>. QED BY <1>1, <1>3, <1>4, <1>5, <1>6

LEMMA NothingHappens == ASSUME IInv, UNCHANGED vars PROVE IInv'
  <1> USE DEF vars, user, clock, kernel, table
  <1>1. \A v \in Users : Key(v)' = Key(v) /\ Waiting(v)' = Waiting(v) BY DEF Key, Waiting
  <1>2. TypeOK' BY DEF IInv, WaitSound, TypeOK
  <1>3. Reachable' /\ NothingMissed' BY <1>1 DEF IInv, WaitSound, Reachable, NothingMissed
  <1>4. t' = t /\ timer' = timer /\ about' = about /\ waiter' = waiter /\ woken' = woken OBVIOUS
  <1>5. NoStrayTimer'
    <2>1. ASSUME NEW k \in Conds, timer[k] = "armed"
          PROVE  \E v \in Users : t[v] = k /\ about[k] = Key(v)'
      BY <2>1, <1>1 DEF IInv, NoStrayTimer
    <2>. QED BY <2>1, <1>4 DEF NoStrayTimer
  <1>6. OnlyWaiters' BY <1>1, <1>4 DEF IInv, WaitSound, TypeOK, OnlyWaiters
  <1>. QED BY <1>2, <1>3, <1>5, <1>6 DEF IInv, WaitSound, InUse, InScope, NotYetHit, Informed

-----------------------------------------------------------------------------

\* Every step preserves the invariant.
LEMMA NextStep == ASSUME IInv, [Next]_vars PROVE IInv'
  <1>1. ASSUME NEW u \in Users,
               Accept(u) \/ Connect(u) \/ Recv(u) \/ RecvMsg(u)
                 \/ Send(u) \/ SendMsg(u) \/ SendTo(u) \/ SendMsgTo(u)
        PROVE  IInv'
    <2>1. PICK o \in {"accept", "connect", "recv", "recvmsg", "send", "sendmsg", "sendto", "sendmsgto"} :
            Call(u, o)
      BY <1>1 DEF Accept, Connect, Recv, RecvMsg, Send, SendMsg, SendTo, SendMsgTo
    <2>2. o \in Ops BY <2>1 DEF Call
    <2>. QED BY <2>1, <2>2, CallStep
  <1>2. ASSUME NEW u \in Users, Open(u) \/ Close(u) PROVE IInv' BY <1>2, SocketStep
  <1>3. ASSUME NEW u \in Users, InCall(u) PROVE IInv'
    <2>1. CASE Spin(u) BY <2>1, NothingHappens DEF Spin
    <2>. QED BY <1>3, <2>1, DoneStep, WouldBlockStep, ArmStep, AddEventStep, SuspendStep, ResumeStep
             DEF InCall
  <1>4. ASSUME NEW u \in Users, AddEventFails(u) PROVE IInv' BY <1>4, AddEventFailsStep
  <1>5. ASSUME NEW k \in Conds, Timer(k) PROVE IInv'
    BY <1>5, ClockStep, CancelEventStep DEF Timer
  <1>6. ASSUME NEW k \in Keys, Report(k) \/ Arrive(k, "yes") \/ Arrive(k, "end") PROVE IInv'
    BY <1>6, ReportStep, ArriveStep
  <1>7. CASE UNCHANGED vars BY <1>7, NothingHappens
  <1>8. CASE Next BY <1>8, <1>1, <1>2, <1>3, <1>4, <1>5, <1>6 DEF Next
  <1>. QED BY <1>7, <1>8

LEMMA Invariance == Spec => []IInv
  <1>1. Init => IInv BY InitHolds
  <1>2. IInv /\ [Next]_vars => IInv' BY NextStep
  <1>. QED BY <1>1, <1>2, PTL DEF Spec

\* Whoever waits, or is about to suspend, is queued or registered at its own
\* place, and what is ready for the registered is going to be reported: no order
\* of system call, arming, registration, expiry, callback and report loses a
\* wake-up (socket.cc, the loops from EWOULDBLOCK to ToSUSPENDED).
THEOREM WaitsSoundly == Spec => []WaitSound
  <1>1. IInv => WaitSound BY DEF IInv
  <1>. QED BY <1>1, Invariance, PTL

\* An armed timer belongs to a call that waits, for the event it would cancel:
\* cancelTimer before every return and every new try leaves none behind.
THEOREM NoTimerStrays == Spec => []NoStrayTimer
  <1>1. IInv => NoStrayTimer BY DEF IInv
  <1>. QED BY <1>1, Invariance, PTL

\* A call ends in a timeout only if it has one, and its own timer has expired:
\* the int that the callback sets is no other call's.
THEOREM TimesOutItself == Spec => OwnTimeout
  <1> DEFINE Own == \A u \in Users :
               result'[u] = "timeout" /\ result[u] # "timeout" =>
                 u \in timed /\ timer[t[u]] # "armed" /\ pc[u] = "parked"
  <1>1. ASSUME IInv, [Next]_vars PROVE [Own]_vars
    <2>1. SUFFICES ASSUME Next, NEW u \in Users, result'[u] = "timeout", result[u] # "timeout"
                   PROVE  u \in timed /\ timer[t[u]] # "armed" /\ pc[u] = "parked"
      BY <1>1
    <2>2. result \in [Users -> {"none", "done", "fail", "timeout"}] BY <1>1 DEF IInv, WaitSound, TypeOK
    <2>3. Resume(u) /\ TimedOut(u)
      <3>1. \A v \in Users, o \in Receives \cup Sends : ~Call(v, o) BY <2>1, <2>2 DEF Call
      <3>2. \A v \in Users : ~Open(v) /\ ~Close(v) /\ ~AddEventFails(v)
        BY <2>1, <2>2 DEF Open, Close, AddEventFails, Return
      <3>3. \A k \in Conds : ~Timer(k)
        BY <2>1, <2>2 DEF Timer, Expire, Callback, CancelEvent, user
      <3>4. \A k \in Keys : ~Report(k) /\ ~Arrive(k, "yes") /\ ~Arrive(k, "end")
        BY <2>1, <2>2 DEF Report, Arrive, user
      <3>5. \A v \in Users : InCall(v) => Resume(v)
        BY <2>1, <2>2 DEF InCall, Done, Return, Spin, vars, user, WouldBlock, Arm, AddEvent, Suspend
      <3>6. PICK v \in Users : Resume(v)
        BY <2>1, <3>1, <3>2, <3>3, <3>4, <3>5
        DEF Next, Accept, Connect, Recv, RecvMsg, Send, SendMsg, SendTo, SendMsgTo, Receives, Sends
      <3>. QED BY <2>1, <2>2, <3>6 DEF Resume, Return
    <2>4. pc[u] = "parked" BY <2>3 DEF Resume, Return, Goto
    <2>5. t[u] \in Conds /\ t[u] \in hit
      BY <1>1, <2>3 DEF TimedOut, IInv, WaitSound, TypeOK
    <2>. QED BY <1>1, <2>4, <2>5 DEF IInv, InScope, NotYetHit
  <1>. QED BY <1>1, Invariance, PTL DEF Spec, OwnTimeout
=============================================================================
