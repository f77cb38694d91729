------------------------- MODULE TimerManageProofs -------------------------
(***************************************************************************)
(* Proofs about TimerManage, for any number of callers, workers and        *)
(* timers: no timer is lost or in two places, none is called early, the    *)
(* workers never all sleep past the first, and the timers implement        *)
(* TimerService.  The one about sleeping needs every period to fit an int, *)
(* and leaves out the time that signals make a worker lose.                *)
(***************************************************************************)
EXTENDS TimerManage, WellFoundedInduction, TLAPS

\* A timer has never more time left than its period.
WithinPeriod == \A t \in Timers : left[t] <= ms[t]

\* A worker holds callbacks only while it is about to add them, which are then
\* those of timers it has taken out just now.
Collected == \A w \in Workers : pc[w] # "add" => cbs[w] = {}

Base == TypeOK /\ OneHome /\ WithinPeriod /\ Collected

-----------------------------------------------------------------------------
(* Numbers. *)

\* A set of naturals has a least element.
LEMMA LeastOf == ASSUME NEW S \in SUBSET Nat, S # {} PROVE \E m \in S : \A n \in S : m <= n
  <1> DEFINE Less == OpToRel(<, Nat)
  <1>1. IsWellFoundedOn(Less, Nat) BY NatLessThanWellFounded
  <1>2. PICK m \in S : \A n \in S : ~(<<n, m>> \in Less)
    <2> HIDE DEF Less
    <2> QED BY <1>1, WFMin
  <1>3. \A n \in S : <<n, m>> \in Less <=> n < m BY DEF OpToRel
  <1>4. m \in Nat /\ S \subseteq Nat OBVIOUS
  <1>5. \A n \in S : ~(n < m)
    <2> HIDE DEF Less
    <2> QED BY <1>2, <1>3
  <1>. QED BY <1>4, <1>5

LEMMA FloorType ==
  ASSUME NEW d \in Int PROVE Floor(d) \in Int /\ Floor(d) >= -MaxLag /\ Floor(d) >= d
                             /\ \A n \in Nat : d <= n => Floor(d) <= n
  BY TimerAssumption DEF Floor

LEMMA FirstPeriodType == FirstPeriod \in Periods /\ FirstPeriod \in Nat
  BY TimerAssumption DEF FirstPeriod

\* What fits an int is what it was.
LEMMA AsIntFits == ASSUME NEW n \in Nat, n <= IntMax PROVE AsInt(n) = n
  <1>1. n % (2 * IntMax + 2) = n BY TimerAssumption
  <1>. QED BY <1>1, TimerAssumption DEF AsInt

\* getNextTimer returns what is left of the first timer's delay.
LEMMA NextTimerIs ==
  ASSUME TypeOK, timers # {}
  PROVE  /\ NextTimer \in Nat
         /\ \A t \in timers : NextTimer = 0 \/ NextTimer <= left[t]
         /\ \E t \in timers : NextTimer = 0 \/ NextTimer = left[t]
  <1> DEFINE D == {left[t] + MaxLag : t \in timers}
             first == CHOOSE t \in timers : \A u \in timers : left[t] <= left[u]
  <1>1. /\ \A t \in timers : left[t] \in Int /\ left[t] + MaxLag \in Nat
        /\ MaxLag \in Nat
    BY TimerAssumption DEF TypeOK
  <1>2. PICK m \in D : \A n \in D : m <= n
    <2>1. D \in SUBSET Nat /\ D # {} BY <1>1
    <2> HIDE DEF D
    <2>. QED BY <2>1, LeastOf
  <1>3. PICK t \in timers : m = left[t] + MaxLag BY <1>2
  <1>4. ASSUME NEW u \in timers PROVE left[t] <= left[u]
    <2>1. left[u] + MaxLag \in D OBVIOUS
    <2>2. m <= left[u] + MaxLag
      <3> HIDE DEF D
      <3>. QED BY <1>2, <2>1
    <2>. QED BY <1>1, <1>3, <2>2
  <1>5. first \in timers /\ \A u \in timers : left[first] <= left[u] BY <1>4
  <1>. QED BY <1>1, <1>5 DEF NextTimer

LEMMA TimeoutType == ASSUME TypeOK PROVE Timeout \in Forever..MaxTimeout
  <1>1. CASE timers = {} BY <1>1, TimerAssumption DEF Timeout, Forever
  <1>2. CASE timers # {}
    <2>1. NextTimer \in Nat BY <1>2, NextTimerIs
    <2>2. AsInt(NextTimer) \in Int BY <2>1, TimerAssumption DEF AsInt
    <2>. QED BY <2>2, TimerAssumption DEF Timeout, Forever
  <1>. QED BY <1>1, <1>2

-----------------------------------------------------------------------------

LEMMA InitBase == Init => Base
  <1> SUFFICES ASSUME Init PROVE Base OBVIOUS
  <1> USE TimerAssumption, FirstPeriodType DEF Init
  <1>1. TypeOK
    <2>1. /\ asked \in [Workers -> Forever..MaxTimeout] /\ until \in [Workers -> Forever..MaxTimeout]
          /\ \A w \in Workers : until[w] <= asked[w] /\ (until[w] = Forever <=> asked[w] = Forever)
          /\ late \in [Workers -> 0..MaxLate]
      BY DEF Forever, MaxLate
    <2>2. left \in [Timers -> Int] /\ \A t \in Timers : left[t] >= -MaxLag OBVIOUS
    <2>3. ms \in [Timers -> Periods] OBVIOUS
    <2>4. lag \in [Workers -> 0..MaxLag] OBVIOUS
    <2>5. pc \in [Callers \cup Workers ->
                    {"out", "insert", "notify", "idle", "timed", "sleep", "now", "check", "collect", "add"}]
      OBVIOUS
    <2>6. val \in [Callers -> Timers \cup {None}] /\ cbs \in [Workers -> SUBSET Timers]
          /\ timers \subseteq Timers /\ recur \subseteq Timers
          /\ seen \subseteq Workers /\ edge \in BOOLEAN
      OBVIOUS
    <2> QED BY ONLY <2>1, <2>2, <2>3, <2>4, <2>5, <2>6 DEF TypeOK
  <1>2. OneHome BY DEF OneHome
  <1>3. WithinPeriod /\ Collected BY DEF WithinPeriod, Collected
  <1>. QED BY <1>1, <1>2, <1>3 DEF Base

-----------------------------------------------------------------------------
(* The callers. *)

LEMMA NewStep ==
  ASSUME Base, NEW c \in Callers, NEW t \in Timers, NEW p \in Periods, New(c, t, p) PROVE Base'
  <1> USE TimerAssumption DEF Base, TypeOK, New, Goto, Armed, Held
  <1>1. TypeOK' OBVIOUS
  <1>2. OneHome' BY DEF OneHome
  <1>3. WithinPeriod' /\ Collected' BY DEF WithinPeriod, Collected
  <1>. QED BY <1>1, <1>2, <1>3

LEMMA InsertStep == ASSUME Base, NEW c \in Callers, Insert(c) PROVE Base'
  <1> USE TimerAssumption DEF Base, TypeOK, Insert, Goto
  <1>1. val[c] \in Timers BY DEF OneHome
  <1>2. TypeOK' BY <1>1
  <1>3. OneHome' BY <1>1 DEF OneHome
  <1>4. WithinPeriod' /\ Collected' BY DEF WithinPeriod, Collected
  <1>. QED BY <1>2, <1>3, <1>4

LEMMA NotifyStep == ASSUME Base, NEW c \in Callers, Notify(c) PROVE Base'
  <1> USE TimerAssumption DEF Base, TypeOK, Notify, Goto
  <1>1. TypeOK' OBVIOUS
  <1>2. OneHome' BY DEF OneHome
  <1>3. WithinPeriod' /\ Collected' BY DEF WithinPeriod, Collected
  <1>. QED BY <1>1, <1>2, <1>3

LEMMA CancelStep == ASSUME Base, NEW t \in Timers, CancelTimer(t) PROVE Base'
  <1> USE TimerAssumption, FirstPeriodType DEF Base, TypeOK, CancelTimer
  <1>1. TypeOK' OBVIOUS
  <1>2. OneHome' BY DEF OneHome
  <1>3. WithinPeriod' /\ Collected' BY DEF WithinPeriod, Collected
  <1>. QED BY <1>1, <1>2, <1>3

LEMMA RefreshStep == ASSUME Base, NEW t \in Timers, RefreshTimer(t) PROVE Base'
  <1> USE TimerAssumption DEF Base, TypeOK, RefreshTimer
  <1>1. ms[t] \in Nat OBVIOUS
  <1>2. TypeOK' BY <1>1
  <1>3. OneHome' BY DEF OneHome
  <1>4. WithinPeriod' /\ Collected' BY <1>1 DEF WithinPeriod, Collected
  <1>. QED BY <1>2, <1>3, <1>4

\* Whether or not it starts again, a timer has no more left than its new period.
LEMMA ResetStep ==
  ASSUME Base, NEW c \in Callers, NEW t \in Timers, NEW p \in Periods, NEW from_now \in BOOLEAN,
         ResetTimer(c, t, p, from_now)
  PROVE  Base'
  <1> USE TimerAssumption DEF Base, TypeOK, ResetTimer, Goto, Taken
  <1>1. p \in Nat /\ ms[t] \in Nat /\ left[t] \in Int OBVIOUS
  <1>2. /\ Floor(left[t] - ms[t] + p) \in Int
        /\ Floor(left[t] - ms[t] + p) >= -MaxLag /\ Floor(left[t] - ms[t] + p) <= p
    <2>1. left[t] - ms[t] + p \in Int /\ left[t] - ms[t] + p <= p BY <1>1 DEF WithinPeriod
    <2>. QED BY <1>1, <2>1, FloorType
  <1>3. PICK d \in Int : left' = [left EXCEPT ![t] = d] /\ d >= -MaxLag /\ d <= p
    <2>1. CASE from_now
      <3>1. left' = [left EXCEPT ![t] = p] BY <2>1
      <3>2. p \in Int /\ p >= -MaxLag /\ p <= p BY <1>1
      <3>. QED BY <3>1, <3>2
    <2>2. CASE ~from_now
      <3>1. left' = [left EXCEPT ![t] = Floor(left[t] - ms[t] + p)] BY <2>2
      <3>. QED BY <3>1, <1>2
    <2>. QED BY <2>1, <2>2
  <1>4. TypeOK' BY <1>3
  <1>5. OneHome' BY DEF OneHome
  <1>6. WithinPeriod' /\ Collected' BY <1>1, <1>3 DEF WithinPeriod, Collected
  <1>. QED BY <1>4, <1>5, <1>6

-----------------------------------------------------------------------------
(* The workers and the clock. *)

LEMMA PollStep ==
  ASSUME Base, NEW w \in Workers,
         \/ GetNextTimer(w) \/ EpollWait(w) \/ Interrupted(w) \/ Wake(w)
         \/ WakeByEvent(w) \/ ReadNow(w) \/ CheckFirst(w)
  PROVE  Base'
  <1> USE TimerAssumption DEF Base, Goto
  <1>1. /\ UNCHANGED <<timers, ms, recur, left, val, cbs>>
        /\ pc[w] # "add"
        /\ \/ pc' = pc
           \/ \E to \in {"timed", "sleep", "now", "check", "add", "collect"} :
                pc' = [pc EXCEPT ![w] = to]
    BY DEF GetNextTimer, EpollWait, Interrupted, Wake, WakeByEvent, Return, ReadNow, CheckFirst
  <1>2. \/ UNCHANGED <<asked, until, late>>
        \/ /\ asked' = [asked EXCEPT ![w] = Timeout] /\ until' = [until EXCEPT ![w] = Timeout]
           /\ late' = late
        \/ /\ asked' = asked /\ until' = [until EXCEPT ![w] = asked[w]]
           /\ late' = [late EXCEPT ![w] = LoseTime(late[w] + asked[w] - until[w])]
        \/ /\ asked' = [asked EXCEPT ![w] = 0] /\ until' = [until EXCEPT ![w] = 0]
           /\ late' = [late EXCEPT ![w] = 0]
    BY DEF GetNextTimer, EpollWait, Interrupted, Wake, WakeByEvent, Return, ReadNow, CheckFirst
  <1>3. /\ asked' \in [Workers -> Forever..MaxTimeout] /\ until' \in [Workers -> Forever..MaxTimeout]
        /\ \A v \in Workers : until'[v] <= asked'[v] /\ (until'[v] = Forever <=> asked'[v] = Forever)
        /\ late' \in [Workers -> 0..MaxLate]
    <2>1. Timeout \in Forever..MaxTimeout BY TimeoutType
    <2>2. 0 \in Forever..MaxTimeout /\ 0 \in 0..MaxLate BY DEF Forever, MaxLate
    <2>3. LoseTime(late[w] + asked[w] - until[w]) \in 0..MaxLate
      <3>1. /\ late[w] \in Nat /\ asked[w] \in Int /\ until[w] \in Int /\ until[w] <= asked[w]
            /\ MaxLate \in Nat
        BY DEF TypeOK, Forever, MaxLate
      <3>. QED BY <3>1 DEF LoseTime
    <2> HIDE DEF Base
    <2>4. /\ asked \in [Workers -> Forever..MaxTimeout] /\ until \in [Workers -> Forever..MaxTimeout]
          /\ \A v \in Workers : until[v] <= asked[v] /\ (until[v] = Forever <=> asked[v] = Forever)
          /\ late \in [Workers -> 0..MaxLate]
      BY DEF Base, TypeOK
    <2>. QED BY ONLY <1>2, <2>1, <2>2, <2>3, <2>4, w \in Workers, TimerAssumption DEF Forever
  <1>4. lag' \in [Workers -> 0..MaxLag]
    BY DEF TypeOK, GetNextTimer, EpollWait, Interrupted, Wake, WakeByEvent, Return, ReadNow, CheckFirst
  <1>5. seen' \subseteq Workers /\ edge' \in BOOLEAN
    BY DEF TypeOK, GetNextTimer, EpollWait, Interrupted, Wake, WakeByEvent, Return, ReadNow, CheckFirst
  <1>6. TypeOK' BY <1>1, <1>3, <1>4, <1>5 DEF TypeOK
  <1>7. OneHome' BY <1>1 DEF OneHome, TypeOK
  <1>8. WithinPeriod' /\ Collected' BY <1>1 DEF WithinPeriod, Collected, TypeOK
  <1>. QED BY <1>6, <1>7, <1>8

\* What listExpiredCbs leaves of each timer's delay.
LEMMA CollectLeaves ==
  ASSUME Base, NEW w \in Workers, Collect(w)
  PROVE  left' \in [Timers -> Int] /\ ms' \in [Timers -> Periods]
         /\ \A t \in Timers : left'[t] >= -MaxLag /\ left'[t] <= ms'[t]
  <1> USE TimerAssumption DEF Base
  <1>1. left' = [t \in Timers |-> IF t \notin Due(w) THEN left[t]
                                  ELSE IF t \in recur THEN Floor(ms[t] - lag[w]) ELSE 0]
    BY DEF Collect
  <1>2. ms' = [t \in Timers |-> IF t \in Due(w) \ recur THEN FirstPeriod ELSE ms[t]] BY DEF Collect
  <1>3. \A t \in Timers : ms[t] \in Periods /\ ms[t] \in Nat /\ left[t] \in Int /\ lag[w] \in 0..MaxLag
    BY DEF TypeOK
  <1>4. \A t \in Timers : Floor(ms[t] - lag[w]) \in Int /\ Floor(ms[t] - lag[w]) >= -MaxLag
                          /\ Floor(ms[t] - lag[w]) <= ms[t]
    <2>1. ASSUME NEW t \in Timers
          PROVE  ms[t] - lag[w] \in Int /\ ms[t] - lag[w] <= ms[t] /\ ms[t] \in Nat
      BY <1>3
    <2>. QED BY <2>1, FloorType
  <1>5. ASSUME NEW t \in Timers
        PROVE  /\ left'[t] \in Int /\ left'[t] >= -MaxLag /\ left'[t] <= ms'[t] /\ ms'[t] \in Periods
    <2>1. CASE t \notin Due(w) BY <2>1, <1>1, <1>2, <1>3 DEF TypeOK, WithinPeriod
    <2>2. CASE t \in Due(w) /\ t \in recur BY <2>2, <1>1, <1>2, <1>3, <1>4
    <2>3. CASE t \in Due(w) /\ t \notin recur BY <2>3, <1>1, <1>2, FirstPeriodType
    <2>. QED BY <2>1, <2>2, <2>3
  <1>. QED BY <1>1, <1>2, <1>5

LEMMA CollectStep == ASSUME Base, NEW w \in Workers, Collect(w) PROVE Base'
  <1> USE TimerAssumption DEF Base, Goto
  <1>1. /\ timers' \subseteq timers /\ UNCHANGED <<recur, val, asked, until, late, seen, edge>>
        /\ pc[w] = "collect" /\ pc' = [pc EXCEPT ![w] = "add"]
        /\ cbs' = [cbs EXCEPT ![w] = Due(w)] /\ lag' = [lag EXCEPT ![w] = 0] /\ Due(w) \subseteq timers
    BY DEF Collect, Rearm, Due
  <1>2. TypeOK' BY <1>1, CollectLeaves DEF TypeOK
  <1>3. OneHome' BY <1>1 DEF OneHome, TypeOK
  <1>4. WithinPeriod' BY CollectLeaves DEF WithinPeriod
  <1>5. Collected' BY <1>1 DEF Collected, TypeOK
  <1>. QED BY <1>2, <1>3, <1>4, <1>5

LEMMA AddCbsStep == ASSUME Base, NEW w \in Workers, AddCbs(w) PROVE Base'
  <1> USE TimerAssumption DEF Base, TypeOK, AddCbs, Goto
  <1>1. TypeOK' OBVIOUS
  <1>2. OneHome' BY DEF OneHome
  <1>3. WithinPeriod' /\ Collected' BY DEF WithinPeriod, Collected
  <1>. QED BY <1>1, <1>2, <1>3

LEMMA TickStep == ASSUME Base, Tick PROVE Base'
  <1> USE TimerAssumption DEF Base, Tick
  <1>1. \A t \in Timers : left[t] \in Int /\ left[t] >= -MaxLag /\ left[t] <= ms[t] /\ ms[t] \in Nat
    BY DEF TypeOK, WithinPeriod
  <1>2. \A t \in Timers : Floor(left[t] - 1) \in Int /\ Floor(left[t] - 1) >= -MaxLag
                          /\ Floor(left[t] - 1) <= ms[t]
    <2>1. ASSUME NEW t \in Timers
          PROVE  left[t] - 1 \in Int /\ left[t] - 1 <= ms[t] /\ ms[t] \in Nat
      BY <1>1
    <2>. QED BY <2>1, FloorType
  <1>3. /\ left' \in [Timers -> Int]
        /\ \A t \in Timers : left'[t] >= -MaxLag /\ left'[t] <= ms[t]
    BY <1>1, <1>2
  <1>4. /\ until' \in [Workers -> Forever..MaxTimeout]
        /\ \A w \in Workers : until'[w] <= asked[w] /\ (until'[w] = Forever <=> asked[w] = Forever)
    BY DEF TypeOK, Forever
  <1>5. lag' \in [Workers -> 0..MaxLag] BY DEF TypeOK
  <1>8. late' \in [Workers -> 0..MaxLate] BY DEF TypeOK, LoseTime, MaxLate
  <1>6. TypeOK' BY <1>3, <1>4, <1>5, <1>8 DEF TypeOK
  <1>7. OneHome' /\ WithinPeriod' /\ Collected' BY <1>3 DEF OneHome, WithinPeriod, Collected
  <1>. QED BY <1>6, <1>7

\* Every step preserves Base.
LEMMA BaseStep == ASSUME Base, [Next]_vars PROVE Base'
  <1>1. CASE Next
    BY <1>1, NewStep, InsertStep, NotifyStep, CancelStep, RefreshStep, ResetStep, PollStep,
       CollectStep, AddCbsStep, TickStep
    DEF Next, Caller, Worker, InWait
  <1>2. CASE UNCHANGED vars
    BY <1>2 DEF vars, Base, TypeOK, OneHome, WithinPeriod, Collected
  <1>. QED BY <1>1, <1>2

LEMMA BaseHolds == Spec => []Base
  <1>. QED BY InitBase, BaseStep, PTL DEF Spec

-----------------------------------------------------------------------------
(* No callback is handed out early. *)

\* A worker is handed callbacks by listExpiredCbs alone, which takes the timers
\* that were over when it read the clock; whatever has happened to them since,
\* what it sees under the lock is what it compares with that reading.
THEOREM CalledInTime == Spec => NeverEarly
  <1> DEFINE InTime == \A w \in Workers : \A t \in cbs'[w] \ cbs[w] : left[t] <= 0
  <1>1. ASSUME Base, [Next]_vars PROVE InTime
    <2> USE DEF Base
    <2>1. ASSUME NEW w \in Workers, Collect(w) PROVE InTime
      <3>1. cbs' = [cbs EXCEPT ![w] = Due(w)] BY <2>1 DEF Collect
      <3>2. \A t \in Due(w) : left[t] <= 0
        <4>1. lag[w] \in 0..MaxLag /\ \A t \in timers : left[t] \in Int BY <1>1 DEF TypeOK
        <4>. QED BY <4>1, TimerAssumption DEF Due
      <3>. QED BY <1>1, <3>1, <3>2 DEF TypeOK
    <2>2. ASSUME NEW w \in Workers, AddCbs(w) PROVE InTime
      <3>1. cbs' = [cbs EXCEPT ![w] = {}] BY <2>2 DEF AddCbs
      <3>. QED BY <1>1, <3>1 DEF TypeOK
    <2>3. CASE UNCHANGED cbs BY <2>3
    <2>4. CASE Next
      <3>1. \/ \E w \in Workers : Collect(w) \/ AddCbs(w)
            \/ UNCHANGED cbs
        BY <2>4
        DEF Next, Caller, Worker, InWait, New, Insert, Notify, CancelTimer, RefreshTimer, ResetTimer,
            GetNextTimer, EpollWait, Interrupted, Wake, WakeByEvent, Return, ReadNow, CheckFirst, Tick
      <3> HIDE DEF InTime
      <3>. QED BY <3>1, <2>1, <2>2, <2>3
    <2>5. CASE UNCHANGED vars
      <3>1. UNCHANGED cbs BY <2>5 DEF vars
      <3>. QED BY <3>1, <2>3
    <2>. QED BY <1>1, <2>4, <2>5
  <1>2. Base /\ [Next]_vars => [InTime]_vars BY <1>1
  <1>. QED BY <1>2, BaseHolds, PTL DEF Spec, NeverEarly

-----------------------------------------------------------------------------
(* The workers never all sleep past the first timer. *)

\* Every timer is still to be seen to by this worker, or ends no earlier than it,
\* but for the time it has lost.
Awake(w) ==
  \/ pc[w] \notin {"timed", "sleep"}
  \/ until[w] # Forever /\ \A t \in timers : until[w] <= left[t] + late[w] \/ until[w] = 0
Warned == edge \/ \E c \in Callers : pc[c] = "notify"

LEMMA Oversleep == NoOversleep <=> Warned \/ \E w \in Workers : Awake(w)
  BY DEF NoOversleep, Warned, Awake

\* A worker that goes to sleep has the first timer's delay for its timeout, if
\* the delay fits an int.
LEMMA SleepsInTime ==
  ASSUME Base, Periods \subseteq 0..IntMax
  PROVE  Timeout # Forever /\ \A t \in timers : Timeout <= left[t] \/ Timeout = 0
  <1> USE TimerAssumption DEF Base
  <1>1. CASE timers = {} BY <1>1 DEF Timeout, Forever
  <1>2. CASE timers # {}
    <2>1. NextTimer \in Nat /\ \A t \in timers : NextTimer = 0 \/ NextTimer <= left[t]
      BY <1>2, NextTimerIs
    <2>2. \A t \in timers : left[t] \in Int /\ left[t] <= IntMax
      <3>1. \A t \in timers : left[t] \in Int /\ ms[t] \in 0..IntMax /\ left[t] <= ms[t]
        BY DEF TypeOK, WithinPeriod
      <3>. QED BY <3>1
    <2>3. NextTimer <= IntMax
      <3>1. PICK t \in timers : NextTimer = 0 \/ NextTimer = left[t] BY <1>2, NextTimerIs
      <3>. QED BY <3>1, <2>2
    <2>4. AsInt(NextTimer) = NextTimer BY <2>1, <2>3, AsIntFits
    <2>. QED BY <1>2, <2>1, <2>2, <2>4 DEF Timeout, Forever
  <1>. QED BY <1>1, <1>2

LEMMA OversleepStep ==
  ASSUME Base, Base', NoOversleep, Periods \subseteq 0..IntMax, [Next]_vars
  PROVE  NoOversleep'
  <1> USE TimerAssumption DEF Base
  <1>1. ASSUME NEW w \in Workers, Awake(w)', TRUE PROVE NoOversleep'
    BY <1>1 DEF NoOversleep, Awake
  <1>2. ASSUME Warned' PROVE NoOversleep' BY <1>2 DEF NoOversleep, Warned
  <1>3. Warned \/ \E w \in Workers : Awake(w) BY Oversleep
  \* What moves no worker, hurries no timer and takes no warning back.
  <1>4. ASSUME \A w \in Workers : pc'[w] = pc[w], UNCHANGED until, timers' \subseteq timers,
               late' = late, \A t \in timers' : left[t] <= left'[t], Warned => Warned'
        PROVE  NoOversleep'
    <2>1. ASSUME NEW w \in Workers, Awake(w) PROVE Awake(w)'
      BY <1>4, <2>1 DEF Awake, TypeOK
    <2>. QED BY <1>1, <1>2, <1>3, <1>4, <2>1
  <1>5. CASE \E c \in Callers, t \in Timers, p \in Periods : New(c, t, p)
    <2>1. PICK c \in Callers, t \in Timers, p \in Periods : New(c, t, p) BY <1>5
    <2>2. Warned => Warned' BY <2>1 DEF New, Goto, Warned, TypeOK
    <2>3. t \notin timers BY <2>1 DEF New, Armed
    <2>4. \A w \in Workers : pc'[w] = pc[w] BY <2>1 DEF New, Goto, TypeOK
    <2>5. UNCHANGED <<until, late, timers>> /\ \A u \in timers' : left[u] <= left'[u]
      BY <2>1, <2>3 DEF New, TypeOK
    <2>. QED BY <2>2, <2>4, <2>5, <1>4
  <1>6. CASE \E c \in Callers : Insert(c)
    <2>1. PICK c \in Callers : Insert(c) BY <1>6
    <2>2. PICK front \in BOOLEAN :
            /\ Goto(c, "insert", IF front THEN "notify" ELSE "out")
            /\ AtFront(val[c], front)
      BY <2>1 DEF Insert
    <2>3. timers' = timers \cup {val[c]} /\ UNCHANGED <<left, until, late, edge>> /\ val[c] \in Timers
      BY <2>1, <2>2 DEF Insert, Goto, OneHome, TypeOK
    <2>4. CASE front
      <3>1. pc'[c] = "notify" BY <2>2, <2>4 DEF Goto, TypeOK
      <3>. QED BY <3>1, <1>2 DEF Warned
    <2>5. CASE ~front
      <3>1. Warned => Warned' BY <2>2, <2>3 DEF Goto, Warned, TypeOK
      <3>2. \A w \in Workers : pc'[w] = pc[w] BY <2>2 DEF Goto, TypeOK
      <3>3. PICK u \in timers : left[u] <= left[val[c]]
        BY <2>2, <2>3, <2>5 DEF AtFront, TypeOK
      <3>4. ASSUME NEW w \in Workers, Awake(w) PROVE Awake(w)'
        BY <2>3, <3>2, <3>3, <3>4 DEF Awake, TypeOK
      <3>. QED BY <3>1, <3>4, <1>1, <1>2, <1>3
    <2>. QED BY <2>4, <2>5
  <1>7. CASE \E c \in Callers : Notify(c)
    <2>1. edge' = TRUE BY <1>7 DEF Notify
    <2>. QED BY <2>1, <1>2 DEF Warned
  <1>8. CASE \E t \in Timers : CancelTimer(t)
    <2>1. PICK t \in Timers : CancelTimer(t) BY <1>8
    <2>2. UNCHANGED <<pc, until, late, edge>> /\ timers' = timers \ {t} BY <2>1 DEF CancelTimer
    <2>3. \A u \in timers' : left[u] <= left'[u] BY <2>1 DEF CancelTimer, TypeOK
    <2>. QED BY <2>2, <2>3, <1>4 DEF Warned
  <1>9. CASE \E t \in Timers : RefreshTimer(t)
    <2>1. PICK t \in Timers : RefreshTimer(t) BY <1>9
    <2>2. UNCHANGED <<pc, until, late, edge, timers>> BY <2>1 DEF RefreshTimer
    <2>3. \A u \in timers' : left[u] <= left'[u]
      BY <2>1 DEF RefreshTimer, TypeOK, WithinPeriod
    <2>. QED BY <2>2, <2>3, <1>4 DEF Warned
  <1>10. CASE \E c \in Callers, t \in Timers, p \in Periods, from_now \in BOOLEAN :
                ResetTimer(c, t, p, from_now)
    <2>1. PICK c \in Callers, t \in Timers, p \in Periods, from_now \in BOOLEAN :
            ResetTimer(c, t, p, from_now)
      BY <1>10
    <2>2. UNCHANGED <<until, late, edge>> /\ timers' = timers \ {t} BY <2>1 DEF ResetTimer, Taken
    <2>3. \A w \in Workers : pc'[w] = pc[w] BY <2>1 DEF ResetTimer, Goto, TypeOK
    <2>4. \A u \in timers' : left[u] <= left'[u]
      <3>1. \A u \in timers' : u # t /\ u \in Timers BY <2>2 DEF TypeOK
      <3>2. \A u \in Timers : u # t => left'[u] = left[u] BY <2>1 DEF ResetTimer, TypeOK
      <3>. QED BY <3>1, <3>2 DEF TypeOK
    <2>5. Warned => Warned' BY <2>1 DEF ResetTimer, Goto, Warned, TypeOK
    <2>. QED BY <2>2, <2>3, <2>4, <2>5, <1>4
  <1>11. CASE \E w \in Workers : GetNextTimer(w)
    <2>1. PICK w \in Workers : GetNextTimer(w) BY <1>11
    <2>2. Awake(w)'
      <3>1. until'[w] = Timeout /\ UNCHANGED <<timers, left, late>> /\ late[w] \in Nat
        BY <2>1 DEF GetNextTimer, TypeOK
      <3>2. Timeout # Forever /\ \A t \in timers : Timeout <= left[t] \/ Timeout = 0
        BY SleepsInTime
      <3>3. \A t \in timers : left[t] \in Int BY DEF TypeOK
      <3>4. Timeout \in Int BY TimeoutType DEF Forever
      <3>. QED BY <3>1, <3>2, <3>3, <3>4 DEF Awake
    <2>. QED BY <2>2, <1>1
  <1>15. CASE \E w \in Workers : EpollWait(w)
    <2>1. PICK v \in Workers : EpollWait(v) BY <1>15
    <2>2. UNCHANGED <<timers, left, until, late, edge>> BY <2>1 DEF EpollWait
    <2>3. Warned => Warned' BY <2>1, <2>2 DEF Warned, EpollWait, Goto, TypeOK
    <2>4. ASSUME NEW w \in Workers, Awake(w) PROVE Awake(w)'
      BY <2>1, <2>2, <2>4 DEF Awake, EpollWait, Goto, TypeOK
    <2>. QED BY <2>3, <2>4, <1>1, <1>2, <1>3
  <1>16. CASE \E w \in Workers : Interrupted(w)
    <2>1. PICK v \in Workers : Interrupted(v) BY <1>16
    <2>2. UNCHANGED <<timers, left, pc, edge>> BY <2>1 DEF Interrupted
    <2>3. ASSUME NEW w \in Workers, Awake(w) PROVE Awake(w)'
      <3>1. CASE w # v BY <2>1, <2>2, <2>3, <3>1 DEF Awake, Interrupted, TypeOK
      <3>2. CASE w = v
        <4>1. /\ until'[v] = asked[v] /\ until[v] # Forever
              /\ late'[v] = LoseTime(late[v] + asked[v] - until[v])
          BY <2>1, <2>3, <3>2 DEF Awake, Interrupted, TypeOK
        <4>2. /\ asked[v] \in Int /\ asked[v] <= MaxTimeout /\ asked[v] # Forever
              /\ until[v] \in Int /\ until[v] # 0 /\ late[v] \in Nat
          BY <2>1, <4>1 DEF Interrupted, TypeOK, Forever
        <4>3. ASSUME NEW t \in timers PROVE asked[v] <= left[t] + late'[v]
          <5>1. until[v] <= left[t] + late[v] BY <2>1, <2>3, <3>2, <4>2 DEF Awake, Interrupted
          <5>2. left[t] \in Int /\ left[t] >= -MaxLag BY DEF TypeOK
          <5>3. MaxLate = MaxTimeout + MaxLag BY DEF MaxLate
          <5>4. CASE late[v] + asked[v] - until[v] > MaxLate
            <6>1. late'[v] = MaxLate BY <4>1, <5>4 DEF LoseTime
            <6>. QED BY <6>1, <5>2, <5>3, <4>2
          <5>5. CASE ~(late[v] + asked[v] - until[v] > MaxLate)
            <6>1. late'[v] = late[v] + asked[v] - until[v] BY <4>1, <5>5 DEF LoseTime
            <6>. QED BY <6>1, <5>1, <5>2, <4>2
          <5>. QED BY <5>4, <5>5
        <4>. QED BY <2>2, <3>2, <4>1, <4>2, <4>3 DEF Awake
      <3>. QED BY <3>1, <3>2
    <2>4. Warned => Warned' BY <2>2 DEF Warned
    <2>. QED BY <2>3, <2>4, <1>1, <1>2, <1>3
  <1>12. CASE \E w \in Workers : \/ Wake(w) \/ WakeByEvent(w) \/ ReadNow(w)
                                  \/ CheckFirst(w) \/ Collect(w) \/ AddCbs(w)
    <2>1. PICK w \in Workers : \/ Wake(w) \/ WakeByEvent(w) \/ ReadNow(w)
                               \/ CheckFirst(w) \/ Collect(w) \/ AddCbs(w)
      BY <1>12
    <2>2. pc'[w] \notin {"timed", "sleep"}
      BY <2>1 DEF Wake, WakeByEvent, Return, ReadNow, CheckFirst, Collect, AddCbs, Goto, TypeOK
    <2>. QED BY <2>2, <1>1 DEF Awake
  <1>13. CASE Tick
    <2>1. UNCHANGED <<timers, pc, edge>> BY <1>13 DEF Tick
    <2>2. Warned => Warned' BY <2>1 DEF Warned
    <2>3. \A t \in timers : left[t] \in Int /\ left[t] >= -MaxLag
                           /\ left'[t] \in Int /\ left'[t] >= left[t] - 1 /\ left'[t] >= -MaxLag
      <3>1. \A t \in timers : left[t] \in Int /\ left[t] >= -MaxLag BY DEF TypeOK
      <3>2. \A t \in timers : left[t] - 1 \in Int BY <3>1
      <3>3. \A t \in timers : left'[t] = Floor(left[t] - 1) BY <1>13 DEF Tick, Armed, TypeOK
      <3>4. \A t \in timers : /\ Floor(left[t] - 1) \in Int /\ Floor(left[t] - 1) >= left[t] - 1
                             /\ Floor(left[t] - 1) >= -MaxLag
        BY <3>2, FloorType
      <3>. QED BY <3>1, <3>3, <3>4
    <2>4. ASSUME NEW w \in Workers, Awake(w) PROVE Awake(w)'
      <3>1. CASE pc[w] \notin {"timed", "sleep"} BY <3>1, <2>1 DEF Awake
      <3>2. CASE pc[w] \in {"timed", "sleep"}
        <4>1. until[w] \in Nat /\ until[w] <= MaxTimeout /\ late[w] \in Nat
          BY <2>4, <3>2 DEF Awake, TypeOK, Forever
        <4>2. \A t \in timers : until[w] <= left[t] + late[w] \/ until[w] = 0
          BY <2>4, <3>2 DEF Awake
        <4>3. CASE pc[w] = "sleep"
          <5>1. until'[w] = (IF until[w] > 0 THEN until[w] - 1 ELSE until[w]) /\ late'[w] = late[w]
            BY <1>13, <4>3 DEF Tick
          <5>. QED BY <2>1, <2>3, <4>1, <4>2, <5>1 DEF Awake, Forever
        <4>4. CASE pc[w] = "timed"
          <5>1. until'[w] = until[w] /\ late'[w] = LoseTime(late[w] + 1) BY <1>13, <4>4 DEF Tick
          <5>2. late'[w] = late[w] + 1 \/ late'[w] = MaxTimeout + MaxLag
            BY <5>1 DEF LoseTime, MaxLate
          <5>3. ASSUME NEW t \in timers PROVE until'[w] <= left'[t] + late'[w] \/ until'[w] = 0
            BY <2>3, <4>1, <4>2, <5>1, <5>2
          <5>. QED BY <2>1, <4>1, <5>1, <5>3 DEF Awake, Forever
        <4>. QED BY <3>2, <4>3, <4>4
      <3>. QED BY <3>1, <3>2
    <2>. QED BY <2>2, <2>4, <1>1, <1>2, <1>3
  <1>14. CASE UNCHANGED vars
    <2>1. UNCHANGED <<edge, pc, until, late, timers, left>> BY <1>14 DEF vars
    <2>. QED BY <2>1 DEF NoOversleep
  <1>. QED
    BY <1>5, <1>6, <1>7, <1>8, <1>9, <1>10, <1>11, <1>12, <1>13, <1>14, <1>15, <1>16
    DEF Next, Caller, Worker, InWait

\* The timers stay whole, and the workers never all sleep past the first of them
\* by more than the time they lose between getNextTimer and epoll_wait and to
\* signals, each of which makes epoll_wait begin anew; as long as every period
\* fits an int: next_timeout is compared as one, and one that is negative then
\* makes epoll_wait sleep for ever.
THEOREM SoundTimers ==
  ASSUME Periods \subseteq 0..IntMax, Workers # {} PROVE Spec => []TimersSound
  <1>1. Init => NoOversleep
    <2> SUFFICES ASSUME Init PROVE NoOversleep OBVIOUS
    <2>1. PICK w \in Workers : TRUE OBVIOUS
    <2>2. pc[w] = "idle" BY TimerAssumption DEF Init
    <2>. QED BY <2>2 DEF NoOversleep
  <1>2. Base /\ Base' /\ NoOversleep /\ [Next]_vars => NoOversleep' BY OversleepStep
  <1>3. Spec => []NoOversleep BY <1>1, <1>2, BaseHolds, PTL DEF Spec
  <1>4. Base /\ NoOversleep => TimersSound BY DEF Base, TimersSound
  <1>. QED BY <1>3, <1>4, BaseHolds, PTL

-----------------------------------------------------------------------------
(* TimerManage implements TimerService. *)

Pending == UNION {cbs[w] : w \in Workers}

LEMMA ServiceInit == Init => Service!Init
  <1> SUFFICES ASSUME Init PROVE Armed = {} /\ recur = {} /\ Pending = {}
    BY DEF Service!Init, Pending
  <1>. QED BY DEF Init, Armed, Held, Pending

LEMMA ServiceStep == ASSUME Base, [Next]_vars PROVE [Service!Next]_(Service!vars)
  <1> USE DEF Base
  <1>1. ASSUME Armed' = Armed, recur' = recur, Pending' = Pending
        PROVE  [Service!Next]_(Service!vars)
    BY <1>1 DEF Service!vars, Pending
  <1>2. ASSUME UNCHANGED <<timers, val, recur, cbs>> PROVE [Service!Next]_(Service!vars)
    BY <1>1, <1>2 DEF Armed, Held, Pending
  <1>3. ASSUME NEW c \in Callers, NEW t \in Timers, NEW p \in Periods, New(c, t, p)
        PROVE  [Service!Next]_(Service!vars)
    <2> USE <1>3
    <2>1. val[c] = None BY DEF New, Goto, OneHome
    <2>2. Held' = Held \cup {t} BY <2>1, TimerAssumption DEF New, Held, TypeOK
    <2>3. Armed' = Armed \cup {t} BY <2>2 DEF Armed, New
    <2>4. t \notin Armed \cup Pending /\ Pending' = Pending BY DEF New, Pending
    <2>5. recur' \in {recur \cup {t}, recur \ {t}} BY DEF New
    <2>6. Service!Arm(t) BY <2>3, <2>4, <2>5 DEF Service!Arm, Pending
    <2>. QED BY <2>6 DEF Service!Next
  <1>4. ASSUME NEW c \in Callers, Insert(c) PROVE [Service!Next]_(Service!vars)
    <2> USE <1>4
    <2>1. val[c] # None BY DEF Insert, Goto, OneHome
    <2>2. \A d \in Callers : d # c => val[d] # val[c] BY <2>1 DEF OneHome
    <2>3. Held' = Held \ {val[c]} BY <2>1, <2>2 DEF Insert, Held, TypeOK
    <2>4. val[c] \in Held BY <2>1 DEF Held
    <2>5. Armed' = Armed BY <2>3, <2>4 DEF Armed, Insert
    <2>. QED BY <2>5, <1>1 DEF Insert, Pending
  <1>5. ASSUME NEW t \in Timers, CancelTimer(t) PROVE [Service!Next]_(Service!vars)
    <2> USE <1>5
    <2>1. t \in timers /\ t \notin Held BY DEF CancelTimer, OneHome, Held
    <2>2. Held' = Held /\ Pending' = Pending BY DEF CancelTimer, Held, Pending
    <2>3. Armed' = Armed \ {t} /\ t \in Armed BY <2>1, <2>2 DEF Armed, CancelTimer
    <2>4. Service!Cancel(t) BY <2>2, <2>3 DEF Service!Cancel, CancelTimer, Pending
    <2>. QED BY <2>4 DEF Service!Next
  <1>6. ASSUME NEW c \in Callers, NEW t \in Timers, NEW p \in Periods, NEW from_now \in BOOLEAN,
               ResetTimer(c, t, p, from_now)
        PROVE  [Service!Next]_(Service!vars)
    <2> USE <1>6
    <2>1. val[c] = None BY DEF ResetTimer, Goto, OneHome
    <2>2. Held' = Held \cup {t} BY <2>1, TimerAssumption DEF ResetTimer, Held, TypeOK
    <2>3. Armed' = Armed BY <2>2 DEF Armed, ResetTimer, Taken
    <2>. QED BY <2>3, <1>1 DEF ResetTimer, Pending
  <1>7. ASSUME NEW w \in Workers, Collect(w) PROVE [Service!Next]_(Service!vars)
    <2> USE <1>7
    <2>1. cbs[w] = {} BY DEF Collected, Collect, Goto
    <2>2. cbs' = [cbs EXCEPT ![w] = Due(w)] BY DEF Collect
    <2>3. Pending' = Pending \cup Due(w) BY <2>1, <2>2 DEF Pending, TypeOK
    <2>4. Due(w) \subseteq timers /\ timers \cap Held = {} BY DEF Due, OneHome, Held
    <2>5. timers' = (timers \ Due(w)) \cup (Due(w) \cap recur) /\ Held' = Held /\ recur' = recur
      BY DEF Collect, Rearm, Held
    <2>6. Armed' = Armed \ (Due(w) \ recur) BY <2>4, <2>5 DEF Armed
    <2>7. Due(w) \in SUBSET Armed BY <2>4 DEF Armed
    <2>8. PICK due \in SUBSET Armed : due = Due(w) BY <2>7
    <2>9. Service!Expire(due) BY <2>3, <2>5, <2>6, <2>8 DEF Service!Expire, Pending
    <2>. QED BY <2>9 DEF Service!Next
  <1>8. ASSUME NEW w \in Workers, AddCbs(w) PROVE [Service!Next]_(Service!vars)
    <2> USE <1>8
    <2>1. Pending' \in SUBSET Pending BY DEF AddCbs, Pending, TypeOK
    <2>2. Armed' = Armed /\ recur' = recur BY DEF AddCbs, Armed, Held
    <2>3. Service!Call BY <2>1, <2>2 DEF Service!Call, Pending
    <2>. QED BY <2>3 DEF Service!Next
  <1>9. CASE Next
    <2>1. \/ \E c \in Callers, t \in Timers, p \in Periods :
               \/ New(c, t, p)
               \/ \E from_now \in BOOLEAN : ResetTimer(c, t, p, from_now)
          \/ \E c \in Callers : Insert(c)
          \/ \E t \in Timers : CancelTimer(t)
          \/ \E w \in Workers : Collect(w) \/ AddCbs(w)
          \/ UNCHANGED <<timers, val, recur, cbs>>
      BY <1>9
      DEF Next, Caller, Worker, InWait, Notify, RefreshTimer, GetNextTimer, EpollWait, Interrupted,
          Wake, WakeByEvent, Return, ReadNow, CheckFirst, Tick
    <2>. QED BY <2>1, <1>2, <1>3, <1>4, <1>5, <1>6, <1>7, <1>8
  <1>10. CASE UNCHANGED vars BY <1>10, <1>2 DEF vars
  <1>. QED BY <1>9, <1>10

\* TimerManage, with a reset timer counted as armed while it is in neither set,
\* keeps every promise of TimerService: no timer is lost, none but a recurring
\* one is armed again by expiring, and no callback comes from nowhere.
THEOREM TimersServe == Spec => ImplementsService
  <1>1. Base /\ [Next]_vars => [Service!Next]_(Service!vars) BY ServiceStep
  <1>. QED BY <1>1, ServiceInit, BaseHolds, PTL DEF Spec, ImplementsService, Service!Spec

=============================================================================
