--------------------------- MODULE SessionDataMan ---------------------------
(***************************************************************************)
(* The sessions of http_sessiondata.cc: users look sessions up, add and    *)
(* delete them; a recurring timer deletes those nobody has used for        *)
(* m_ttime.  The timer reads the clock before it waits for the lock,       *)
(* collects keys under the shared lock and deletes them one by one under   *)
(* the exclusive one.  Times are kept as distances from now.               *)
(***************************************************************************)
EXTENDS Integers

CONSTANTS Keys, None, TTime,
          MaxLag      \* bound on the time that the timer's callback takes, and
                      \* the wait of addSessionData for the lock

VARIABLES age,        \* now - m_time of the session of a key, or None
          timer,      \* where the timer's callback is
          lag,        \* how long ago the callback has read the clock
          overtimes,  \* the keys it has collected
          touched     \* ghost: keys used or added since the clock was read

vars == <<age, timer, lag, overtimes, touched>>

\* Ages from here on are all out of date, whatever the lag.
MaxAge == TTime + MaxLag + 1

-----------------------------------------------------------------------------
(* Properties *)

\* Every variable has its type.
TypeOK ==
  /\ age \in [Keys -> 0 .. MaxAge \cup {None}]
  /\ timer \in {"idle", "scan", "delete"} /\ lag \in 0 .. MaxLag
  /\ overtimes \subseteq Keys /\ touched \subseteq Keys
  /\ timer # "delete" => overtimes = {}

\* The timer deletes a session only if it is out of date, or was used or added
\* again since the timer read the clock.
DeletesStale ==
  [][\A k \in overtimes \ overtimes' :
       age[k] # None => age[k] > TTime \/ k \in touched]_vars

-----------------------------------------------------------------------------

Init == /\ age = [k \in Keys |-> None] /\ timer = "idle"
        /\ lag = 0 /\ overtimes = {} /\ touched = {}

Tick == /\ timer = "idle" \/ lag < MaxLag
        /\ lag' = IF timer = "idle" THEN 0 ELSE lag + 1
        /\ age' = [k \in Keys |-> IF age[k] \in {None, MaxAge} THEN age[k]
                                  ELSE age[k] + 1]
        /\ UNCHANGED <<timer, overtimes, touched>>

\* isValid, with the clock read under the session's mutex.
Valid(k) == age[k] <= TTime

\* getSessionData and hasSessionData: a valid session is refreshed.
GetSessionData(k) ==
  /\ age[k] # None /\ Valid(k)
  /\ age' = [age EXCEPT ![k] = 0] /\ touched' = touched \cup {k}
  /\ UNCHANGED <<timer, lag, overtimes>>

\* A session under a key that has one already takes its place.  It has read the
\* clock before the wait for the lock.
AddSessionData(k) ==
  /\ \E wait \in 0 .. MaxLag : age' = [age EXCEPT ![k] = wait]
  /\ touched' = touched \cup {k}
  /\ UNCHANGED <<timer, lag, overtimes>>

DelSessionData(k) ==
  /\ age' = [age EXCEPT ![k] = None]
  /\ UNCHANGED <<timer, lag, overtimes, touched>>

ReadNow ==
  /\ timer = "idle" /\ timer' = "scan" /\ lag' = 0 /\ touched' = {}
  /\ UNCHANGED <<age, overtimes>>

\* now - m_time > m_ttime in unsigned arithmetic: a session refreshed after
\* the clock was read has a time ahead of it, and the difference is huge.
OvertimeSoon(k) == age[k] # None /\ age[k] - lag >= TTime  \* mutant: >=
OvertimeNone(k) == FALSE   \* mutant: no session is ever out of date
Overtime(k) == age[k] # None /\ (age[k] - lag > TTime \/ age[k] < lag)

Scan ==
  /\ timer = "scan" /\ timer' = "delete"
  /\ overtimes' = {k \in Keys : Overtime(k)}
  /\ UNCHANGED <<age, lag, touched>>

Delete(k) ==
  /\ timer = "delete" /\ k \in overtimes
  /\ overtimes' = overtimes \ {k}
  /\ age' = [age EXCEPT ![k] = None]
  /\ UNCHANGED <<timer, lag, touched>>

EndTimerEarly ==   \* mutant: some keys are left for another time
  /\ timer = "delete" /\ timer' = "idle" /\ lag' = 0
  /\ UNCHANGED <<age, overtimes, touched>>

EndTimer ==
  /\ timer = "delete" /\ overtimes = {} /\ timer' = "idle" /\ lag' = 0
  /\ UNCHANGED <<age, overtimes, touched>>

TimerStep == ReadNow \/ Scan \/ (\E k \in Keys : Delete(k)) \/ EndTimer

Next == \/ Tick \/ TimerStep
        \/ \E k \in Keys : GetSessionData(k) \/ AddSessionData(k) \/ DelSessionData(k)

Spec == Init /\ [][Next]_vars

\* The timer is recurring, its callback runs to its end, and time passes.
FairSpec == Spec /\ WF_vars(TimerStep) /\ WF_vars(Tick)

\* A session that nobody uses any more is deleted.
Expires ==
  \A k \in Keys : <>[][~GetSessionData(k) /\ ~AddSessionData(k)]_vars
                    => <>[](age[k] = None)
=============================================================================
