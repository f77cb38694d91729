--------------------------- MODULE ConnectionPool ---------------------------
(***************************************************************************)
(* The MySQL connection pool (db/mysqlcppconn.cc): the threads that        *)
(* produce and scan, the users of getConnection, and stop() and start().   *)
(* A critical section of m_mutex is one step; a wait on a condition        *)
(* variable ends it.  Time is the age of each connection since its         *)
(* refreshTime, which only matters up to m_maxidleTime.                    *)
(***************************************************************************)
EXTENDS Integers, Sequences, FiniteSets

CONSTANTS
  Conns,    \* addresses a Connection can have
  Users,    \* threads that call getConnection
  None,
  MinConns, \* m_min
  MaxConns, \* m_max
  MaxIdle,  \* m_maxidleTime
  Fails     \* whether connect() may throw

ASSUME PoolAssumption ==
  /\ None \notin Conns
  /\ IsFiniteSet(Users)
  /\ MinConns \in Nat /\ MaxConns \in Nat /\ MinConns <= MaxConns
  /\ MaxIdle \in Nat
  /\ Fails \in BOOLEAN

VARIABLES
  list,     \* m_list, the free connections
  count,    \* m_count
  live,     \* the connections that are allocated
  idle,     \* getIdleTime() of each, up to MaxIdle
  conn,     \* the connection each user has
  waiting,  \* users in getConnection's wait_for
  prod,     \* where produceConnection is
  scan,     \* where scanerConnection is
  stop,     \* m_stop
  ctl,      \* where the caller of stop() and start() is
  crashed   \* front() of an empty list has been used

vars == <<list, count, live, idle, conn, waiting, prod, scan, stop, ctl, crashed>>

Listed == {list[i] : i \in 1..Len(list)}

TypeOK ==
  /\ list \in Seq(Conns)
  /\ count \in Int
  /\ live \in SUBSET Conns
  /\ idle \in [Conns -> 0..MaxIdle]
  /\ conn \in [Users -> Conns \cup {None}]
  /\ waiting \in SUBSET Users
  /\ prod \in {"check", "lock", "wait", "woken", "exit"}
  /\ scan \in {"check", "wait", "exit"}
  /\ stop \in BOOLEAN
  /\ ctl \in {"out", "notify", "join"}
  /\ crashed \in BOOLEAN

\* The constructor's m_min calls of addConnection, each of which may fail.
Init ==
  /\ \E n \in IF Fails THEN 0..MinConns ELSE {MinConns} :
       list \in {s \in [1..n -> Conns] : \A i, j \in 1..n : s[i] = s[j] => i = j}
  /\ count = Len(list)
  /\ live = Listed
  /\ idle = [c \in Conns |-> 0]
  /\ conn = [u \in Users |-> None]
  /\ waiting = {}
  /\ prod = "check" /\ scan = "check"
  /\ stop = FALSE /\ ctl = "out"
  /\ crashed = FALSE

\* m_condition.notify_all(), seen by the producer.  The users that wait on it
\* too look again whenever their timeout ends, notified or not.
NotifiedNever == prod   \* mutant: nobody is notified
Notified == IF prod = "wait" THEN "woken" ELSE prod

Tick ==
  /\ idle' = [c \in Conns |-> IF idle[c] < MaxIdle THEN idle[c] + 1 ELSE idle[c]]
  /\ UNCHANGED <<list, count, live, conn, waiting, prod, scan, stop, ctl, crashed>>

-----------------------------------------------------------------------------
(* getConnection and the deleter of what it returns. *)

\* Nothing free: wait_for(m_connTime), again and again.
Await(u) ==
  /\ conn[u] = None /\ u \notin waiting
  /\ list = <<>>
  /\ waiting' = waiting \cup {u}
  /\ UNCHANGED <<list, count, live, idle, conn, prod, scan, stop, ctl, crashed>>

\* The shared_ptr's constructor and pop_front.
LendTwice(u) == conn' = [conn EXCEPT ![u] = Head(list)] /\ UNCHANGED list  \* mutant: no pop_front
Lend(u)      == conn' = [conn EXCEPT ![u] = Head(list)] /\ list' = Tail(list)

Take(u) ==
  /\ conn[u] = None
  /\ list # <<>>
  /\ Lend(u)
  /\ waiting' = waiting \ {u}
  /\ prod' = Notified
  /\ UNCHANGED <<count, live, idle, scan, stop, ctl, crashed>>

PutBackFront(c) == list' = <<c>> \o list   \* mutant: push_front
PutBackNever(c) == UNCHANGED list          \* mutant: no push_back
PutBack(c) == list' = Append(list, c)

\* The shared_ptr's deleter: refresh and put back, notifying nobody.
Release(u) ==
  /\ conn[u] # None
  /\ idle' = [idle EXCEPT ![conn[u]] = 0]
  /\ PutBack(conn[u])
  /\ conn' = [conn EXCEPT ![u] = None]
  /\ UNCHANGED <<count, live, waiting, prod, scan, stop, ctl, crashed>>

-----------------------------------------------------------------------------
(* produceConnection. *)

\* while(!m_stop), read without the mutex.
ProducerCheck ==
  /\ prod = "check"
  /\ prod' = IF stop THEN "exit" ELSE "lock"
  /\ UNCHANGED <<list, count, live, idle, conn, waiting, scan, stop, ctl, crashed>>

\* A condition variable may wake up by itself.
ProducerSpurious ==
  /\ prod = "wait"
  /\ prod' = "woken"
  /\ UNCHANGED <<list, count, live, idle, conn, waiting, scan, stop, ctl, crashed>>

\* m_stop is looked at again after a wait, but not before the first one.
ProducerStops == prod = "woken" /\ stop

ProducerWait ==
  /\ prod \in {"lock", "woken"}
  /\ ProducerStops \/ Len(list) >= MinConns
  /\ prod' = IF ProducerStops THEN "exit" ELSE "wait"
  /\ UNCHANGED <<list, count, live, idle, conn, waiting, scan, stop, ctl, crashed>>

\* addConnection, but for its failure.
AddConnection == \E c \in Conns \ live :
  /\ live' = live \cup {c}
  /\ idle' = [idle EXCEPT ![c] = 0]
  /\ list' = Append(list, c)
  /\ count' = count + 1

CanGrowAlways == TRUE   \* mutant: m_max is not looked at
CanGrow == count < MaxConns

Produce ==
  /\ prod \in {"lock", "woken"} /\ ~ProducerStops
  /\ Len(list) < MinConns
  /\ \/ CanGrow /\ AddConnection
     \/ (Fails \/ ~CanGrow) /\ UNCHANGED <<list, count, live, idle>>
  /\ prod' = "check"
  /\ UNCHANGED <<conn, waiting, scan, stop, ctl, crashed>>

-----------------------------------------------------------------------------
(* scanerConnection. *)

ScannerCheck ==
  /\ scan = "check"
  /\ scan' = IF stop THEN "exit" ELSE "wait"
  /\ UNCHANGED <<list, count, live, idle, conn, waiting, prod, stop, ctl, crashed>>

\* The loop removes the first n, all of them idle for too long, as long as
\* there are more than m_min connections, lent ones included.
RemovesOneMore(n) ==     \* mutant: >= m_min
  \A i \in 1..n : idle[list[i]] >= MaxIdle /\ count - (i - 1) >= MinConns
Removes(n) == \A i \in 1..n : idle[list[i]] >= MaxIdle /\ count - (i - 1) > MinConns

\* It stops there, at m_min or at a connection that is young enough ...
Scan ==
  /\ scan = "wait"
  /\ \E n \in 0..Len(list) :
       /\ Removes(n)
       /\ count - n <= MinConns \/ (n < Len(list) /\ idle[list[n + 1]] < MaxIdle)
       /\ list' = SubSeq(list, n + 1, Len(list))
       /\ live' = live \ {list[i] : i \in 1..n}
       /\ count' = count - n
  /\ scan' = "check"
  /\ UNCHANGED <<idle, conn, waiting, prod, stop, ctl, crashed>>

\* ... or takes the front of the list it has emptied, a null pointer.
ScanEmpty ==
  /\ scan = "wait"
  /\ Removes(Len(list)) /\ count - Len(list) > MinConns
  /\ crashed' = TRUE
  /\ UNCHANGED <<list, count, live, idle, conn, waiting, prod, scan, stop, ctl>>

-----------------------------------------------------------------------------
(* stop() and start(), which one thread calls. *)

Stop ==
  /\ ctl = "out" /\ ~stop
  /\ stop' = TRUE /\ ctl' = "notify"
  /\ UNCHANGED <<list, count, live, idle, conn, waiting, prod, scan, crashed>>

StopNotify ==
  /\ ctl = "notify"
  /\ prod' = Notified /\ ctl' = "join"
  /\ UNCHANGED <<list, count, live, idle, conn, waiting, scan, stop, crashed>>

Join ==
  /\ ctl = "join" /\ prod = "exit" /\ scan = "exit"
  /\ ctl' = "out"
  /\ UNCHANGED <<list, count, live, idle, conn, waiting, prod, scan, stop, crashed>>

Start ==
  /\ ctl = "out" /\ stop
  /\ stop' = FALSE /\ prod' = "check" /\ scan' = "check"
  /\ UNCHANGED <<list, count, live, idle, conn, waiting, ctl, crashed>>

-----------------------------------------------------------------------------

Producer == ProducerCheck \/ ProducerWait \/ Produce
Scanner  == ScannerCheck \/ Scan \/ ScanEmpty
Control  == Stop \/ StopNotify \/ Join \/ Start

Next == ~crashed /\ ( \/ \E u \in Users : Await(u) \/ Take(u) \/ Release(u)
                      \/ Producer \/ ProducerSpurious \/ Scanner \/ Control \/ Tick )

Spec == Init /\ [][Next]_vars

\* Users give back what they got and look again when their wait ends, wait_for
\* ends, and every thread that can run does.  Nobody has to stop the pool, and
\* connect() does not fail for ever.
FairSpec ==
  /\ Spec
  /\ SF_vars(~crashed /\ Produce /\ count' > count)
  /\ \A u \in Users : WF_vars(~crashed /\ Release(u)) /\ SF_vars(~crashed /\ u \in waiting /\ Take(u))
  /\ WF_vars(~crashed /\ Producer)
  /\ WF_vars(~crashed /\ Scanner)
  /\ WF_vars(~crashed /\ (StopNotify \/ Join))

-----------------------------------------------------------------------------
(* Properties. *)

\* No connection is lent to two users, nor lent while it is in the list, nor
\* twice in the list.
LentOnce ==
  /\ \A i, j \in 1..Len(list) : list[i] = list[j] => i = j
  /\ \A u \in Users : conn[u] # None =>
       conn[u] \notin Listed /\ \A v \in Users : conn[v] = conn[u] => v = u

\* What is allocated is what is in the list or lent: a connection in use is
\* never deleted by the scanner, and none is lost.
NoLeak == live = Listed \cup {conn[u] : u \in {v \in Users : conn[v] # None}}

\* The list is in the order of age: the scanner may stop at the first
\* connection that is young enough.
OldestFirst == \A i, j \in 1..Len(list) : i < j => idle[list[i]] >= idle[list[j]]

\* m_count counts the connections, free and lent, and never exceeds m_max.
Bounded == /\ count = Len(list) + Cardinality({u \in Users : conn[u] # None})
           /\ count <= MaxConns

\* No step takes the pool above m_max, or, once it has m_min connections, below
\* that: the producer and the scanner both go by the total, lent ones included.
WithinLimits == [][Bounded' /\ (count >= MinConns => count' >= MinConns)]_vars

\* The pool implements the abstract one.
Pool == INSTANCE ResourcePool WITH free <- Listed, lent <- conn

ImplementsPool == Pool!Spec

\* A user that waits for a connection gets one, though the deleter that puts
\* one back notifies nobody; but not from a pool that has been stopped while
\* every connect() had failed.
WaiterServed == \A u \in Users :
  u \in waiting ~> conn[u] # None \/ crashed \/ (stop /\ count = 0)

\* stop() returns, as long as connections are taken again and again: a producer
\* that has missed stop()'s notification waits for getConnection's.
StopReturns == []<><<\E u \in Users : Take(u)>>_vars => (ctl = "join" ~> ctl = "out" \/ crashed)
=============================================================================
