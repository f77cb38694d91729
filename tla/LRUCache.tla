------------------------------ MODULE LRUCache ------------------------------
(***************************************************************************)
(* The file cache (file/filecache.cc): the least-recently-used list of     *)
(* LRUCache as nodes with pointers and its map from paths to nodes.  A     *)
(* critical section of m_mutex is one step; a miss reads m_conut and the   *)
(* file without any lock, so that it takes several steps.                  *)
(***************************************************************************)
EXTENDS Integers, Sequences, FiniteSets

CONSTANTS
  Threads,
  Paths,
  Nodes,    \* addresses a Node can have
  None,     \* nullptr
  Limits    \* the values of m_max: that of the constructor, those of setMax

ASSUME CacheAssumption ==
  /\ None \notin Nodes \cup Paths
  /\ IsFiniteSet(Threads) /\ Threads # {}
  /\ Limits \subseteq Nat \ {0} /\ Limits # {} /\ IsFiniteSet(Limits)

VARIABLES
  head, tail, next, pre,  \* m_head, m_tail and the nodes' pointers
  path,     \* the path of the FileCache of a node
  live,     \* the nodes that are allocated
  node,     \* m_cacheNode
  conut,    \* m_conut
  max,      \* m_max
  pc, want, \* where each thread is, and the path it asks for
  del,      \* whether it is to evict
  clears,   \* whether clear() is called while the cache is in use
  crashed   \* a null pointer has been dereferenced

list == <<head, tail, next, pre, path, live, node, conut>>
calls == <<pc, want, del>>
vars == <<list, max, calls, clears, crashed>>

TypeOK ==
  /\ {head, tail} \subseteq Nodes \cup {None}
  /\ next \in [Nodes -> Nodes \cup {None}] /\ pre \in [Nodes -> Nodes \cup {None}]
  /\ path \in [Nodes -> Paths \cup {None}]
  /\ live \in SUBSET Nodes
  /\ node \in [Paths -> Nodes \cup {None}]
  /\ conut \in Nat /\ max \in Limits
  /\ pc \in [Threads -> {"out", "temp", "miss", "load"}]
  /\ want \in [Threads -> Paths \cup {None}]
  /\ del \in [Threads -> BOOLEAN]
  /\ clears \in BOOLEAN /\ crashed \in BOOLEAN

Init ==
  /\ head = None /\ tail = None
  /\ next = [n \in Nodes |-> None] /\ pre = [n \in Nodes |-> None]
  /\ path = [n \in Nodes |-> None]
  /\ live = {}
  /\ node = [p \in Paths |-> None]
  /\ conut = 0 /\ max \in Limits
  /\ pc = [t \in Threads |-> "out"] /\ want = [t \in Threads |-> None]
  /\ del = [t \in Threads |-> FALSE]
  /\ clears \in BOOLEAN /\ crashed = FALSE

-----------------------------------------------------------------------------
(* Operations on the list.  The list is a record so that delCacheNode and  *)
(* addToHead can follow one another in a critical section.                 *)

Here == [head |-> head, tail |-> tail, next |-> next, pre |-> pre]

MoveToHeadUnlinked(l, n) ==  \* mutant: the neighbours keep pointing to the node
  IF n = l.head THEN l
  ELSE [l EXCEPT !.pre[n] = None, !.next[n] = l.head, !.pre[l.head] = n, !.head = n]
MoveToHead(l, n) ==
  IF n = l.head THEN l
  ELSE IF n # l.tail
    THEN LET cut == [l EXCEPT !.next[l.pre[n]] = l.next[n], !.pre[l.next[n]] = l.pre[n]]
         IN  [cut EXCEPT !.pre[n] = None, !.next[n] = l.head, !.pre[l.head] = n, !.head = n]
    ELSE LET last == l.pre[n]
             cut  == [l EXCEPT !.tail = last, !.next[last] = None]
         IN  [cut EXCEPT !.next[n] = l.head, !.pre[l.head] = n, !.head = n, !.pre[n] = None]

DelCacheNode(l) ==  \* the node that goes is left without pointers
  IF l.tail = l.head THEN [l EXCEPT !.head = None, !.tail = None]
  ELSE LET last == l.pre[l.tail]
       IN  [l EXCEPT !.tail = last, !.next[last] = None, !.pre[l.tail] = None]

AddToTail(l, n) ==  \* mutant: a new node counts as the one used longest ago
  LET new == [l EXCEPT !.next[n] = None, !.pre[n] = l.tail, !.tail = n] IN
  IF l.tail = None THEN [new EXCEPT !.head = n] ELSE [new EXCEPT !.next[l.tail] = n]
AddToHead(l, n) ==
  LET new == [l EXCEPT !.next[n] = l.head, !.pre[n] = None, !.head = n] IN
  IF l.head = None THEN [new EXCEPT !.tail = n] ELSE [new EXCEPT !.pre[l.head] = n]

Becomes(l) == head' = l.head /\ tail' = l.tail /\ next' = l.next /\ pre' = l.pre

Goto(t, from, to) == pc[t] = from /\ pc' = [pc EXCEPT ![t] = to]

Return(t, from) ==
  /\ Goto(t, from, "out")
  /\ want' = [want EXCEPT ![t] = None]
  /\ del' = [del EXCEPT ![t] = FALSE]

-----------------------------------------------------------------------------
(* FileCacheMan::getFileCacheData and LRUCache::getFileCache. *)

\* For a path that the permanent cache does not hold.
GetFileCacheData(t, p) ==
  /\ Goto(t, "out", "temp")
  /\ want' = [want EXCEPT ![t] = p]
  /\ UNCHANGED <<list, max, del, crashed>>

Hit(t) ==
  /\ Return(t, "temp")
  /\ node[want[t]] # None
  /\ Becomes(MoveToHead(Here, node[want[t]]))
  /\ UNCHANGED <<path, live, node, conut, max, crashed>>

Miss(t) ==
  /\ Goto(t, "temp", "miss")
  /\ node[want[t]] = None
  /\ UNCHANGED <<list, max, want, del, crashed>>

\* if(m_conut < m_max), without the lock.
FullLate   == conut > max   \* mutant: off by one
Full       == conut >= max

Decide(t) ==
  /\ Goto(t, "miss", "load")
  /\ del' = [del EXCEPT ![t] = Full]
  /\ UNCHANGED <<list, max, want, crashed>>

\* The file cannot be read: nothing is added.
LoadFails(t) ==
  /\ Return(t, "load")
  /\ UNCHANGED <<list, max, crashed>>

EraseEntry(p) == [node EXCEPT ![p] = None]

CountDown  == conut - 1

FreedNone(t) == {}                              \* mutant: the node is not deleted
Freed(t)     == IF del[t] THEN {tail} ELSE {}

\* addToHead(File::ptr, bool): everything after the file was read.
Insert(t) == \E n \in Nodes \ live :
  LET evicts == del[t]
      entries == IF evicts THEN EraseEntry(path[tail]) ELSE node
  IN
  /\ Return(t, "load")
  /\ evicts => tail # None
  /\ Becomes(AddToHead(IF evicts THEN DelCacheNode(Here) ELSE Here, n))
  /\ node' = [entries EXCEPT ![want[t]] = n]
  /\ path' = [m \in Nodes |-> IF m = n THEN want[t] ELSE IF m \in Freed(t) THEN None ELSE path[m]]
  /\ live' = (live \ Freed(t)) \cup {n}
  /\ conut' = (IF evicts THEN CountDown ELSE conut) + 1
  /\ UNCHANGED <<max, crashed>>

\* delCacheNode on an empty list: m_tail->pre of a null m_tail.
InsertCrashes(t) ==
  /\ pc[t] = "load" /\ del[t] /\ tail = None
  /\ crashed' = TRUE
  /\ UNCHANGED <<list, max, calls>>

-----------------------------------------------------------------------------
(* The other operations. *)

\* clear() frees the nodes the map knows; what it frees or loses is forgotten.
Clear ==
  /\ clears
  /\ head # None
  /\ live' = live \ {node[p] : p \in Paths}
  /\ node' = [p \in Paths |-> None]
  /\ head' = None /\ tail' = None /\ conut' = 0
  /\ next' = [n \in Nodes |-> None] /\ pre' = [n \in Nodes |-> None]
  /\ path' = [n \in Nodes |-> None]
  /\ UNCHANGED <<max, calls, crashed>>

SetMax ==
  /\ max' \in Limits \ {max}
  /\ UNCHANGED <<list, calls, crashed>>

Next ==
  /\ ~crashed /\ UNCHANGED clears
  /\ \/ \E t \in Threads :
          \/ \E p \in Paths : GetFileCacheData(t, p)
          \/ Hit(t) \/ Miss(t) \/ Decide(t) \/ LoadFails(t) \/ Insert(t) \/ InsertCrashes(t)
     \/ Clear \/ SetMax

Spec == Init /\ [][Next]_vars

-----------------------------------------------------------------------------
(* Properties. *)

\* The n-th node from a node on, along some pointers.
Along(start, link) ==
  LET Walk[n \in Nat] == IF n = 0 THEN start
                         ELSE IF Walk[n - 1] = None THEN None ELSE link[Walk[n - 1]]
  IN  Walk

FromHead == Along(head, next)
FromTail == Along(tail, pre)

Order == [i \in 1..conut |-> FromHead[i - 1]]
Listed == {Order[i] : i \in 1..conut}

\* The list has m_conut nodes, all of them allocated and none twice, and both
\* directions of its pointers give the same order, whatever has been moved
\* and evicted.
ListSound ==
  /\ \A i \in 1..conut : Order[i] \in live /\ FromTail[conut - i] = Order[i]
  /\ FromHead[conut] = None /\ FromTail[conut] = None
  /\ Cardinality(Listed) = conut

\* What a lookup finds is a node of the list that holds the path asked for,
\* even if two threads have loaded the path and one of the two nodes is gone.
NoDangling == \A p \in Paths :
  node[p] # None => node[p] \in Listed /\ path[node[p]] = p

\* List, map and counter agree.
CacheSound == TypeOK /\ ListSound /\ NoDangling

\* A node the list has lost is freed.
NoLeak == live = Listed

\* A thread that is to evict finds something to evict.
NoCrash == ~crashed

\* As long as the cache is only cleared by its destructor, every node is in the
\* list, and an eviction finds one: clear() forgets the second node of a path
\* that was loaded twice, and empties the list under a miss about to evict.
NothingLost == ~clears => NoLeak /\ NoCrash

\* Threads that miss at once may each add one node above the limit, and no
\* sequence of misses adds more than that to the greatest of the limits.
Bounded ==
  \E m \in Limits : conut <= m + Cardinality(Threads) - 1 /\ \A l \in Limits : l <= m

\* The second argument of FileCacheMan's constructor, which becomes m_max, is
\* "第二个缓存最大数" (README.md:135), the most that the cache holds.
MaxHolds == conut <= max

\* The list and the map are the least-recently-used cache they implement.
Recency == INSTANCE RecencyOrder WITH order <- Order, entry <- node
ImplementsOrder == Recency!Spec
=============================================================================
