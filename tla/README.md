# A verification project for ttw

ttw is a C++17 network library: an epoll reactor whose worker threads run
stackful coroutines, and on top of it sockets, a TCP and an HTTP server, a
MySQL connection pool, a file cache, sessions, a JSON reader and a daemon
helper. This directory holds TLA+ modules that model its parts, TLC
configurations that check them on small instances, and theorems with proofs
that TLAPS checks for instances of every size. Paths below are relative to
`src/ttw/` unless they start with `src/`.

## Inventory

| component | state it keeps | operations | what makes it correct | modelled in |
|---|---|---|---|---|
| Coroutine (`coroutine.cc`) | `m_state`, saved context | swapIn, swapOut, ToReady, ToSUSPENDED, sleep, Mian, reset | runs on one thread at a time; never resumed while running or after its end | CorScheduler (not reset) |
| CorScheduler (`corscheduler.cc`) | `m_coroutines`, threads | run, add, start, stop, join | every wake-up leads to a run; none is lost, none is doubled | CorScheduler |
| IOScheduler (`ioscheduler.cc`) | `m_fdContexts`, each context's events and waiters, `m_eventConut`, pipe, epoll | addEvent, delEvent, cancelEvent, cancelAll, wait, notify, is_stop | table, heap, epoll, counter and parked coroutines agree; no context is used after it is freed | IOScheduler, CorScheduler |
| TimerManage (`timer.cc`) | `m_timers`, ordered by expiry | add, cancel, refresh, reset, listExpiredCbs, getNextTimer | none lost, none early, none slept past | TimerManage |
| Socket (`socket.cc`) | descriptor, timeouts | accept, connect, send*, recv*, close, cancel* | a wait ends by data or by its own timeout, and says which | Socket |
| TcpServer (`tcpserver.cc`) | listening sockets, `m_stop` | bind, start, stop, startAcceptr | every accepted socket gets a handler | CorScheduler (the accept loop) |
| HttpServer, HttpSession (`http/`) | callbacks, session buffer | handClient, recvRequest, recvlen, sendlen | the whole request, and only it, is handed to the dispatcher | HttpSession |
| HttpRequestParser and `http11_parser.cc` | automaton state, marks, request | execute, callbacks | each element handed over whole, in order | Http11Table, HttpRequestParser |
| ServletDispatch (`http/servlet.cc`) | exact and glob maps | add*, del*, getMatchedServlet | exact before glob before default, globs by age | ServletDispatch |
| SessionDataMan (`http/http_sessiondata.cc`) | sessions and their times | get, has, set, add, del, timer | a session in use is not expired, an unused one is | SessionDataMan |
| ConnectionPool (`db/mysqlcppconn.cc`) | `m_list`, `m_count`, `m_stop` | getConnection, deleter, addConnection, produceConnection, scanerConnection, stop, start | a connection has one user; the limits hold; waiters are served | ConnectionPool |
| LRUCache, FileCacheMan (`file/filecache.cc`) | list, map, count | getFileCache, addToHead, moveToHead, delCacheNode, clear, setMax | list, map and count agree; the least recently used goes | LRUCache |
| Daemon (`daemon.cc`) | pid file | start, stop, restart | the pid file names the daemon that runs | Daemon |
| JSON (`json/`) | element tree, cursor | parse, assign, append, free | the tree is what the text says; nothing is freed twice | JsonReader, JsonElement |
| HTTP messages, File, Config, Log, util, address | data, sinks | format, load, wrap system calls | – | no |
| old Scheduler, old pool, response parser | – | – | superseded or without a caller | no |

How they interact. Worker threads run `CorScheduler::run`; when they find no
task they resume their idle coroutine, which runs `IOScheduler::wait`: it polls
epoll, turns expired timers' callbacks into tasks and puts the waiters of ready
descriptors back on the run queue. A socket operation that would block arms a
timeout with TimerManage, registers with addEvent and parks with ToSUSPENDED.
TcpServer's accept loop is a coroutine that starts one coroutine per client,
which for HTTP reads one request with HttpSession, has ServletDispatch answer
it, and closes. The connection pool has threads of its own and blocks the
calling worker; the file cache and the session store are shared by workers
under locks of their own.

The hard behaviours, in order of weight: a coroutine woken before it has
swapped out; a context freed while another thread is on its way to its mutex;
event, timeout and cancellation racing each other; progress that depends on
some worker going idle; condition variables notified without their mutex;
decisions made before a lock and used after it; requests cut anywhere by the
network. `PROJECT.json` lists each hazard at its line, with the properties
that watch it.

## Modules

| module | what it models |
|---|---|
| `CorScheduler` | workers, run queue, coroutine states, idle coroutine, external threads |
| `IOScheduler` | the event table with its contexts as heap cells, epoll's registrations and the counter |
| `EventService` | abstract: each direction of a descriptor has at most one waiter, and a wait ends with one wake-up |
| `TimerManage` | the ordered timers under their lock, callers, and the workers that sleep for the first of them |
| `TimerService` | abstract: armed, expired, called; only a recurring timer is armed again |
| `Socket` | the eight calls that wait, each with its timer and its event |
| `ConnectionPool` | the pool's four kinds of threads, the list, the limits, age, stop and start |
| `ResourcePool` | abstract: connections are lent to one user at a time and counted |
| `LRUCache` | the doubly linked list with its pointers, the map, the counter, concurrent misses, clear |
| `RecencyOrder` | abstract: a sequence of nodes by their last use |
| `Daemon` | pid file, forked daemons, signals, crashes, pids used again |
| `JsonReader`, `JsonGrammar` | the reader over kinds of tokens; a grammar of JSON with its values |
| `JsonElement` | who owns which heap cell through assignments, moves and destruction |
| `Http11Table` | the 349 states of the generated automaton |
| `HttpRequestParser`, `RequestGrammar` | the execution of the automaton on pieces of a request; abstract: the order of its elements |
| `HttpSession` | handClient and the buffer arithmetic of recvRequest and recvlen |
| `SessionDataMan` | the sessions' ages against the timer's two passes |
| `ServletDispatch` | exact routes, globs in order |
| `HttpParts` | the parser, the session, the sessions' data and the routes side by side, and their properties |
| `LocalParts` | the cache, the daemon, the JSON reader and the elements side by side, and their properties |
| `...Proofs` | inductive invariants and theorems: `HttpProofs` of `HttpParts`, `LocalProofs` of `LocalParts`, the others of the module they are named after |
| `MC...` | constants, symmetry, and the specification with its fairness for TLC |

### CorScheduler

A thread's `pc` says where it is: `scan` (the locked scan of `m_coroutines`,
lines 36-60), `notify` (notifyCor, outside the lock), `resume`, `body` (a
coroutine's code), `suspend` and `swapout` (between the last thing a coroutine
does and the saving of its context), `back` (lines 69-75), and `wait`, `epoll`,
`dispatch` for the idle coroutine. `after` is where notify returns to. One
action is one critical section, or the code between two points where another
thread can see a difference. The order that matters is kept: ToReady and Mian
write the state before the context is saved, ToSUSPENDED leaves it RUNNING
until the worker is back.

A wake-up comes from an armed timer or a registered event (`wake[c]`). A
coroutine arms one and parks, as every caller in ttw does (`Coroutine::sleep`,
the wait loops of `socket.cc`); ToReady, which nothing in ttw calls, is modelled for a
coroutine that has armed none. A socket wait with a timeout arms a timer too; the
timer's callback then takes the registered event away (cancelEvent), so it is
still one wake-up of the coroutine. The callback of an expired timer is a task
that queues the sleeper (`<<c, "waker">>`), as in `Coroutine::sleep`.

The pipe is a counter up to `PipeCap`; a thread that notifies while it is full
waits, as the write end's descriptor blocks. Only an idle coroutine reads it.

### IOScheduler

A context is an address in `live` or not; `table` is `m_fdContexts`, `ctx` the
contexts' fields, `interest` what the kernel has registered, `reports` what one
epoll_wait returned and the loop has still to handle. Two points let other
threads in: between the lookup and the context's mutex (`lookup`, `create`,
`lock`), and before deleteEventCb takes `m_rwmutex` (`delete`), where the
coroutine that was triggered is already on the run queue. `held` is the mutex
kept meanwhile. What a thread would do with freed memory is undefined and not
modelled; the behaviour ends there and `NoDangling` reports it. Unlocking the
mutex of the context just freed, which every deletion does, is left out: the
builds' allocators leave the memory mapped and nobody waits for it, or
`LookupStaysValid` has failed already. A failing `epoll_ctl` is a choice
(`Fails`), on top of the failures that the kernel's registrations force.
cancelAll tests READ twice and never WRITE: the writer is `forgotten`, and
stays counted; `EventService` says so too.

A waiter is a coroutine or a callback (`Callbacks`), and a context has a place
for each: addEvent fills the one of its kind and leaves the other (`Store`), and
triggerEvent adds whoever is in them and empties neither. A waiter that is added
while he is not in that wait makes `spurious` true, and the behaviour ends, as
what comes of it depends on where he is. `mixed` is a history variable: an event
has had both kinds stored at once.

`Service` maps this to `EventService`: `Waits` reads from the table who waits,
`Told` keeps of a waiter's state what its caller can tell.

### TimerManage

A critical section of `m_rwlock` is a step; reading the clock before it is one
of its own, and `MaxLag` bounds how long ago that may be. Time is what is left
of each delay (`left`), down to `-MaxLag`, beyond which nothing differs.
resetTimer takes a timer out and puts it back in two critical sections, between
which it is in the caller's hands (`val`). A worker computes its timeout (`asked`),
calls epoll_wait in a step of its own (time may pass between, in `timed`),
sleeps (`until`), is woken by time, by the pipe (`edge`, written when a timer
becomes the first) or by an event, and collects; a signal makes it sleep for the
whole timeout again. `late` is a history variable: the time that was lost between
getNextTimer and epoll_wait and to signals. next_timeout is compared as an int
(`AsInt`).

### Socket

One call is: try, and if it would block, arm the timer, add the event,
suspend, and when resumed cancel the timer and try again or return. What
IOScheduler, TimerManage and the workers do about it is abstract, as their own
modules' specifications allow. `t` is the int that a call shares with its
timer's callback; `about` is the descriptor and event the callback has
captured, which may by then be another call's.

### ConnectionPool

A critical section of `m_mutex` is one action, and a wait ends it. Users poll
(`wait_for`), so that notifying them changes nothing; the producer's wait has
no timeout, and `Notified` wakes it. Spurious wake-ups are an action without
fairness. The age of a connection counts ticks up to `MaxIdle`, beyond which
the code makes no difference. The scanner's loop is one action because it keeps
the mutex: it removes the longest prefix it may, and if that empties the list
while the count is above `m_min`, it uses the front of an empty list, which in
the library's list is a null pointer: `crashed`, and the behaviour ends.
`Fails` says whether connect() may throw, in the constructor too.

### The HTTP server

`Http11Table` holds the generated automaton state by state, over classes of
bytes that no state tells apart: a set of transitions from a state on a set of
bytes to a state, with the actions on the way; `Delta` sorts them by state.
`HttpRequestParser` runs it: a position in the buffer is the state in which it
was taken, a string is `whole`, `cut` or `none`; uri_relaxed, the marks that
every call of http_parser_execute resets, and the callbacks are as in the code.
`HttpSession` numbers the bytes of a request and keeps the buffer and the body
as sequences of them; bytes `FieldStart` to `FieldEnd` are the Content-Length.
The parser loses that field if a piece ends inside of it (a name without its
beginning is another name, and one without a length is dropped), getContentLength
then reads "0", and the servlet is called without a body (`split`); a value that
is no number makes lexical_cast throw, which nothing catches (`Throw`). `SessionDataMan` keeps times as distances from now; a session may be as
old as the wait for the lock when it is added. The timer reads the clock, collects keys under the shared lock, and deletes them
one by one. `ServletDispatch` has fnmatch as a relation.

### What a server keeps to itself

`LRUCache` has the list as pointers; a miss reads `m_conut` and the file
without a lock, so that two threads can miss at once. `clears` is a choice of
the environment, made once: whether clear() is called while the cache is in
use. `Daemon` has one step for each system call on the file or on a process; the
parent that forks the daemon exits before its child has written the pid file, so
that a command may be given too early, which `hasty` records.
`JsonReader` reads kinds of tokens; an element of its result is its place, the
keys and indices that lead to it. `JsonElement` has addresses for elements and
heap cells: copies share a cell, `m_deep` is the right to free it.

## Runs

| run | instance | what it shows |
|---|---|---|
| `sched` | 2 workers, 2 coroutines, an outside thread, `m_stop` as TcpServer sets it, a pipe of 2 bytes, fair | type invariant, `ExclusiveRun`, `StateAsserts`, `WokenRight`, `FinishedForGood`, `QueuedRuns`, `SleeperRuns` |
| `sched_keeps_running` | as `sched` | finding 1 |
| `io_table` | 1 thread, 2 descriptors, 3 waiters, one of them a callback, 2 addresses, all operations, failing epoll_ctl | table, heap, epoll and counter agree (`TableSound`), `NoLostWaiter`, `NoSpuriousWake`, `EventService` is implemented |
| `io_two_threads` | 2 threads, 1 descriptor, 1 waiter | finding 2 |
| `timers` | 1 caller, 2 workers, 2 timers of periods 1 and 2, `MaxTimeout` 1, lag 1, signals | `TimersSound`, `NeverEarly`, `TimerService` is implemented, `Fires` |
| `socket` | 2 coroutines, 1 descriptor, 2 timers, all eight calls, peers that close | `WaitSound`, `NoStrayTimer`, `OwnTimeout`, `DataReturns`, `TimeoutWakes` |
| `socket_end` | 1 coroutine, recv | finding 3 |
| `pool` | 2 users, 3 addresses, min 1, max 2, failing connects, fair | safety, the limits, `ResourcePool` is implemented, `WaiterServed`, `StopReturns` |
| `http` | the four parts of the HTTP server, side by side | `RequestSound`, `ImplementsGrammar`, `BodyExact`, `DeletesStale`, `Expires`, `GlobOrder` |
| `http_split` | the automaton, two pieces | finding 4 |
| `cache_max` | the cache of one node, 2 threads, 3 paths | finding 5 |
| `local` | the cache in use and with clear(), the daemon, the JSON reader and elements, side by side | `Sound`, `NothingLost`, `Bounded`, `RecencyOrder` is implemented, `NamesDaemon`, `ReadsDocuments`, `FreedOnce` |

Parts that share no state are checked side by side in one run: a behaviour is
one of a single part (`part`), the others stay in their initial states.

Why the bounds are enough. Two workers and two coroutines are what each race of
the scheduler needs (a coroutine leaving, another worker taking it, a third
thread adding); a pipe of two bytes fills and empties, and has room for a byte
while another worker takes a coroutine that has not swapped out. `m_stop` is true
as TcpServer and the tests construct it; the theorems hold for both values. Two descriptors
and three waiters give one descriptor both directions and a contender, and let a
freed address be used for the other descriptor; one thread is the default of
`IOScheduler`'s constructor. Two timers and two periods let either be the
first, and `MaxTimeout = 1` lets a worker sleep for less than a period; a
second worker is what a notification can go to instead of the one that sleeps.
Two sockets' users of one descriptor number let one close while the other's
callback is late. In the pool three addresses with at most two connections let
one be deleted and its address used again, and `MaxIdle = 2` lets ages differ
among those not yet too old. The theorems lift these safety properties to any
number. A cache of one or two, of three paths and four nodes, is over its limit
by one and evicts in either order; setMax moves it. Three pids are a daemon,
its successor and a stranger. Nine tokens hold containers in containers, two
members of one name with a third behind them, and every error followed by more.
Three elements over two cells are a container, what is put in, and what shares.
The automaton needs no bound: every sequence of bytes, of any length, is a path
through its states; one cut is enough for finding 4 and for an element lost,
and `RequestSound` distinguishes requests that came in one piece. A head of
four bytes, whose second and third are the Content-Length, bodies to three and a
buffer of four let a cut fall before, into and behind the field, and the body
begin in the head's piece, fill the buffer and go past it. Two sessions and a lag of two let
the timer's list be out of date for each reason.

Deadlock is not checked where the process ends (`crashed`, `exited`), where a
behaviour ends with its request or document, and in the runs that look for a
violation.

Fairness. `CorScheduler`: every worker that can step does (threads are
scheduled, coroutine bodies come to a switch, epoll_wait has a timeout of at most
`MAX_TIMEOUT`), and polls made again and again find a timer expired in the end.
No descriptor is ever promised to become ready. `QueuedRuns` and `SleeperRuns`
have the premises of `Notifiable`: the process has not ended (finding 1), and the
pipe is not full for ever. Each task taken writes a byte and only an idle worker
reads, so that workers that never go idle fill the pipe and block all; the code
does not prevent it. `SleeperRuns` has another, that workers keep going idle:
without it a program that always has work starves its timers, which the code does
not prevent either. `TimerManage`: threads run and time passes, but no worker is
promised to come back to getNextTimer; `Fires` has the premises that one polls
again and again and that signals stop. `Socket`: coroutines that can run do, timers' callbacks too,
and epoll reports what is ready; `DataReturns` promises only what has arrived.
`ConnectionPool`: users give back what they got, a waiting user finds the list
not empty if it is so infinitely often when its time-out ends (strong
fairness), connects do not fail for ever, and the producer, the scanner and the
thread in stop() run; that somebody calls stop() is not assumed. `StopReturns`
has the premise that connections keep being taken: a producer that misses
stop()'s notification has no other wake-up. `SessionDataMan`: the recurring
timer is called, and time passes.

## Findings

1. `tcpserver.cc:11` builds its scheduler as `IOScheduler(name, false, works)`, the
   argument order of the old Scheduler. `m_stop` becomes true and the thread
   count 0, that is, the number of processors. As soon as one event is registered and no
   timer armed, `is_stop` (`ioscheduler.cc:435`) lets the idle coroutine
   finish, and the next time its worker is idle it is resumed past its end, with
   no `uc_link`: the process exits. `src/README.md:51-53` shows a server
   running until `join()`. Run `sched_keeps_running`.
2. `ioscheduler.cc:281` frees a context that another worker may already have
   found in the table (`ioscheduler.cc:103`), because triggerEvent has put the
   waiter on the run queue before. One coroutine that waits twice and two
   workers are enough, in a library that calls itself multi-threaded
   (`src/README.md:3`). Run `io_two_threads`.
3. `socket.cc:478`: a recv that gets 0, the end of the stream, neither returns nor
   suspends, and calls recv(2) again for ever, while its callers look for a
   result that is not positive (`src/tests/echo_server.cc:39`,
   `http/http_session.cc:91`). Run `socket_end`.
4. `http/http11_parser.cc:95` forgets its marks at each call, while
   `http/http_session.cc:38` keeps none of the bytes an unfinished element
   began in: a request cut inside an element is handed over with that element's
   end only. `http/http_parser.cc:124` and `src/README.md:27` promise otherwise.
   Run `http_split`.
5. `file/filecache.cc:67` looks for room without the lock that the insertion
   takes: threads that miss at once all find some, and as every later miss evicts
   one node for the one it adds, the cache stays above its limit. `src/README.md:135`
   calls it the greatest number ("第二个缓存最大数"). Two threads and a limit of one
   give two nodes for good; `Bounded` is what holds. Run `cache_max`.

The models also contain behaviour that a reader may not expect and for which no
run is kept, either because no document says otherwise or because it is a
weaker form of a property above:

- workers that are never idle fill the notification pipe and all block in
  notify() (`Notifiable` is a premise of progress);
- an event that a coroutine has waited for and that a callback is registered for
  later, or the other way round, wakes both, the one of before wherever he is
  (`NoSpuriousWake` has the premise that it does not happen);
- a worker interrupted by signals sleeps past the first timer (`late`);
- clear() of the file cache during use leaves a node behind or lets an eviction
  meet an empty list (`NothingLost` holds without it);
- a request cut inside its Content-Length reaches the servlet without a body, and
  one whose Content-Length is no number throws (`split`, `Throw`);
- a timer that expires before addEvent cancels nothing, and the call waits
  without a timeout (`socket.cc:491`; `TimeoutWakes` needs the timer still armed
  when the call suspends);
- a session used or added between the timer's two passes, or while it waits for
  its lock, is deleted (`DeletesStale` allows `touched`);
- cancelAll never wakes the writer;
- two commands to start, the second before the first one's child has written the
  pid file, start two daemons, even from one shell (`hasty`); after a crash start
  refuses, and stop signals, whoever has the pid by then;
- the JSON reader refuses `{}`, decimals, `false`, numbers that begin with 5
  and a carriage return unless other blanks precede it; it accepts `[1,,2]`,
  `[1`, `[1],`, `["a":[]]` and an empty text; `[1],[` uses an uninitialised
  pointer (`BeginWild`);
- a JSON element that shares another's cell may outlive it, and an assignment
  inside what it frees uses what it has just freed (`UseFreed`, `AssignInside`).

## Proofs

All theorems hold for any size of the instance. Each is the conjunction of an
inductive invariant's preservation, one lemma for each action, and temporal
steps at the end.

`CorSchedulerProofs`, for any workers and coroutines and either value of the
flags: `TypeOK`, `ExclusiveRun`, `StateAsserts`, `WokenRight` (nobody forgotten,
nobody queued twice) and `FinishedForGood`. None of them is inductive. The
argument is one of tokens: a coroutine that is neither unborn nor finished has
exactly one token, which is its armed wake-up, its entry in a todo set or in
the queue, the waker task that will queue it, or the worker that runs it and
has not armed anything. `IInv` says so (`Tokens`), that the queue and the todo
sets hold nothing twice (`Distinct`, `TodoOnce`), and how a worker's `pc` goes
with what it holds and with the coroutine's state (`Control`). A coroutine that
has armed its wake-up and not yet swapped out has its token elsewhere and is
RUNNING, so that the scan passes over it: that is `ExclusiveRun`.

`IOSchedulerProofs`, for any descriptors, contexts and (finitely many)
coroutines, whatever operations are called and however epoll_ctl fails, with
one thread (`Alone`; with two, finding 2): `TableSound`, `NoLostWaiter`,
`NoSpuriousWake`, and that the table implements `EventService`. That nobody is
woken from another wait rests on the event's bit: it is set only by addEvent, which
overwrites the place of its kind, and the other place is empty unless `mixed`. The
invariant ties a context's entries to the coroutines parked in them in both directions
(`Entries`, `Waiters`), epoll's registrations to the contexts (`Registered`), and
what has been reported but not handled to what is still registered
(`Reported`), which is where one thread is needed: nobody else can take an
event out in between. For the refinement, who waits in the abstract service is
determined by who is parked (`WhoWaits`, `Determined`), so that a step is
described by what it does to the coroutines.

`TimerManageProofs`, for any callers, workers and timers: `NeverEarly`,
`TimersSound` and the implementation of `TimerService`. `TimersSound` has the
hypotheses that there is a worker and that every period fits an int
(`Periods \subseteq 0..IntMax`); without the second a first timer further away
makes the comparison in wait() choose a negative timeout. It says how much the
first timer may be slept past: by what the worker has lost before and between its
calls of epoll_wait, and no more.

`SocketProofs`, for any coroutines, descriptors and timers: `WaitSound`,
`NoStrayTimer` and `OwnTimeout`. The invariant adds that whoever is registered
or queued waits at its own place and nowhere else, and that an int is in scope
exactly while its timer may be armed.

`ConnectionPoolProofs`, for any addresses and users (finite, for the counting),
any limits with `m_min <= m_max` and any idle time (`PoolAssumption`): that a
connection is lent once, `NoLeak`, `OldestFirst`, that `m_count` is right and
bounded, `WithinLimits`, and that the pool implements `ResourcePool`. `NoLeak`
makes a new address differ from all in use, and a returned connection, whose
age is reset, cannot appear earlier in the list.

`LRUCacheProofs`, for any threads, paths, nodes and limits: `Bounded`,
`CacheSound` (which is a part of `Sound`), `NothingLost`, and that the pointers
implement `RecencyOrder`. For `Bounded` the invariant counts, with the nodes
that are there, the threads that have been told there is room and have not
taken it. For the others, `Cached(s)` says of a sequence `s` of nodes, each in
it once, that the pointers link its members in that order in both directions,
that the map's entries are among them, and `m_conut` its length. Without
clear() it adds that `s` is all there is, and that who has been told to evict
will find something. What each of
moveToHead, addToHead and delCacheNode does is then something done to `s`, and
that something is a step of `RecencyOrder`. `CacheSound` reads the list with a
recursive function; what it returns on a list that `Cached` describes follows
from exhibiting a function that satisfies the recursion and showing, by the
least place at which two could differ, that there is no other.

`LocalProofs`, for any shells, process ids, documents, elements and cells:
`NamesDaemon`, `FreedOnce`, `ReadsDocuments` (and its part about pointers,
`OpenAlive`, by itself), and `Sound`. The daemon's invariant adds that one
command is under way at most, or the child of the last one (`OneAtATime`), and
that what a command has read of the file names every daemon that
still runs, and that none does when it forks (`KnowsDaemon`), all as long as no
command has been `hasty`. The elements'
invariant adds that only an element that is there has the right to free
something (`Rightful`); what falls with a cell is the least closed set of
cells, so that whoever may free one of them is gone as well. The reader's
invariant, `StackSound`, says that an open container lies as deep in the tree as
its depth on the stack, so that what is added to the innermost one, which is
deeper, overwrites none of them.

That the reader builds what a document says needs, besides, what the grammar
generates and what the reader makes of it:

- `JsonGrammar` is a function that is recursive in the length of the text. That
  the recursion has a solution, and what its values are, is shown by the least
  length at which it could fail, as the library's induction theorems cannot be
  used here (`UpToGrows`, `PhrasesFollowRules`). What comes out is a rule of
  induction for documents: two sets of phrases that are closed under the grammar's
  constructors hold all it generates (`DocumentsFollowRules`).
- `Moves` is the reader's step as a relation between what its variables hold,
  without the errors, and `Leads` its repetition along a text. The phrases closed
  under the constructors are those that are read: from every state that wants a
  value, moves lead through the text of a value, and add its elements at the place
  where it is wanted, in exchange for what was there (`ValueRead`; `InsideRead` is
  the same for the inside of a container). This is where a member takes the place
  of an earlier one with its name, and an item the next index.
- The inductive invariant `WellRead` says that whatever moves lead to along what
  has been read so far is what the reader holds (`Tracks`). As its steps are
  determined by the token, each keeps this (`TokenStep`); and for a text that is a
  document, moves do lead somewhere: to an empty stack and the document's tree.

`HttpProofs`, for any sizes of heads, bodies, buffers and pieces, any keys and
times, any globs and routes: `TypeOK`, `RequestSound`, `BodyExact`,
`DeletesStale`, `GlobOrder`, and that the parser implements `RequestGrammar`.

- The session (`Session`): while it reads the head, the parser has used all that
  has come; from then on the body is what has come behind the head, up to the
  length that is read, and `left` what is missing; that length is the one sent, or
  0 if a piece has ended inside of it.
- The timer (`Collected`): a session younger than the clock that the timer has
  read has been touched since, and a key that the timer has collected is out of
  date, was touched since, or is not there any more.
- The routes (`Registered`): the first two conjuncts of `GlobOrder` with the
  types are inductive, and the third, which glob answers, follows.
- The parser: what a rule of the automaton does is read off the two states it
  connects. `Edge` says which part of a request may follow which, `Does` what has
  to be handed over where the part changes and nowhere else, and `Lawful` puts
  them together; lemma `TableLawful` shows every one of the transitions to be
  lawful, piece by piece, and the address literal, which the generated code holds
  twice, once for both copies. The invariant `Reading` then says of each part of
  a request what has been handed over when it is reached (`HandedOver`), and that
  nothing that was handed over is cut while there has been one piece
  (`OnePiece`). For the refinement, the place in the grammar is a function of the
  automaton's state (`PartIs`), and a lawful transition is a step of the grammar
  or none.

The parts of `HttpParts` and of `LocalParts` share no variable. Each is proved
about by itself; a step of the whole is a step of one and a stutter of the others.

`HttpAssumption`, `LocalAssumption` and `CacheAssumption` ask that sizes and
times are natural numbers, that the value for "none" is not one of the values
it is told apart from, that requests may come in one piece at least, and that
there are finitely many threads and limits, and one of each.

Every invariant and every action property that a passing run checks is proved,
and so is every refinement. Only model-checked is all liveness (`QueuedRuns`,
`SleeperRuns`, `Fires`, `DataReturns`, `TimeoutWakes`, `WaiterServed`,
`StopReturns`, `Expires`), which the prover cannot treat under fairness.

## Not modelled

- `http/httpclient_parser.cc` and the response parser: nothing calls them.
- The old Scheduler and the old pool (`scheduler.cc`, `db/mysqlconn.cc`):
  superseded by components that are modelled.
- Config, Log, util, address, File, HTTP messages: configuration, formatting,
  maps of strings and wrappers of system calls, with no order of steps that a
  property could be about.
- In the modelled components: reset() of a coroutine; the null entry of the run
  queue, which nothing queues; CorScheduler::stop, whose join never returns as
  run() has no exit; TcpServer's bind and stop; the options and addresses of
  sockets; a connection's prepared statements, which no second thread sees; the
  contents of files and sessions; the permanent cache of FileCacheMan, whose map
  addFileCacheData and delFileCacheDate change without the lock that its readers
  take (a data race, and no property here depends on what it holds); a
  Content-Length beyond what memory holds; fields other than Content-Length whose
  name ends in that; LoadFile; changeTo and Signal of the daemon;
  deep copies, conversions and escapes of JSON; destructors.
- Components are checked each against an abstraction of the others (`wake` in
  `CorScheduler`, the timers and the table in `Socket`), not composed as a whole:
  the product of their states is beyond TLC. `EventService` and `TimerService`
  are what `IOScheduler` and `TimerManage` are shown to implement and what
  `Socket`'s steps `Report`, `Expire` and `CancelEvent` follow; that correspondence
  is by reading.
