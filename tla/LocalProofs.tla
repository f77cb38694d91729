---------------------------- MODULE LocalProofs ----------------------------
(***************************************************************************)
(* Proofs about what a server keeps to itself: that no cell of the heap is *)
(* freed by two elements, that the pid file names the daemon, that the     *)
(* reader's pointers to its open containers stay good, and that it builds  *)
(* what a document says.  The parts are proved one by one, each by an      *)
(* invariant of its own, and put together.                                 *)
(***************************************************************************)
EXTENDS LocalParts, LRUCacheProofs, SequenceTheorems, TLAPS

-----------------------------------------------------------------------------
(* JsonElement: who may free what. *)

\* Only an element that is there has the right to free something.
Rightful == \A e \in deep : E!Is(e)

\* The inductive invariant of the elements.
Owned == E!TypeOK /\ FreedOnce /\ Rightful

\* A cell falls with itself, and with it what the elements inside may free.
LEMMA FallsClosed ==
  ASSUME E!TypeOK, NEW c \in Cells
  PROVE  E!Falls(c) \subseteq Cells /\ c \in E!Falls(c) /\ E!Closed(E!Falls(c))
  <1>1. E!Falls(c) \subseteq Cells /\ c \in E!Falls(c) BY DEF E!Falls
  <1>2. ASSUME NEW e \in deep, home[e] \in E!Falls(c), ptr[e] # None
        PROVE  ptr[e] \in E!Falls(c)
    <2>1. ptr[e] \in Cells BY <1>2 DEF E!TypeOK
    <2>2. ASSUME NEW S \in SUBSET Cells, c \in S, E!Closed(S) PROVE ptr[e] \in S
      <3>1. home[e] \in S BY <1>2, <2>2 DEF E!Falls
      <3>. QED BY <1>2, <2>2, <3>1 DEF E!Closed
    <2>. QED BY <2>1, <2>2 DEF E!Falls
  <1>. QED BY <1>1, <1>2 DEF E!Closed

\* What falls belongs to the element that frees it, or to one that goes with it.
LEMMA FreedIsOwned ==
  ASSUME Owned, NEW e \in Elements, NEW x \in deep, x # e, x \notin E!Gone(e)
  PROVE  ptr[x] \notin E!FreedCells(e)
  <1> USE LocalAssumption DEF Owned, E!TypeOK, FreedOnce, E!FreedOnce
  <1> SUFFICES ASSUME ptr[x] \in E!FreedCells(e) PROVE FALSE OBVIOUS
  <1>1. e \in deep /\ ptr[e] \in Cells /\ E!FreedCells(e) = E!Falls(ptr[e])
    BY DEF E!FreedCells
  <1> DEFINE S == E!Falls(ptr[e]) \ {ptr[x]}
  <1>2. S \subseteq Cells /\ ptr[e] \in S /\ ptr[x] \in Cells
    BY <1>1, FallsClosed
  <1>3. E!Closed(S)
    <2> SUFFICES ASSUME NEW y \in deep, home[y] \in S, ptr[y] # None PROVE ptr[y] \in S
      BY DEF E!Closed
    <2>1. ptr[y] \in E!Falls(ptr[e]) BY <1>1, FallsClosed DEF E!Closed
    <2>2. ptr[y] = ptr[x] => y = x OBVIOUS
    <2>3. y # x BY <1>1 DEF E!Gone
    <2>. QED BY <2>1, <2>2, <2>3
  <1>4. ptr[x] \in S BY <1>1, <1>2, <1>3 DEF E!Falls
  <1>. QED BY <1>4

LEMMA FreedAreCells ==
  ASSUME E!TypeOK, NEW e \in Elements PROVE E!FreedCells(e) \subseteq Cells
  BY DEF E!FreedCells, E!Falls

\* An element is overwritten, and gets the right to p only if nobody who stays
\* has it; what is freed meanwhile nobody who stays refers to.
LEMMA OverwriteStep ==
  ASSUME Owned, NEW e \in Elements, e \notin E!Gone(e),
         NEW t \in E!Types \cup {"none"}, NEW d \in BOOLEAN, NEW p \in Cells \cup {None}, NEW from,
         E!Overwrite(e, t, d, p, from),
         allocated \ E!FreedCells(e) \subseteq allocated', allocated' \subseteq Cells, UNCHANGED wild,
         d => t # "none",
         d /\ p # None => /\ p \in allocated'
                          /\ \A x \in deep \ (E!Gone(e) \cup {from, e}) : ptr[x] # p
  PROVE  Owned'
  <1> USE LocalAssumption DEF Owned, FreedOnce
  <1>1. E!TypeOK'
    BY DEF E!TypeOK, E!Overwrite
  <1>2. \A x \in deep' : x # e => x \in deep /\ x \notin E!Gone(e) /\ ptr'[x] = ptr[x] /\ x # from
    BY DEF E!Overwrite, E!TypeOK
  <1>3. e \in deep' => d /\ ptr'[e] = p
    BY DEF E!Overwrite
  <1>4. \A x \in deep' : ptr'[x] \in allocated' \cup {None}
    BY <1>2, <1>3, FreedIsOwned DEF E!FreedOnce, E!TypeOK
  <1>5. \A x, y \in deep' : ptr'[x] = ptr'[y] /\ ptr'[x] # None => x = y
    BY <1>2, <1>3 DEF E!FreedOnce, E!TypeOK
  <1>6. \A x \in Elements : home'[x] \in allocated' \cup {None}
    BY DEF E!Overwrite, E!Gone, E!FreedOnce, E!TypeOK
  <1>7. Rightful'
    BY <1>2 DEF Rightful, E!Is, E!Overwrite, E!TypeOK
  <1>. QED BY <1>1, <1>4, <1>5, <1>6, <1>7 DEF E!FreedOnce

LEMMA ConstructStep ==
  ASSUME Owned, NEW e \in Elements, NEW t \in E!Types, NEW d \in BOOLEAN,
         NEW p \in Cells \cup {None}, E!Construct(e, t, d, p),
         d => p \in Cells \ allocated,
         allocated' = IF d THEN allocated \cup {p} ELSE allocated
  PROVE  Owned'
  <1> USE LocalAssumption DEF Owned, FreedOnce, E!TypeOK, E!Construct
  <1>1. E!TypeOK' OBVIOUS
  <1>2. E!FreedOnce' BY DEF E!FreedOnce
  <1>3. Rightful' BY DEF Rightful, E!Is, E!Types, E!Containers
  <1>. QED BY <1>1, <1>2, <1>3

\* A move takes the right away from where it comes from.
LEMMA MovedStep ==
  ASSUME Owned, NEW e \in Elements, NEW x \in Elements, E!NewMoved(e, x)
  PROVE  Owned'
  <1> USE DEF Owned, FreedOnce, E!TypeOK, E!NewMoved, E!Is
  <1>1. E!TypeOK' OBVIOUS
  <1>2. e \notin deep BY DEF Rightful
  <1>3. E!FreedOnce' BY <1>2 DEF E!FreedOnce
  <1>4. Rightful' BY <1>2 DEF Rightful
  <1>. QED BY <1>1, <1>3, <1>4

LEMMA OverwritesStep ==
  ASSUME Owned, NEW e \in Elements, NEW x \in Elements,
         \/ E!Destroy(e) \/ E!AssignScalar(e) \/ E!AssignString(e) \/ E!ReaderRoot(e)
         \/ E!AssignCopy(e, x) \/ E!AssignMove(e, x)
  PROVE  Owned'
  <1> DEFINE Spared == /\ allocated \ E!FreedCells(e) \subseteq allocated'
                     /\ allocated' \subseteq Cells /\ UNCHANGED wild
  <1> USE DEF Owned, E!TypeOK
  <1>1. E!FreedCells(e) \subseteq Cells BY FreedAreCells
  <1>2. "none" \notin E!Types /\ E!Containers \subseteq E!Types /\ {"scalar", "string"} \subseteq E!Types
    BY DEF E!Types, E!Containers
  <1>3. CASE E!Destroy(e)
    <2>1. e \notin E!Gone(e) BY <1>1, <1>3, LocalAssumption DEF E!Destroy, E!Gone
    <2>2. E!Overwrite(e, "none", FALSE, None, e) /\ Spared BY <1>3 DEF E!Destroy
    <2>. QED BY <2>1, <2>2, OverwriteStep
  <1>4. CASE E!AssignScalar(e)
    <2>1. e \notin E!Gone(e) /\ E!Overwrite(e, "scalar", FALSE, None, e) /\ Spared
      BY <1>4 DEF E!AssignScalar
    <2>. QED BY <1>2, <2>1, OverwriteStep
  <1>5. CASE E!AssignString(e)
    <2>1. PICK c \in Cells \ (allocated \ E!FreedCells(e)) :
             /\ e \notin E!Gone(e) /\ E!Overwrite(e, "string", TRUE, c, e)
             /\ allocated' = (allocated \ E!FreedCells(e)) \cup {c} /\ UNCHANGED wild
      BY <1>5 DEF E!AssignString
    <2>2. \A y \in deep \ (E!Gone(e) \cup {e}) : ptr[y] # c
      BY FreedIsOwned, LocalAssumption DEF FreedOnce, E!FreedOnce, E!TypeOK
    <2>3. Spared BY <2>1
    <2>. QED BY <1>2, <2>1, <2>2, <2>3, OverwriteStep
  <1>6. CASE E!ReaderRoot(e)
    <2>1. PICK t \in E!Containers :
             /\ e \notin E!Gone(e) /\ E!Overwrite(e, t, e \in deep, None, None) /\ Spared
      BY <1>6 DEF E!ReaderRoot
    <2>2. PICK d \in BOOLEAN : d <=> e \in deep OBVIOUS
    <2>3. E!Overwrite(e, t, d, None, None) BY <2>1, <2>2 DEF E!Overwrite
    <2>4. t \in E!Types \cup {"none"} /\ t # "none" BY <1>2
    <2>. QED BY <2>1, <2>3, <2>4, OverwriteStep
  <1>7. CASE E!AssignCopy(e, x)
    <2>1. /\ e \notin E!Gone(e) /\ E!Overwrite(e, type[x], FALSE, ptr[x], e) /\ Spared
          /\ type[x] \in E!Types \cup {"none"} /\ ptr[x] \in Cells \cup {None}
      BY <1>7 DEF E!AssignCopy, E!Inside, E!Shares, E!TypeOK
    <2>. QED BY <2>1, OverwriteStep
  <1>8. CASE E!AssignMove(e, x)
    <2>1. /\ e \notin E!Gone(e) /\ x \notin E!Gone(e) /\ e # x
          /\ E!Overwrite(e, type[x], x \in deep, ptr[x], x) /\ Spared
          /\ type[x] \in E!Types \cup {"none"} /\ ptr[x] \in Cells \cup {None} /\ type[x] # "none"
      BY <1>8 DEF E!AssignMove, E!Inside, E!Is, E!TypeOK
    <2>2. x \in deep /\ ptr[x] # None =>
             /\ ptr[x] \in allocated'
             /\ \A y \in deep \ (E!Gone(e) \cup {x, e}) : ptr[y] # ptr[x]
      BY <2>1, FreedIsOwned DEF FreedOnce, E!FreedOnce
    <2>3. PICK d \in BOOLEAN : d <=> x \in deep OBVIOUS
    <2>4. E!Overwrite(e, type[x], d, ptr[x], x) BY <2>1, <2>3 DEF E!Overwrite
    <2>. QED BY <2>1, <2>2, <2>3, <2>4, OverwriteStep
  <1>. QED BY <1>3, <1>4, <1>5, <1>6, <1>7, <1>8

\* An element that is new in a container lives in the container's cell.
LEMMA ContainedStep ==
  ASSUME Owned, NEW e \in Elements, NEW x \in Elements, NEW v \in Elements,
         E!AddNew(e, x) \/ E!Append(e, v, x)
  PROVE  Owned'
  <1> USE LocalAssumption DEF Owned, FreedOnce, E!TypeOK, E!Is, E!Cell
  <1>1. CASE E!AddNew(e, x)
    <2>1. PICK c \in Cells :
             /\ type[e] \in E!Containers /\ E!Cell(e, c) /\ type[x] = "none"
             /\ type' = [type EXCEPT ![x] = IF type[e] = "object" THEN "object" ELSE "scalar"]
             /\ home' = [home EXCEPT ![x] = c]
             /\ ptr' = [ptr EXCEPT ![e] = c, ![x] = None]
             /\ deep' = (IF ptr[e] = None THEN deep \cup {e} ELSE deep) \ {x}
             /\ allocated' = allocated \cup {c} /\ wild' = wild
      BY <1>1 DEF E!AddNew
    <2>2. e # x /\ "none" \notin E!Containers BY <2>1 DEF E!Containers
    <2>3. E!TypeOK' BY <2>1 DEF E!Types, E!Containers
    <2>4. \A y \in deep' : y # e => y \in deep /\ y # x /\ ptr'[y] = ptr[y] BY <2>1
    <2>5. e \in deep' => ptr'[e] = c /\ \A y \in deep : ptr[y] = c => y = e
      BY <2>1, <2>2 DEF E!FreedOnce
    <2>6. E!FreedOnce' BY <2>1, <2>4, <2>5 DEF E!FreedOnce
    <2>7. Rightful' BY <2>1, <2>2, <2>4 DEF Rightful
    <2>. QED BY <2>3, <2>6, <2>7
  <1>2. CASE E!Append(e, v, x)
    <2> DEFINE owners == IF ptr[e] = None THEN deep \cup {e} ELSE deep
    <2>1. PICK c \in Cells :
             /\ type[e] = "array" /\ E!Cell(e, c) /\ type[v] # "none" /\ type[x] = "none"
             /\ type' = [type EXCEPT ![x] = type[v]]
             /\ home' = [home EXCEPT ![x] = c]
             /\ ptr' = [ptr EXCEPT ![e] = c, ![x] = IF v = e THEN c ELSE ptr[v]]
             /\ deep' = IF v \in owners THEN (owners \ {v}) \cup {x} ELSE owners \ {x}
             /\ allocated' = allocated \cup {c} /\ wild' = wild
      BY <1>2 DEF E!Append
    <2>2. e # x /\ v # x /\ x \notin deep BY <2>1 DEF Rightful
    <2>3. E!TypeOK' BY <2>1 DEF E!Types, E!Containers
    <2>4. \A y \in owners : y # e => y \in deep OBVIOUS
    <2>5. e \in owners => \A y \in deep : ptr[y] = c => y = e
      BY <2>1 DEF E!FreedOnce
    <2>6. \A y \in deep' : y # x => y \in owners /\ y # v
      BY <2>1
    <2>7. \A y \in deep' : y \notin {e, x} => ptr'[y] = ptr[y] BY <2>1
    <2>8. \A y \in deep' : ptr'[y] \in allocated' \cup {None}
      BY <2>1, <2>2, <2>4, <2>6, <2>7 DEF E!FreedOnce
    <2>9. \A y, z \in deep' : ptr'[y] = ptr'[z] /\ ptr'[y] # None => y = z
      BY <2>1, <2>2, <2>4, <2>5, <2>6, <2>7 DEF E!FreedOnce
    <2>10. \A y \in Elements : home'[y] \in allocated' \cup {None}
      BY <2>1 DEF E!FreedOnce
    <2>11. Rightful' BY <2>1, <2>2 DEF Rightful
    <2>. QED BY <2>3, <2>8, <2>9, <2>10, <2>11 DEF E!FreedOnce
  <1>. QED BY <1>1, <1>2

LEMMA OwnedStays == ASSUME Owned, [E!Next]_elements PROVE Owned'
  <1> USE DEF Owned
  <1>1. ASSUME UNCHANGED <<type, deep, ptr, home, allocated>>, wild' \in BOOLEAN PROVE Owned'
    BY <1>1 DEF FreedOnce, E!FreedOnce, Rightful, E!Is, E!TypeOK
  <1>2. CASE UNCHANGED elements BY <1>1, <1>2 DEF elements, E!TypeOK
  <1>3. ASSUME NEW e \in Elements, NEW x \in Elements,
               E!NewElement(e) \/ E!NewString(e) \/ E!NewCopy(e, x)
        PROVE  Owned'
    <2> USE DEF E!Types, E!Containers
    <2>1. CASE E!NewElement(e)
      <3>1. PICK t \in E!Types : E!Construct(e, t, FALSE, None) /\ UNCHANGED allocated
        BY <2>1 DEF E!NewElement
      <3>. QED BY <3>1, ConstructStep
    <2>2. CASE E!NewString(e)
      <3>1. PICK c \in Cells \ allocated :
              E!Construct(e, "string", TRUE, c) /\ allocated' = allocated \cup {c}
        BY <2>2 DEF E!NewString
      <3>2. "string" \in E!Types OBVIOUS
      <3>. QED BY <3>1, <3>2, ConstructStep
    <2>3. CASE E!NewCopy(e, x)
      <3>1. /\ type[x] \in E!Types /\ ptr[x] \in Cells \cup {None}
            /\ E!Construct(e, type[x], FALSE, ptr[x]) /\ UNCHANGED allocated
        BY <2>3 DEF E!NewCopy, E!Is, E!TypeOK
      <3>. QED BY <3>1, ConstructStep
    <2>. QED BY <1>3, <2>1, <2>2, <2>3
  <1>4. ASSUME NEW e \in Elements, NEW x \in Elements, E!UseFreed(e) \/ E!AssignInside(e, x)
        PROVE  Owned'
    BY <1>1, <1>4 DEF E!UseFreed, E!AssignInside
  <1>. QED BY <1>2, <1>3, <1>4, MovedStep, OverwritesStep, ContainedStep DEF E!Next

LEMMA OwnedAtFirst == E!Init => Owned
  BY DEF E!Init, Owned, FreedOnce, E!FreedOnce, Rightful, E!TypeOK

-----------------------------------------------------------------------------
(* Daemon: the pid file names the daemon. *)

\* The child of a command until it has written the pid file, and after that.
Coming == {p \in Pids : proc[p] \in {"born", "open"}}
Running == {p \in Pids : proc[p] \in {"daemon", "exiting"}}

\* One command runs at a time, or the child of the last one.
OneAtATime ==
  /\ \A s, r \in Shells : at[s] # "out" /\ at[r] # "out" => s = r
  /\ \A s \in Shells : at[s] # "out" => Coming = {}
  /\ \A p, q \in Coming : p = q

\* What a command has read of the pid file names every daemon that still runs,
\* and a command that forks has found none.
KnowsDaemon ==
  /\ \A s \in Shells : at[s] \in {"check", "kill", "wait"} => \A p \in Running : pid[s] = p
  /\ \A s \in Shells : at[s] = "fork" => Running = {}
  /\ Coming # {} => Running = {}

\* What holds of the daemon as long as no command has been given too early.
Orderly == D!TypeOK /\ D!AllNamed /\ OneAtATime /\ KnowsDaemon

\* The inductive invariant of the daemon.
Named == D!TypeOK /\ (~hasty => Orderly)

LEMMA NamedAtFirst == D!Init => Named
  BY DEF D!Init, Named, Orderly, D!TypeOK, D!AllNamed, OneAtATime, KnowsDaemon, Coming, Running

\* A command begins where no other runs, and no child is on its way.
LEMMA CommandStep ==
  ASSUME Orderly, NEW s \in Shells, NEW cmd \in {"start", "stop", "restart"}, D!Command(s, cmd), ~hasty'
  PROVE  Orderly'
  <1> USE DEF Orderly, D!TypeOK, D!Command, D!Goto
  <1>1. D!TypeOK' OBVIOUS
  <1>2. D!AllNamed' BY DEF D!AllNamed
  <1>3. OneAtATime' BY DEF OneAtATime, D!Through, Coming
  <1>4. KnowsDaemon' BY DEF KnowsDaemon, Coming, Running
  <1>. QED BY <1>1, <1>2, <1>3, <1>4

\* The other steps of a command, but its fork.
LEMMA ShellStep ==
  ASSUME Orderly, NEW s \in Shells,
         \/ D!GetPidFile(s, "restart", "look") \/ D!GetPidFile(s, "start", "check")
         \/ D!GetPidFile(s, "stop", "kill")
         \/ D!Look(s) \/ D!Check(s) \/ D!Kill(s) \/ D!KillAgain(s) \/ D!Stopped(s) \/ D!GiveUp(s)
  PROVE  Orderly'
  <1> USE LocalAssumption DEF Orderly, D!TypeOK, D!Goto
  <1>1. UNCHANGED proc /\ at[s] # "out"
    BY DEF D!GetPidFile, D!Look, D!Check, D!Kill, D!KillAgain, D!Stopped, D!GiveUp
  <1>2. Coming' = Coming /\ Running' = Running BY <1>1 DEF Coming, Running
  <1>3. CASE \/ D!GetPidFile(s, "restart", "look") \/ D!GetPidFile(s, "start", "check")
             \/ D!GetPidFile(s, "stop", "kill")
    <2> USE <1>3 DEF D!GetPidFile
    <2>1. D!TypeOK' OBVIOUS
    <2>2. D!AllNamed' BY DEF D!AllNamed
    <2>3. OneAtATime' BY <1>1, <1>2 DEF OneAtATime
    <2>4. \A p \in Running : pid'[s] = p
      BY DEF D!AllNamed, Running
    <2>5. KnowsDaemon' BY <1>2, <2>4 DEF KnowsDaemon
    <2>. QED BY <2>1, <2>2, <2>3, <2>5
  <1>4. CASE D!Look(s) \/ D!Kill(s) \/ D!KillAgain(s) \/ D!GiveUp(s)
    <2> USE <1>4 DEF D!Look, D!Kill, D!KillAgain, D!GiveUp
    <2>1. D!TypeOK' BY DEF D!Answers
    <2>2. D!AllNamed' BY DEF D!AllNamed
    <2>3. OneAtATime' BY <1>1, <1>2 DEF OneAtATime
    <2>4. KnowsDaemon' BY <1>2 DEF KnowsDaemon
    <2>. QED BY <2>1, <2>2, <2>3, <2>4
  <1>5. CASE D!Check(s)
    <2> USE <1>5 DEF D!Check
    <2>1. D!TypeOK' OBVIOUS
    <2>2. D!AllNamed' BY DEF D!AllNamed
    <2>3. OneAtATime' BY <1>1, <1>2 DEF OneAtATime
    <2>4. at'[s] = "fork" => Running = {}
      BY DEF KnowsDaemon, D!MayStart, D!Answers, D!Forbids, Running
    <2>5. KnowsDaemon' BY <1>2, <2>4 DEF KnowsDaemon
    <2>. QED BY <2>1, <2>2, <2>3, <2>5
  <1>6. CASE D!Stopped(s)
    <2> USE <1>6 DEF D!Stopped
    <2>1. D!TypeOK' OBVIOUS
    <2>2. Running = {} BY DEF KnowsDaemon, D!Answers, Running
    <2>3. D!AllNamed' BY <2>2 DEF D!AllNamed, Running
    <2>4. OneAtATime' BY <1>1, <1>2 DEF OneAtATime
    <2>5. KnowsDaemon' BY <1>2 DEF KnowsDaemon
    <2>. QED BY <2>1, <2>3, <2>4, <2>5
  <1>. QED BY <1>3, <1>4, <1>5, <1>6

LEMMA ForkStep == ASSUME Orderly, NEW s \in Shells, D!Fork(s) PROVE Orderly'
  <1> USE DEF Orderly, D!TypeOK, D!Goto, D!Fork
  <1>1. at[s] = "fork" /\ Running = {} /\ Coming = {}
    BY DEF KnowsDaemon, OneAtATime
  <1>2. D!TypeOK' OBVIOUS
  <1>3. Running' = {} /\ \A p, q \in Coming' : p = q BY <1>1 DEF Running, Coming
  <1>4. \A r \in Shells : at'[r] = "out" BY <1>1 DEF OneAtATime
  <1>5. D!AllNamed' BY <1>3 DEF D!AllNamed, Running
  <1>6. OneAtATime' BY <1>3, <1>4 DEF OneAtATime
  <1>7. KnowsDaemon' BY <1>3, <1>4 DEF KnowsDaemon
  <1>. QED BY <1>2, <1>5, <1>6, <1>7

\* A process that ends, is replaced, or begins to exit is no daemon that the file
\* would have to name anew.
LEMMA ProcessStep ==
  ASSUME Orderly, NEW p \in Pids,
         \/ D!Open(p) \/ D!Write(p) \/ D!WriteInVain(p) \/ D!Exit(p)
         \/ D!Unlink(p) \/ D!Die(p) \/ D!Reuse(p)
  PROVE  Orderly'
  <1> USE LocalAssumption DEF Orderly, D!TypeOK, D!Becomes
  <1>1. UNCHANGED <<at, pid, again>>
    BY DEF D!Open, D!Write, D!WriteInVain, D!Exit, D!Unlink, D!Die, D!Reuse
  <1>2. CASE D!Open(p) \/ D!WriteInVain(p)
    <2> USE <1>2 DEF D!Open, D!WriteInVain
    <2>1. D!TypeOK' OBVIOUS
    <2>2. Running = {} /\ Running' = {} /\ Coming' \subseteq Coming
      BY DEF KnowsDaemon, Running, Coming
    <2>3. D!AllNamed' BY <2>2 DEF D!AllNamed, Running
    <2>4. OneAtATime' BY <1>1, <2>2 DEF OneAtATime
    <2>5. KnowsDaemon' BY <1>1, <2>2 DEF KnowsDaemon
    <2>. QED BY <2>1, <2>3, <2>4, <2>5
  <1>3. CASE D!Write(p)
    <2> USE <1>3 DEF D!Write
    <2>1. D!TypeOK' OBVIOUS
    <2>2. p \in Coming /\ Running = {} /\ \A s \in Shells : at[s] = "out"
      BY DEF KnowsDaemon, OneAtATime, Coming
    <2>3. Running' = {p} /\ Coming' = {} BY <2>2 DEF OneAtATime, Running, Coming
    <2>4. D!AllNamed' BY <2>3 DEF D!AllNamed, Running
    <2>5. OneAtATime' /\ KnowsDaemon' BY <1>1, <2>2, <2>3 DEF OneAtATime, KnowsDaemon
    <2>. QED BY <2>1, <2>4, <2>5
  <1>4. CASE D!Exit(p) \/ D!Unlink(p) \/ D!Die(p) \/ D!Reuse(p)
    <2> USE <1>4 DEF D!Exit, D!Unlink, D!Die, D!Reuse
    <2>1. D!TypeOK' OBVIOUS
    <2>2. Running' \subseteq Running /\ Coming' \subseteq Coming BY DEF Running, Coming
    <2>3. D!AllNamed' BY DEF D!AllNamed
    <2>4. OneAtATime' BY <1>1, <2>2 DEF OneAtATime
    <2>5. KnowsDaemon' BY <1>1, <2>2 DEF KnowsDaemon
    <2>. QED BY <2>1, <2>3, <2>4, <2>5
  <1>. QED BY <1>2, <1>3, <1>4

LEMMA DaemonTypes == ASSUME D!TypeOK, [D!Next]_daemon PROVE D!TypeOK'
  <1> USE LocalAssumption DEF D!TypeOK, D!Goto, D!Becomes
  <1>1. CASE UNCHANGED daemon BY <1>1 DEF daemon
  <1>2. ASSUME NEW s \in Shells,
               \/ \E cmd \in {"start", "stop", "restart"} : D!Command(s, cmd)
               \/ D!GetPidFile(s, "restart", "look") \/ D!GetPidFile(s, "start", "check")
               \/ D!GetPidFile(s, "stop", "kill")
        PROVE  D!TypeOK'
    BY <1>2 DEF D!Command, D!GetPidFile
  <1>3. ASSUME NEW s \in Shells,
               D!Look(s) \/ D!Check(s) \/ D!Fork(s) \/ D!Kill(s) \/ D!KillAgain(s) \/ D!Stopped(s) \/ D!GiveUp(s)
        PROVE  D!TypeOK'
    BY <1>3 DEF D!Look, D!Check, D!Fork, D!Kill, D!KillAgain, D!Stopped, D!GiveUp, D!Answers
  <1>4. ASSUME NEW p \in Pids,
               \/ D!Open(p) \/ D!Write(p) \/ D!WriteInVain(p) \/ D!Exit(p)
               \/ D!Unlink(p) \/ D!Die(p) \/ D!Reuse(p)
        PROVE  D!TypeOK'
    BY <1>4 DEF D!Open, D!Write, D!WriteInVain, D!Exit, D!Unlink, D!Die, D!Reuse
  <1>. QED BY <1>1, <1>2, <1>3, <1>4 DEF D!Next

\* A step after which nobody has been hasty was begun by nobody hasty.
LEMMA NamedStays == ASSUME Named, [D!Next]_daemon PROVE Named'
  <1>1. D!TypeOK' BY DaemonTypes DEF Named, Orderly
  <1>2. hasty => hasty'
    BY DEF daemon, Named, D!TypeOK, D!Next, D!Command, D!GetPidFile, D!Look, D!Check, D!Fork, D!Kill,
       D!KillAgain, D!Stopped, D!GiveUp, D!Open, D!Write, D!WriteInVain, D!Exit, D!Unlink, D!Die, D!Reuse
  <1>3. ASSUME Orderly, ~hasty' PROVE Orderly'
    <2>1. CASE UNCHANGED daemon
      BY <1>3, <2>1 DEF daemon, Orderly, D!TypeOK, D!AllNamed, OneAtATime, KnowsDaemon, Coming, Running
    <2>. QED BY <1>3, <2>1, CommandStep, ShellStep, ForkStep, ProcessStep DEF D!Next
  <1>. QED BY <1>1, <1>2, <1>3 DEF Named

-----------------------------------------------------------------------------
(* JsonReader: the stack of open containers. *)

\* What the stack has of an open container.
Opened == [place : Seq(Names \cup Nat), type : {"object", "array"}, size : Nat]

\* The place of an open container is as long as its depth; the root is on the
\* stack until it has begun, and then every open container is in the tree.
StackSound ==
  /\ J!TypeOK
  /\ stack \in Seq(Opened)
  /\ \A i \in DOMAIN stack : Len(stack[i].place) = Len(stack) - i
  /\ ~started => Len(stack) = 1 /\ legal = {"object", "array"}
  /\ J!OpenAlive

LEMMA StackSoundAtFirst == J!Init => StackSound
  <1> SUFFICES ASSUME J!Init PROVE StackSound OBVIOUS
  <1> DEFINE root == [place |-> <<>>, type |-> "object", size |-> 0]
  <1>1. root \in Opened BY DEF Opened
  <1>2. stack = <<root>> BY DEF J!Init
  <1> HIDE DEF root
  <1>3. stack \in Seq(Opened) /\ Len(stack) = 1 /\ stack[1] = root /\ DOMAIN stack = {1}
    BY <1>1, <1>2
  <1>4. Len(root.place) = 0 /\ root.type = "object" /\ root.size = 0 BY DEF root
  <1>5. doc \in Seq(J!Tokens) /\ Len(doc) <= MaxTokens
    <2>1. doc = <<>> BY DEF J!Init
    <2> HIDE DEF root
    <2>2. Len(<<>>) = 0 /\ <<>> \in Seq(J!Tokens) OBVIOUS
    <2>. QED BY <2>1, <2>2, LocalAssumption
  <1>6. legal \subseteq J!AllTypes BY DEF J!Init, J!AllTypes
  <1>7. \A i \in DOMAIN stack :
           stack[i].type \in {"object", "array"} /\ stack[i].size \in Nat /\ Len(stack[i].place) = Len(stack) - i
    <2>1. ASSUME NEW i \in DOMAIN stack
          PROVE  stack[i].type \in {"object", "array"} /\ stack[i].size \in Nat /\ Len(stack[i].place) = Len(stack) - i
      <3>1. i = 1 /\ stack[i] = root BY <1>3
      <3>2. Len(stack) - i = 0 BY <1>3, <3>1
      <3>5. stack[i].type = "object" BY <1>4, <3>1
      <3>6. stack[i].size = 0 BY <1>4, <3>1
      <3>3. stack[i].size \in Nat BY <3>6
      <3>4. Len(stack[i].place) = 0 BY <1>4, <3>1
      <3>. QED BY <3>2, <3>3, <3>4, <3>5
    <2>. QED BY <2>1
  <1>8. /\ key = None /\ started = FALSE /\ error = FALSE /\ result = "none"
        /\ legal = {"object", "array"}
    BY DEF J!Init
  <1>9. J!TypeOK BY <1>5, <1>6, <1>7, <1>8 DEF J!TypeOK
  <1>10. J!OpenAlive BY <1>8 DEF J!OpenAlive
  <1>. QED BY <1>3, <1>7, <1>8, <1>9, <1>10 DEF StackSound

LEMMA GrownTop ==
  ASSUME NEW r \in Opened
  PROVE  /\ [r EXCEPT !.size = r.size + 1] \in Opened
         /\ [r EXCEPT !.size = r.size + 1].place = r.place
         /\ [r EXCEPT !.size = r.size + 1].type = r.type
  <1>1. r.size + 1 \in Nat BY DEF Opened
  <1>2. [r EXCEPT !.size = r.size + 1] = [place |-> r.place, type |-> r.type, size |-> r.size + 1]
    BY DEF Opened
  <1>. QED BY <1>1, <1>2 DEF Opened

LEMMA GrownStack ==
  ASSUME stack \in Seq(Opened), stack # <<>>
  PROVE  /\ J!Grown \in Seq(Opened) /\ Len(J!Grown) = Len(stack) /\ Len(stack) \in Nat \ {0}
         /\ \A i \in 1 .. Len(stack) :
               J!Grown[i].place = stack[i].place /\ J!Grown[i].type = stack[i].type
  <1>1. Len(stack) \in Nat \ {0} /\ stack[1] \in Opened OBVIOUS
  <1> DEFINE r == [stack[1] EXCEPT !.size = stack[1].size + 1]
  <1>2. r \in Opened /\ r.place = stack[1].place /\ r.type = stack[1].type BY <1>1, GrownTop
  <1>3. J!Grown = [stack EXCEPT ![1] = r] BY DEF J!Grown
  <1> HIDE DEF r
  <1>. QED BY <1>1, <1>2, <1>3

\* Where the next element goes is one deeper than the innermost open container.
LEMMA NextPlace ==
  ASSUME StackSound, stack # <<>>, J!Top.type = "object" => key \in Names
  PROVE  /\ J!Place \in Seq(Names \cup Nat) /\ Len(J!Place) = Len(stack)
         /\ J!Front(J!Place) = stack[1].place
  <1>1. stack \in Seq(Opened) /\ Len(stack) \in Nat \ {0} /\ stack[1] \in Opened /\ 1 \in DOMAIN stack
    BY DEF StackSound
  <1>2. J!Top = stack[1] BY <1>1 DEF J!Top
  <1>3. Len(stack[1].place) = Len(stack) - 1 BY <1>1 DEF StackSound
  <1>4. stack[1].place \in Seq(Names \cup Nat) /\ stack[1].size \in Nat BY <1>1 DEF Opened
  <1>5. PICK k \in Names \cup Nat : J!Place = Append(stack[1].place, k)
    BY <1>2, <1>4 DEF J!Place
  <1> DEFINE p == stack[1].place
  <1>6. p \in Seq(Names \cup Nat) /\ J!Place = Append(p, k) /\ Len(p) = Len(stack) - 1
    BY <1>3, <1>4, <1>5
  <1> HIDE DEF p
  <1>7. SubSeq(Append(p, k), 1, Len(Append(p, k)) - 1) = p BY <1>6
  <1>8. J!Place \in Seq(Names \cup Nat) /\ Len(J!Place) = Len(stack) BY <1>1, <1>6
  <1>. QED BY <1>6, <1>7, <1>8 DEF J!Front, p

\* An element that is put at the next place overwrites no open container.
LEMMA PutKeepsOpen ==
  ASSUME StackSound, started, result # "undefined", NEW place \in Seq(Names \cup Nat),
         Len(place) = Len(stack), NEW t
  PROVE  /\ \A i \in DOMAIN stack : <<stack[i].place, stack[i].type>> \in J!Put(place, t)
         /\ <<place, t>> \in J!Put(place, t)
  <1>1. ASSUME NEW i \in DOMAIN stack
        PROVE  <<stack[i].place, stack[i].type>> \in J!Put(place, t)
    <2>1. <<stack[i].place, stack[i].type>> \in tree BY DEF StackSound, J!OpenAlive
    <2>2. Len(stack[i].place) = Len(stack) - i /\ i \in 1 .. Len(stack) /\ Len(stack) \in Nat
      BY DEF StackSound
    <2>3. ~J!IsPrefix(place, stack[i].place) BY <2>2 DEF J!IsPrefix
    <2>. QED BY <2>1, <2>3 DEF J!Put
  <1>. QED BY <1>1 DEF J!Put

LEMMA DocGrows ==
  ASSUME StackSound, NEW token \in J!Tokens, Len(doc) < MaxTokens, doc' = Append(doc, token)
  PROVE  doc' \in Seq(J!Tokens) /\ Len(doc') <= MaxTokens
  <1>1. doc \in Seq(J!Tokens) BY DEF StackSound, J!TypeOK
  <1>. QED BY <1>1, LocalAssumption

\* Nothing but the first container is legal before it has begun.
LEMMA OnlyContainersFirst ==
  ASSUME StackSound, NEW token \in J!Tokens, J!Reads(token), ~started
  PROVE  token.kind \in {"object", "array"}
  <1>1. legal = {"object", "array"} BY DEF StackSound
  <1>2. J!Announces(token) \in {"object", "array"} BY <1>1 DEF J!Reads
  <1>. QED BY <1>2 DEF J!Announces

\* A step that leaves the stack and the tree alone.
LEMMA StackKept ==
  ASSUME StackSound, result = "none", UNCHANGED <<stack, tree, started>>,
         doc' \in Seq(J!Tokens), Len(doc') <= MaxTokens,
         legal' \subseteq J!AllTypes, started \/ legal' = legal,
         key' \in Names \cup {None}, error' \in BOOLEAN,
         result' \in {"none", "true", "false", "undefined"}
  PROVE  StackSound'
  <1>1. J!TypeOK' BY DEF StackSound, J!TypeOK
  <1>2. J!OpenAlive' BY DEF StackSound, J!OpenAlive
  <1>. QED BY <1>1, <1>2 DEF StackSound

LEMMA QuietSteps ==
  ASSUME StackSound, NEW token \in J!Tokens,
         \/ J!Illegal(token) \/ J!BeginWild(token) \/ J!ReadName(token)
         \/ J!ReadRefused(token) \/ J!Separator(token)
  PROVE  StackSound'
  <1> USE DEF J!Reads
  <1>0. legal \subseteq J!AllTypes /\ key \in Names \cup {None} /\ error \in BOOLEAN
    BY DEF StackSound, J!TypeOK
  <1>1. CASE J!Illegal(token)
    <2>1. doc' \in Seq(J!Tokens) /\ Len(doc') <= MaxTokens BY <1>1, DocGrows DEF J!Illegal
    <2>. QED BY <1>0, <1>1, <2>1, StackKept DEF J!Illegal
  <1>2. CASE J!BeginWild(token)
    <2>1. J!Reads(token) BY <1>2 DEF J!BeginWild
    <2>2. doc' \in Seq(J!Tokens) /\ Len(doc') <= MaxTokens BY <2>1, DocGrows
    <2>3. /\ result' = "undefined" /\ UNCHANGED <<legal, stack, key, tree, started, error>>
          /\ result = "none" /\ started
      BY <1>2 DEF J!BeginWild
    <2>4. J!TypeOK' BY <1>0, <2>2, <2>3 DEF StackSound, J!TypeOK
    <2>5. J!OpenAlive' BY <2>3 DEF J!OpenAlive
    <2>. QED BY <2>3, <2>4, <2>5 DEF StackSound
  <1>3. CASE J!ReadName(token)
    <2>1. J!Reads(token) /\ token.kind \in {"name", "noname"} BY <1>3 DEF J!ReadName
    <2>2. doc' \in Seq(J!Tokens) /\ Len(doc') <= MaxTokens BY <2>1, DocGrows
    <2>3. started BY <2>1, OnlyContainersFirst DEF StackSound, J!TypeOK
    <2>4. token.kind = "name" => token.name \in Names
      BY DEF J!Tokens, J!Scalars, J!Unknown, J!Refused
    <2>5. key' \in Names \cup {None} /\ error' \in BOOLEAN BY <1>0, <1>3, <2>4 DEF J!ReadName
    <2>6. legal' \subseteq J!AllTypes BY <1>3 DEF J!ReadName, J!AllTypes
    <2>. QED BY <1>3, <2>2, <2>3, <2>5, <2>6, StackKept DEF J!ReadName
  <1>4. CASE J!ReadRefused(token)
    <2>1. J!Reads(token) BY <1>4 DEF J!ReadRefused
    <2>2. doc' \in Seq(J!Tokens) /\ Len(doc') <= MaxTokens BY <2>1, DocGrows
    <2>. QED BY <1>0, <1>4, <2>2, StackKept DEF J!ReadRefused
  <1>5. CASE J!Separator(token)
    <2>1. J!Reads(token) /\ token.kind \in {"separator", "colon"} BY <1>5 DEF J!Separator
    <2>2. doc' \in Seq(J!Tokens) /\ Len(doc') <= MaxTokens BY <2>1, DocGrows
    <2>3. started BY <2>1, OnlyContainersFirst DEF StackSound, J!TypeOK
    <2>4. legal' \subseteq J!AllTypes BY <1>5 DEF J!Separator
    <2>. QED BY <1>0, <1>5, <2>2, <2>3, <2>4, StackKept DEF J!Separator
  <1>. QED BY <1>1, <1>2, <1>3, <1>4, <1>5

LEMMA EndOfTextStep ==
  ASSUME StackSound, NEW white \in BOOLEAN, J!EndOfText(white)
  PROVE  StackSound'
  <1>1. /\ doc \in Seq(J!Tokens) /\ Len(doc) <= MaxTokens
        /\ legal \subseteq J!AllTypes /\ key \in Names \cup {None} /\ error \in BOOLEAN
    BY DEF StackSound, J!TypeOK
  <1>2. result' \in {"true", "false"} BY DEF J!EndOfText
  <1>. QED BY <1>1, <1>2, StackKept DEF J!EndOfText

LEMMA EndStep ==
  ASSUME StackSound, NEW token \in J!Tokens, J!End(token)
  PROVE  StackSound'
  <1>1. J!Reads(token) /\ token.kind \in {"object_end", "array_end"} /\ UNCHANGED <<key, tree, started>>
        /\ result = "none" /\ result' = "none"
    BY DEF J!End, J!Reads
  <1>2. doc' \in Seq(J!Tokens) /\ Len(doc') <= MaxTokens BY <1>1, DocGrows DEF J!Reads
  <1>3. started BY <1>1, OnlyContainersFirst DEF StackSound, J!TypeOK
  <1>4. legal' \subseteq J!AllTypes BY DEF J!End, J!AllTypes
  <1>5. key \in Names \cup {None} /\ error \in BOOLEAN BY DEF StackSound, J!TypeOK
  <1>6. CASE J!Closes(token.kind)
    <2>1. stack' = Tail(stack) /\ error' = error /\ stack # <<>> BY <1>6 DEF J!End, J!Closes
    <2>2. stack \in Seq(Opened) /\ Len(stack) \in Nat \ {0} BY <2>1 DEF StackSound
    <2>3. /\ stack' \in Seq(Opened) /\ Len(stack') = Len(stack) - 1 /\ Len(stack') \in Nat
          /\ \A i \in 1 .. Len(stack') : stack'[i] = stack[i + 1] /\ i + 1 \in 1 .. Len(stack)
      BY <2>1, <2>2
    <2>4. \A i \in DOMAIN stack' : Len(stack'[i].place) = Len(stack') - i
      <3>1. ASSUME NEW i \in DOMAIN stack' PROVE Len(stack'[i].place) = Len(stack') - i
        <4>1. i \in 1 .. Len(stack') BY <2>3
        <4>2. Len(stack[i + 1].place) = Len(stack) - (i + 1) BY <2>2, <2>3, <4>1 DEF StackSound
        <4>. QED BY <2>2, <2>3, <4>1, <4>2
      <3>. QED BY <3>1
    <2>5. J!OpenAlive'
      <3>1. ASSUME NEW i \in DOMAIN stack' PROVE <<stack'[i].place, stack'[i].type>> \in tree'
        <4>1. i \in 1 .. Len(stack') BY <2>3
        <4>2. i + 1 \in DOMAIN stack /\ stack'[i] = stack[i + 1] BY <2>2, <2>3, <4>1
        <4>3. <<stack[i + 1].place, stack[i + 1].type>> \in tree
          BY <1>1, <1>3, <4>2 DEF StackSound, J!OpenAlive
        <4>. QED BY <1>1, <4>2, <4>3
      <3>2. ASSUME NEW i \in 1 .. Len(stack') - 1
            PROVE  J!Front(stack'[i].place) = stack'[i + 1].place
        <4>1. i \in 1 .. Len(stack') /\ i + 1 \in 1 .. Len(stack') /\ i + 1 \in 1 .. Len(stack) - 1
          BY <2>2, <2>3
        <4>2. stack'[i] = stack[i + 1] /\ stack'[i + 1] = stack[(i + 1) + 1] BY <2>3, <4>1
        <4>3. J!Front(stack[i + 1].place) = stack[(i + 1) + 1].place
          BY <1>1, <1>3, <4>1 DEF StackSound, J!OpenAlive
        <4>. QED BY <4>2, <4>3
      <3>. QED BY <3>1, <3>2 DEF J!OpenAlive
    <2>6. \A i \in DOMAIN stack' : stack'[i].type \in {"object", "array"} /\ stack'[i].size \in Nat
      <3>1. \A i \in DOMAIN stack' : stack'[i] \in Opened BY <2>3
      <3>. QED BY <3>1 DEF Opened
    <2>7. J!TypeOK' BY <1>1, <1>2, <1>3, <1>4, <1>5, <2>1, <2>6 DEF J!TypeOK
    <2>. QED BY <1>1, <1>3, <2>3, <2>4, <2>5, <2>7 DEF StackSound
  <1>7. CASE ~J!Closes(token.kind)
    <2>1. UNCHANGED stack /\ error' = TRUE BY <1>7 DEF J!End
    <2>. QED BY <1>1, <1>2, <1>3, <1>4, <1>5, <2>1, StackKept
  <1>. QED BY <1>6, <1>7

\* What counts an element of the top leaves the open containers where they are.
LEMMA TopIsOpen ==
  ASSUME StackSound, stack # <<>>
  PROVE  /\ stack \in Seq(Opened) /\ Len(stack) \in Nat \ {0}
         /\ stack[1] \in Opened /\ J!Top = stack[1]
         /\ \A i \in 1 .. Len(stack) :
               /\ Len(J!Grown[i].place) = Len(stack) - i
               /\ J!Grown[i].place = stack[i].place /\ J!Grown[i].type = stack[i].type
               /\ J!Grown[i].type \in {"object", "array"} /\ J!Grown[i].size \in Nat
         /\ J!Grown \in Seq(Opened) /\ Len(J!Grown) = Len(stack)
  <1>1. stack \in Seq(Opened) /\ Len(stack) \in Nat \ {0} /\ stack[1] \in Opened /\ J!Top = stack[1]
    BY DEF StackSound, J!Top
  <1>2. /\ J!Grown \in Seq(Opened) /\ Len(J!Grown) = Len(stack)
        /\ \A i \in 1 .. Len(stack) :
              J!Grown[i].place = stack[i].place /\ J!Grown[i].type = stack[i].type
    BY <1>1, GrownStack
  <1>3. \A i \in 1 .. Len(stack) : J!Grown[i].type \in {"object", "array"} /\ J!Grown[i].size \in Nat
    <2>1. \A i \in 1 .. Len(stack) : J!Grown[i] \in Opened BY <1>2
    <2>. QED BY <2>1 DEF Opened
  <1>4. \A i \in 1 .. Len(stack) : Len(J!Grown[i].place) = Len(stack) - i
    <2>1. ASSUME NEW i \in 1 .. Len(stack) PROVE Len(J!Grown[i].place) = Len(stack) - i
      <3>1. Len(stack[i].place) = Len(stack) - i BY <1>1 DEF StackSound
      <3>. QED BY <1>2, <3>1
    <2>. QED BY <2>1
  <1>. QED BY <1>1, <1>2, <1>3, <1>4

LEMMA ScalarStep ==
  ASSUME StackSound, NEW token \in J!Tokens, J!ReadScalar(token)
  PROVE  StackSound'
  <1>1. /\ J!Reads(token) /\ token.kind \in J!Scalars /\ UNCHANGED started
        /\ result = "none" /\ result' = "none" /\ J!AddJsonElement(token.kind)
    BY DEF J!ReadScalar, J!Reads
  <1>2. doc' \in Seq(J!Tokens) /\ Len(doc') <= MaxTokens BY <1>1, DocGrows DEF J!Reads
  <1>3. started BY <1>1, OnlyContainersFirst DEF StackSound, J!TypeOK, J!Scalars
  <1>4. legal' \subseteq J!AllTypes BY DEF J!ReadScalar, J!AllTypes
  <1>5. key \in Names \cup {None} /\ error \in BOOLEAN BY DEF StackSound, J!TypeOK
  <1>6. CASE J!Takes
    <2>1. /\ tree' = J!Put(J!Place, token.kind) /\ stack' = J!Grown /\ key' = None
          /\ error' = error
      BY <1>1, <1>6 DEF J!AddJsonElement
    <2>2. stack # <<>> /\ (J!Top.type = "object" => key \in Names) BY <1>5, <1>6 DEF J!Takes
    <2>3. /\ stack' \in Seq(Opened) /\ Len(stack') = Len(stack) /\ Len(stack) \in Nat
          /\ \A i \in 1 .. Len(stack) :
                /\ Len(stack'[i].place) = Len(stack') - i
                /\ stack'[i].place = stack[i].place /\ stack'[i].type = stack[i].type
                /\ stack'[i].type \in {"object", "array"} /\ stack'[i].size \in Nat
      BY <2>1, <2>2, TopIsOpen
    <2>4. J!Place \in Seq(Names \cup Nat) /\ Len(J!Place) = Len(stack) BY <2>2, NextPlace
    <2>5. \A i \in DOMAIN stack : <<stack[i].place, stack[i].type>> \in tree'
      BY <1>1, <1>3, <2>1, <2>4, PutKeepsOpen
    <2>6. DOMAIN stack = 1 .. Len(stack) /\ DOMAIN stack' = 1 .. Len(stack) BY <2>3 DEF StackSound
    <2>7. \A i \in 1 .. Len(stack) - 1 : J!Front(stack[i].place) = stack[i + 1].place
      BY <1>1, <1>3 DEF StackSound, J!OpenAlive
    <2>8. J!OpenAlive'
      <3>1. \A i \in DOMAIN stack' : <<stack'[i].place, stack'[i].type>> \in tree'
        BY <2>3, <2>5, <2>6
      <3>2. \A i \in 1 .. Len(stack') - 1 : J!Front(stack'[i].place) = stack'[i + 1].place
        <4>1. \A i \in 1 .. Len(stack') - 1 : i \in 1 .. Len(stack) /\ i + 1 \in 1 .. Len(stack)
          BY <2>3
        <4>. QED BY <2>3, <2>7, <4>1
      <3>. QED BY <3>1, <3>2 DEF J!OpenAlive
    <2>9. J!TypeOK' BY <1>1, <1>2, <1>3, <1>4, <1>5, <2>1, <2>3, <2>6 DEF J!TypeOK
    <2>. QED BY <1>1, <1>3, <2>3, <2>6, <2>8, <2>9 DEF StackSound
  <1>7. CASE ~J!Takes
    <2>1. UNCHANGED <<tree, stack, key>> /\ error' = TRUE BY <1>1, <1>7 DEF J!AddJsonElement
    <2>. QED BY <1>1, <1>2, <1>3, <1>4, <1>5, <2>1, StackKept
  <1>. QED BY <1>6, <1>7

LEMMA BeginsLegal == ASSUME NEW token, J!Begin(token) PROVE legal' \subseteq J!AllTypes
  <1>1. legal' = {"string"} \/ legal' = J!AllTypes \ {"colon", "separator", "eof"} BY DEF J!Begin
  <1>2. "string" \in J!AllTypes BY DEF J!AllTypes, J!Scalars
  <1>. QED BY <1>1, <1>2

LEMMA RootStep ==
  ASSUME StackSound, NEW token \in J!Tokens, J!Begin(token), ~started
  PROVE  StackSound'
  <1> DEFINE kind == token.kind
  <1>1. /\ J!Reads(token) /\ kind \in {"object", "array"} /\ started' = TRUE
        /\ result = "none" /\ result' = "none"
        /\ stack' = [stack EXCEPT ![1].type = kind]
        /\ tree' = {<<<<>>, kind>>} /\ UNCHANGED <<key, error>>
    BY DEF J!Begin, J!Reads
  <1>2. doc' \in Seq(J!Tokens) /\ Len(doc') <= MaxTokens BY <1>1, DocGrows DEF J!Reads
  <1>3. legal' \subseteq J!AllTypes BY BeginsLegal
  <1>4. key \in Names \cup {None} /\ error \in BOOLEAN BY DEF StackSound, J!TypeOK
  <1>5. stack \in Seq(Opened) /\ Len(stack) = 1 /\ stack[1] \in Opened /\ DOMAIN stack = {1}
    BY DEF StackSound
  <1> DEFINE root == [stack[1] EXCEPT !.type = kind]
  <1>6. stack' = [stack EXCEPT ![1] = root] BY <1>1
  <1>7. /\ root = [place |-> stack[1].place, type |-> kind, size |-> stack[1].size]
        /\ stack[1].size \in Nat /\ stack[1].place \in Seq(Names \cup Nat)
    BY <1>5 DEF Opened
  <1>8. Len(stack[1].place) = 0 BY <1>5 DEF StackSound
  <1>9. stack[1].place = <<>> BY <1>7, <1>8
  <1>10. root \in Opened /\ root.place = <<>> /\ root.type = kind /\ root.size \in Nat
    BY <1>1, <1>7, <1>9 DEF Opened
  <1> HIDE DEF root
  <1>11. /\ stack' \in Seq(Opened) /\ Len(stack') = 1 /\ DOMAIN stack' = {1} /\ stack'[1] = root
    BY <1>5, <1>6, <1>10
  <1>12. \A i \in DOMAIN stack' :
            /\ stack'[i].type \in {"object", "array"} /\ stack'[i].size \in Nat
            /\ Len(stack'[i].place) = Len(stack') - i
            /\ <<stack'[i].place, stack'[i].type>> \in tree'
    <2>1. ASSUME NEW i \in DOMAIN stack'
          PROVE  /\ stack'[i].type \in {"object", "array"} /\ stack'[i].size \in Nat
                 /\ Len(stack'[i].place) = Len(stack') - i
                 /\ <<stack'[i].place, stack'[i].type>> \in tree'
      <3>1. i = 1 /\ stack'[i] = root BY <1>11
      <3>2. Len(<<>>) = 0 OBVIOUS
      <3>3. Len(stack'[i].place) = Len(stack') - i BY <1>10, <1>11, <3>1, <3>2
      <3>4. <<stack'[i].place, stack'[i].type>> \in tree' BY <1>1, <1>10, <3>1
      <3>. QED BY <1>1, <1>10, <3>1, <3>3, <3>4
    <2>. QED BY <2>1
  <1>13. J!OpenAlive'
    <2>1. 1 .. Len(stack') - 1 = {} BY <1>11
    <2>. QED BY <1>12, <2>1 DEF J!OpenAlive
  <1>14. J!TypeOK' BY <1>1, <1>2, <1>3, <1>4, <1>12 DEF J!TypeOK
  <1>. QED BY <1>1, <1>11, <1>12, <1>13, <1>14 DEF StackSound

\* A container that is not the root is put at the next place and on the stack.
LEMMA OpenStep ==
  ASSUME StackSound, NEW token \in J!Tokens, J!Begin(token), started, stack # <<>>,
         J!Top.type = "object" => key # None
  PROVE  StackSound'
  <1> DEFINE kind == token.kind
  <1> DEFINE opened == [place |-> J!Place, type |-> kind, size |-> 0]
  <1>1. /\ J!Reads(token) /\ kind \in {"object", "array"} /\ started' = TRUE
        /\ result = "none" /\ result' = "none"
        /\ tree' = J!Put(J!Place, kind) /\ stack' = <<opened>> \o J!Grown
        /\ key' \in {None, key} /\ error' = error
    BY DEF J!Begin, J!Reads
  <1>2. doc' \in Seq(J!Tokens) /\ Len(doc') <= MaxTokens BY <1>1, DocGrows DEF J!Reads
  <1>3. legal' \subseteq J!AllTypes BY BeginsLegal
  <1>4. key \in Names \cup {None} /\ error \in BOOLEAN BY DEF StackSound, J!TypeOK
  <1>5. /\ Len(stack) \in Nat \ {0} /\ stack \in Seq(Opened)
        /\ J!Grown \in Seq(Opened) /\ Len(J!Grown) = Len(stack)
        /\ \A i \in 1 .. Len(stack) :
              /\ Len(J!Grown[i].place) = Len(stack) - i
              /\ J!Grown[i].place = stack[i].place /\ J!Grown[i].type = stack[i].type
              /\ J!Grown[i].type \in {"object", "array"} /\ J!Grown[i].size \in Nat
    BY TopIsOpen
  <1>6. /\ J!Place \in Seq(Names \cup Nat) /\ Len(J!Place) = Len(stack)
        /\ J!Front(J!Place) = stack[1].place
    BY <1>4, NextPlace
  <1>7. /\ opened \in Opened /\ opened.place = J!Place /\ opened.type = kind /\ opened.size = 0
    BY <1>1, <1>6 DEF Opened
  <1> DEFINE grown == J!Grown
  <1>8. /\ stack' \in Seq(Opened) /\ Len(stack') = Len(stack) + 1 /\ stack'[1] = opened
        /\ DOMAIN stack' = 1 .. Len(stack) + 1
        /\ \A i \in 2 .. Len(stack) + 1 : stack'[i] = grown[i - 1] /\ i - 1 \in 1 .. Len(stack)
    <2>1. stack' = <<opened>> \o grown BY <1>1
    <2>2. grown \in Seq(Opened) /\ Len(grown) = Len(stack) BY <1>5
    <2> HIDE DEF opened, grown
    <2>. QED BY <1>5, <1>7, <2>1, <2>2
  <1> HIDE DEF opened
  <1>9. \A i \in DOMAIN stack : <<stack[i].place, stack[i].type>> \in tree'
    BY <1>1, <1>6, PutKeepsOpen
  <1>10. <<J!Place, kind>> \in tree' BY <1>1, <1>6, PutKeepsOpen
  <1>11. \A i \in DOMAIN stack' :
            /\ stack'[i].type \in {"object", "array"} /\ stack'[i].size \in Nat
            /\ Len(stack'[i].place) = Len(stack') - i
            /\ <<stack'[i].place, stack'[i].type>> \in tree'
    <2>1. ASSUME NEW i \in DOMAIN stack'
          PROVE  /\ stack'[i].type \in {"object", "array"} /\ stack'[i].size \in Nat
                 /\ Len(stack'[i].place) = Len(stack') - i
                 /\ <<stack'[i].place, stack'[i].type>> \in tree'
      <3>1. CASE i = 1
        <4>1. stack'[i] = opened BY <1>8, <3>1
        <4>2. Len(stack'[i].place) = Len(stack') - i BY <1>5, <1>6, <1>7, <1>8, <3>1, <4>1
        <4>3. stack'[i].type = kind /\ stack'[i].size = 0 /\ stack'[i].place = J!Place BY <1>7, <4>1
        <4>4. stack'[i].type \in {"object", "array"} /\ stack'[i].size \in Nat BY <1>1, <4>3
        <4>5. <<stack'[i].place, stack'[i].type>> \in tree' BY <1>10, <4>3
        <4>. QED BY <4>2, <4>4, <4>5
      <3>2. CASE i \in 2 .. Len(stack) + 1
        <4>1. stack'[i] = grown[i - 1] /\ i - 1 \in 1 .. Len(stack) BY <1>8, <3>2
        <4>2. /\ Len(grown[i - 1].place) = Len(stack) - (i - 1)
              /\ grown[i - 1].place = stack[i - 1].place /\ grown[i - 1].type = stack[i - 1].type
              /\ grown[i - 1].type \in {"object", "array"} /\ grown[i - 1].size \in Nat
          BY <1>5, <4>1
        <4>3. <<stack[i - 1].place, stack[i - 1].type>> \in tree' BY <1>5, <1>9, <4>1
        <4>4. Len(stack'[i].place) = Len(stack') - i BY <1>5, <1>8, <3>2, <4>1, <4>2
        <4> HIDE DEF grown
        <4>5. stack'[i].type \in {"object", "array"} /\ stack'[i].size \in Nat BY <4>1, <4>2
        <4>6. <<stack'[i].place, stack'[i].type>> \in tree' BY <4>1, <4>2, <4>3
        <4>. QED BY <4>4, <4>5, <4>6
      <3>. QED BY <1>5, <1>8, <3>1, <3>2
    <2>. QED BY <2>1
  <1>12. \A i \in 1 .. Len(stack') - 1 : J!Front(stack'[i].place) = stack'[i + 1].place
    <2>1. ASSUME NEW i \in 1 .. Len(stack') - 1
          PROVE  J!Front(stack'[i].place) = stack'[i + 1].place
      <3>0. i + 1 \in 2 .. Len(stack) + 1 /\ (i + 1) - 1 = i /\ i \in 1 .. Len(stack) BY <1>5, <1>8
      <3>1. stack'[i + 1].place = stack[i].place
        <4>1. stack'[i + 1] = grown[i] BY <1>8, <3>0
        <4>. QED BY <1>5, <3>0, <4>1
      <3>2. CASE i = 1 BY <1>6, <1>7, <1>8, <3>1, <3>2
      <3>3. CASE i # 1
        <4>1. i \in 2 .. Len(stack) + 1 /\ i - 1 \in 1 .. Len(stack) - 1 /\ (i - 1) + 1 = i
          BY <1>5, <3>0, <3>3
        <4>2. stack'[i] = grown[i - 1] BY <1>8, <4>1
        <4>3. stack'[i].place = stack[i - 1].place BY <1>5, <1>8, <4>1, <4>2
        <4>4. J!Front(stack[i - 1].place) = stack[i].place
          BY <1>1, <4>1 DEF StackSound, J!OpenAlive
        <4>. QED BY <3>1, <4>3, <4>4
      <3>. QED BY <3>2, <3>3
    <2>. QED BY <2>1
  <1>13. J!OpenAlive' BY <1>11, <1>12 DEF J!OpenAlive
  <1>14. J!TypeOK' BY <1>1, <1>2, <1>3, <1>4, <1>11 DEF J!TypeOK
  <1>. QED BY <1>1, <1>8, <1>11, <1>13, <1>14 DEF StackSound

LEMMA BeginStep ==
  ASSUME StackSound, NEW token \in J!Tokens, J!Begin(token)
  PROVE  StackSound'
  <1>1. CASE ~started BY <1>1, RootStep
  <1>2. CASE started /\ stack # <<>> /\ J!Top.type = "object" /\ key = None
    <2>1. /\ J!Reads(token) /\ error' = TRUE /\ UNCHANGED <<stack, tree, key>> /\ started' = started
          /\ result = "none" /\ result' = "none"
      BY <1>2 DEF J!Begin, J!Reads
    <2>2. doc' \in Seq(J!Tokens) /\ Len(doc') <= MaxTokens BY <2>1, DocGrows DEF J!Reads
    <2>3. legal' \subseteq J!AllTypes BY BeginsLegal
    <2>4. key \in Names \cup {None} BY DEF StackSound, J!TypeOK
    <2>. QED BY <1>2, <2>1, <2>2, <2>3, <2>4, StackKept
  <1>3. CASE started /\ stack # <<>> /\ (J!Top.type = "object" => key # None) BY <1>3, OpenStep
  <1>4. CASE started /\ stack = <<>> BY <1>4 DEF J!Begin
  <1>. QED BY <1>1, <1>2, <1>3, <1>4 DEF StackSound, J!TypeOK

LEMMA StackStays == ASSUME StackSound, [J!Next]_reader PROVE StackSound'
  <1>1. CASE UNCHANGED reader
    BY <1>1 DEF reader, StackSound, J!TypeOK, J!OpenAlive
  <1>2. ASSUME NEW token \in J!Tokens,
               \/ J!Illegal(token) \/ J!Begin(token) \/ J!BeginWild(token) \/ J!End(token)
               \/ J!ReadName(token) \/ J!ReadScalar(token) \/ J!ReadRefused(token)
               \/ J!Separator(token)
        PROVE  StackSound'
    BY <1>2, QuietSteps, BeginStep, EndStep, ScalarStep
  <1>3. ASSUME NEW white \in BOOLEAN, J!EndOfText(white) PROVE StackSound'
    BY <1>3, EndOfTextStep
  <1>. QED BY <1>1, <1>2, <1>3 DEF J!Next

-----------------------------------------------------------------------------
(* JsonGrammar: the function that lists phrases, and its rules. *)

\* Induction over a set of numbers.
LEMMA Numbers ==
  ASSUME NEW P \in SUBSET Nat, 0 \in P, \A n \in P : n + 1 \in P
  PROVE  \A n \in Nat : n \in P
  <1> SUFFICES ASSUME Nat \ P # {} PROVE FALSE OBVIOUS
  <1> DEFINE Less == OpToRel(<, Nat)
  <1>1. IsWellFoundedOn(Less, Nat) BY NatLessThanWellFounded
  <1>2. PICK n \in Nat \ P : \A m \in Nat \ P : ~(<<m, n>> \in Less)
    <2> HIDE DEF Less
    <2>. QED BY <1>1, WFMin
  <1>3. \A m \in Nat \ P : <<m, n>> \in Less <=> m < n BY DEF OpToRel
  <1> HIDE DEF Less
  <1>4. n \in Nat /\ n # 0 OBVIOUS
  <1>5. n - 1 \in Nat /\ n - 1 < n /\ (n - 1) + 1 = n BY <1>4
  <1>6. n - 1 \in P BY <1>2, <1>3, <1>5
  <1>7. n \in P BY <1>5, <1>6
  <1>. QED BY <1>2, <1>7

\* The equation of G!UpTo, for a function on the first numbers.
Grows(f, m) ==
  f = [n \in 1 .. m |->
         IF n = 1 THEN G!Shortest ELSE Append(f[n - 1], G!Phrases(n, f[n - 1]))]

\* The recursive function is there.
LEMMA GrowsUp == \A m \in Nat : \E f : Grows(f, m)
  <1> DEFINE P == {m \in Nat : \E f : Grows(f, m)}
  <1>1. 0 \in P
    <2>1. Grows(<<>>, 0) BY DEF Grows
    <2>. QED BY <2>1
  <1>2. ASSUME NEW m \in P PROVE m + 1 \in P
    <2>1. PICK f : Grows(f, m) OBVIOUS
    <2> DEFINE g == [n \in 1 .. m + 1 |->
                       IF n = 1 THEN G!Shortest ELSE Append(f[n - 1], G!Phrases(n, f[n - 1]))]
    <2>2. \A n \in 1 .. m : g[n] = f[n]
      <3>1. \A n \in 1 .. m : n \in 1 .. m + 1 OBVIOUS
      <3>. QED BY <2>1, <3>1, Zenon DEF Grows
    <2>3. \A n \in 1 .. m + 1 : n # 1 => n - 1 \in 1 .. m OBVIOUS
    <2>4. Grows(g, m + 1) BY <2>2, <2>3 DEF Grows
    <2>. QED BY <2>4
  <1> HIDE DEF P
  <1>3. P \in SUBSET Nat BY DEF P
  <1>4. \A n \in Nat : n \in P BY <1>1, <1>2, <1>3, Numbers
  <1>. QED BY <1>4 DEF P

LEMMA UpToGrows == Grows(G!UpTo, MaxTokens)
  <1>1. \E f : Grows(f, MaxTokens) BY GrowsUp, LocalAssumption
  <1>2. G!UpTo = CHOOSE f : Grows(f, MaxTokens) BY Zenon DEF Grows, G!UpTo
  <1>. QED BY <1>1, <1>2, Zenon

\* What holds of the shortest phrases and of what is made of shorter ones holds of
\* all: the inside of a document is in any sets of items and members that are
\* closed under the rules of the grammar.
Rules(V, I, M) ==
  /\ G!Scalar \subseteq V
  /\ \A l \in I : G!Wrap("array", l, "array_end") \in V
  /\ \A l \in M : G!Wrap("object", l, "object_end") \in V
  /\ G!Nothing \in I
  /\ \A l \in I, v \in V : G!Item(l, v) \in I
  /\ \A l \in M \cup {G!Nothing}, a \in Names, v \in V : G!Member(l, a, v) \in M

Insides(I, M) == {G!Wrap("array", l, "array_end") : l \in I}
                   \cup {G!Wrap("object", l, "object_end") : l \in M}

PhrasesOf(V, I, M) == [values : SUBSET V, items : SUBSET I, members : SUBSET M]

LEMMA PhrasesFollowRules ==
  ASSUME NEW V, NEW I, NEW M, Rules(V, I, M), NEW n \in Nat, n >= 2,
         NEW shorter \in Seq(PhrasesOf(V, I, M)), Len(shorter) = n
  PROVE  /\ G!Phrases(n, shorter) \in PhrasesOf(V, I, M)
         /\ G!Phrases(n, shorter).values \subseteq Insides(I, M)
  <1> DEFINE values == {G!Wrap("array", l, "array_end") : l \in shorter[n - 2 + 1].items}
                         \cup {G!Wrap("object", l, "object_end") : l \in shorter[n - 2 + 1].members}
             After(k) == IF k < n THEN shorter[n - k + 1].values ELSE {}
             items == {G!Item(G!Nothing, v) : v \in values}
                        \cup UNION {{G!Item(l, v) : l \in shorter[i + 1].items, v \in After(i + 1)} : i \in 1 .. n - 1}
             members == {G!Member(G!Nothing, a, v) : a \in Names, v \in After(2)}
                          \cup UNION {{G!Member(l, a, v) : l \in shorter[i + 1].members, a \in Names, v \in After(i + 3)} : i \in 1 .. n - 1}
  <1>1. G!Phrases(n, shorter) = [values |-> values, items |-> items, members |-> members]
    BY SMT DEF G!Phrases
  <1>2. \A k \in 1 .. n : /\ shorter[k].values \subseteq V /\ shorter[k].items \subseteq I
                          /\ shorter[k].members \subseteq M
    <2>1. \A k \in 1 .. n : shorter[k] \in PhrasesOf(V, I, M) OBVIOUS
    <2>2. \A r \in PhrasesOf(V, I, M) :
             r.values \subseteq V /\ r.items \subseteq I /\ r.members \subseteq M
      BY DEF PhrasesOf
    <2>. QED BY <2>1, <2>2
  <1>3. n - 2 + 1 \in 1 .. n /\ \A i \in 1 .. n - 1 : i + 1 \in 1 .. n OBVIOUS
  <1>4. values \subseteq Insides(I, M) BY <1>2, <1>3 DEF Insides
  <1>5. Insides(I, M) \subseteq V BY DEF Insides, Rules
  <1>6. \A k \in Nat \ {0} : After(k) \subseteq V
    <2>1. \A k \in Nat \ {0} : k < n => n - k + 1 \in 1 .. n OBVIOUS
    <2>. QED BY <1>2, <2>1
  <1>7. items \subseteq I
    <2>1. ASSUME NEW i \in 1 .. n - 1 PROVE shorter[i + 1].items \subseteq I /\ After(i + 1) \subseteq V
      BY <1>2, <1>3, <1>6
    <2> HIDE DEF values, After
    <2>2. values \subseteq V BY <1>4, <1>5
    <2> DEFINE first == {G!Item(G!Nothing, v) : v \in values}
               longer(i) == {G!Item(l, v) : l \in shorter[i + 1].items, v \in After(i + 1)}
    <2>3. first \subseteq I BY <2>2 DEF Rules
    <2>4. \A i \in 1 .. n - 1 : longer(i) \subseteq I
      <3>1. \A i \in 1 .. n - 1 :
              \A l \in shorter[i + 1].items, v \in After(i + 1) : G!Item(l, v) \in I
        BY <2>1 DEF Rules
      <3>. QED BY <3>1
    <2>5. UNION {longer(i) : i \in 1 .. n - 1} \subseteq I
      <3> HIDE DEF longer
      <3>. QED BY <2>4
    <2>. QED BY <2>3, <2>5
  <1>8. members \subseteq M
    <2>1. ASSUME NEW i \in 1 .. n - 1 PROVE shorter[i + 1].members \subseteq M /\ After(i + 3) \subseteq V
      BY <1>2, <1>3, <1>6
    <2>2. After(2) \subseteq V BY <1>6
    <2> HIDE DEF values, After
    <2> DEFINE first == {G!Member(G!Nothing, a, v) : a \in Names, v \in After(2)}
               longer(i) == {G!Member(l, a, v) : l \in shorter[i + 1].members, a \in Names, v \in After(i + 3)}
    <2>3. first \subseteq M
      <3>1. \A a \in Names, v \in After(2) : G!Member(G!Nothing, a, v) \in M BY <2>2 DEF Rules
      <3>. QED BY <3>1
    <2>4. \A i \in 1 .. n - 1 : longer(i) \subseteq M
      <3>1. \A i \in 1 .. n - 1 :
              \A l \in shorter[i + 1].members, a \in Names, v \in After(i + 3) : G!Member(l, a, v) \in M
        BY <2>1 DEF Rules
      <3>. QED BY <3>1
    <2>5. UNION {longer(i) : i \in 1 .. n - 1} \subseteq M
      <3> HIDE DEF longer
      <3>. QED BY <2>4
    <2>. QED BY <2>3, <2>5
  <1> HIDE DEF values, After, items, members
  <1>. QED BY <1>1, <1>4, <1>5, <1>7, <1>8 DEF PhrasesOf

LEMMA ShortestFollowRules ==
  ASSUME NEW V, NEW I, NEW M, Rules(V, I, M)
  PROVE  G!Shortest \in Seq(PhrasesOf(V, I, M)) /\ Len(G!Shortest) = 2
  <1>1. [values |-> {}, items |-> {G!Nothing}, members |-> {}] \in PhrasesOf(V, I, M)
    BY DEF Rules, PhrasesOf
  <1>2. [values |-> G!Scalar, items |-> {G!Item(G!Nothing, v) : v \in G!Scalar}, members |-> {}]
          \in PhrasesOf(V, I, M)
    BY DEF Rules, PhrasesOf
  <1>. QED BY <1>1, <1>2 DEF G!Shortest

LEMMA DocumentsFollowRules ==
  ASSUME NEW V, NEW I, NEW M, Rules(V, I, M)
  PROVE  Documents \subseteq Insides(I, M)
  <1> DEFINE Phrased(m) == G!UpTo[m] \in Seq(PhrasesOf(V, I, M)) /\ Len(G!UpTo[m]) = m + 1
             Inner(m) == \A k \in 3 .. m + 1 : G!UpTo[m][k].values \subseteq Insides(I, M)
             P == {m \in Nat : m + 1 \in 1 .. MaxTokens => Phrased(m + 1) /\ Inner(m + 1)}
  <1>1. /\ \A n \in 1 .. MaxTokens :
              G!UpTo[n] = IF n = 1 THEN G!Shortest
                                   ELSE Append(G!UpTo[n - 1], G!Phrases(n, G!UpTo[n - 1]))
    BY UpToGrows, Zenon DEF Grows
  <1>2. 0 \in P
    <2>1. Inner(1) OBVIOUS
    <2>2. 1 \in 1 .. MaxTokens => Phrased(1) BY <1>1, ShortestFollowRules
    <2> HIDE DEF Phrased, Inner
    <2>. QED BY <2>1, <2>2
  <1>3. ASSUME NEW p \in P PROVE p + 1 \in P
    <2> SUFFICES ASSUME (p + 1) + 1 \in 1 .. MaxTokens
                 PROVE  Phrased((p + 1) + 1) /\ Inner((p + 1) + 1)
      <3> HIDE DEF Phrased, Inner
      <3>. QED OBVIOUS
    <2> DEFINE n == (p + 1) + 1
               shorter == G!UpTo[p + 1]
               longest == G!Phrases(n, shorter)
    <2>1. n \in Nat /\ n >= 2 /\ n - 1 = p + 1 /\ p + 1 \in 1 .. MaxTokens
      BY LocalAssumption
    <2>2. G!UpTo[n] = Append(shorter, longest)
      <3>1. n \in 1 .. MaxTokens /\ n # 1 BY <2>1
      <3>2. G!UpTo[n] = Append(G!UpTo[n - 1], G!Phrases(n, G!UpTo[n - 1]))
        <4> HIDE DEF n
        <4>. QED BY <1>1, <3>1
      <3>. QED BY <2>1, <3>2
    <2>3. shorter \in Seq(PhrasesOf(V, I, M)) /\ Len(shorter) = n BY <2>1
    <2>4. longest \in PhrasesOf(V, I, M) /\ longest.values \subseteq Insides(I, M)
      BY <2>1, <2>3, PhrasesFollowRules
    <2>5. Inner(p + 1) BY <2>1
    <2> HIDE DEF shorter, longest
    <2>6. Phrased(n) BY <2>1, <2>2, <2>3, <2>4
    <2>7. \A k \in 3 .. n + 1 : G!UpTo[n][k] = IF k = n + 1 THEN longest ELSE shorter[k]
      BY <2>1, <2>2, <2>3, <2>4
    <2>8. \A k \in 3 .. n + 1 : k = n + 1 \/ k \in 3 .. (p + 1) + 1 BY <2>1
    <2>9. Inner(n) BY <2>4, <2>5, <2>7, <2>8 DEF shorter
    <2>. QED BY <2>6, <2>9
  <1>4. \A m \in Nat : m \in P
    <2> HIDE DEF P
    <2>1. P \in SUBSET Nat BY DEF P
    <2>. QED BY <1>2, <1>3, <2>1, Numbers
  <1>5. \A n \in 2 .. MaxTokens : G!UpTo[MaxTokens][n + 1].values \subseteq Insides(I, M)
    <2>1. SUFFICES ASSUME NEW n \in 2 .. MaxTokens
                   PROVE  G!UpTo[MaxTokens][n + 1].values \subseteq Insides(I, M)
      OBVIOUS
    <2>2. MaxTokens - 1 \in Nat /\ (MaxTokens - 1) + 1 = MaxTokens /\ MaxTokens \in 1 .. MaxTokens
          /\ n + 1 \in 3 .. MaxTokens + 1
      BY LocalAssumption
    <2>3. Inner(MaxTokens) BY <1>4, <2>2
    <2>. QED BY <2>2, <2>3
  <1>. QED BY <1>5 DEF Documents, G!JsonDocuments

-----------------------------------------------------------------------------
(* Places. *)

Keys == Names \cup Nat
Kinds == {"object", "array", "string", "literal"}
Found == Seq(Keys) \X Kinds

\* What is not at a place or inside it, and elements that are moved to a place.
Outside(T, p) == {e \in T : ~J!IsPrefix(p, e[1])}
At(p, T) == {<<p \o e[1], e[2]>> : e \in T}

LEMMA PrefixIs ==
  ASSUME NEW p \in Seq(Keys), NEW q \in Seq(Keys)
  PROVE  J!IsPrefix(p, q) <=> Len(p) <= Len(q) /\ \A i \in 1 .. Len(p) : p[i] = q[i]
  <1> DEFINE n == Len(p)
             a == SubSeq(p, 1, n)
             b == SubSeq(q, 1, n)
  <1>1. n \in Nat /\ Len(q) \in Nat OBVIOUS
  <1>2. CASE n <= Len(q)
    <2>1. a \in Seq(Keys) /\ Len(a) = n /\ \A i \in 1 .. n : a[i] = p[i] BY <1>1
    <2>2. b \in Seq(Keys) /\ Len(b) = n /\ \A i \in 1 .. n : b[i] = q[i] BY <1>1, <1>2
    <2>3. J!IsPrefix(p, q) <=> a = b BY <1>2 DEF J!IsPrefix
    <2> HIDE DEF a, b
    <2>4. a = b <=> \A i \in 1 .. n : a[i] = b[i] BY <2>1, <2>2, SeqEqual
    <2>. QED BY <1>2, <2>1, <2>2, <2>3, <2>4
  <1>3. CASE ~(n <= Len(q)) BY <1>3 DEF J!IsPrefix
  <1>. QED BY <1>2, <1>3

LEMMA AtFound ==
  ASSUME NEW p \in Seq(Keys), NEW T \in SUBSET Found
  PROVE  At(p, T) \subseteq Found
  <1>1. \A e \in T : e[1] \in Seq(Keys) /\ e[2] \in Kinds BY DEF Found
  <1>2. \A e \in T : p \o e[1] \in Seq(Keys) BY <1>1, ConcatProperties
  <1>3. \A e \in T : <<p \o e[1], e[2]>> \in Found BY <1>1, <1>2 DEF Found
  <1>. QED BY <1>3 DEF At

LEMMA OutsideFound == ASSUME NEW p, NEW T \in SUBSET Found PROVE Outside(T, p) \subseteq Found
  BY DEF Outside

LEMMA AtUnion == ASSUME NEW p, NEW S, NEW T PROVE At(p, S \cup T) = At(p, S) \cup At(p, T)
  BY DEF At

LEMMA OutsideUnion == ASSUME NEW p, NEW S, NEW T PROVE Outside(S \cup T, p) = Outside(S, p) \cup Outside(T, p)
  BY DEF Outside

\* At the root every element is where it is.
LEMMA AtRoot == ASSUME NEW T \in SUBSET Found PROVE At(<<>>, T) = T
  <1>1. \A e \in T : <<<<>> \o e[1], e[2]>> = e BY ConcatEmptySeq DEF Found
  <1>. QED BY <1>1 DEF At

LEMMA AtUnder ==
  ASSUME NEW p \in Seq(Keys), NEW k \in Keys, NEW T \in SUBSET Found
  PROVE  At(p, G!Under(k, T)) = At(Append(p, k), T)
  <1>1. ASSUME NEW q \in Seq(Keys) PROVE Append(p, k) \o q = p \o (<<k>> \o q)
    <2>1. <<k>> \in Seq(Keys) OBVIOUS
    <2>2. Append(p, k) = p \o <<k>> BY AppendIsConcat
    <2>. QED BY <2>1, <2>2, ConcatAssociative
  <1>2. \A e \in T : e[1] \in Seq(Keys) BY DEF Found
  <1>3. ASSUME NEW e \in T
        PROVE  <<p \o (<<k>> \o e[1]), e[2]>> = <<Append(p, k) \o e[1], e[2]>>
    BY <1>1, <1>2
  <1>4. G!Under(k, T) = {<<<<k>> \o e[1], e[2]>> : e \in T} BY DEF G!Under
  <1>5. At(p, G!Under(k, T)) = {<<p \o (<<k>> \o e[1]), e[2]>> : e \in T}
    <2> DEFINE under(e) == <<<<k>> \o e[1], e[2]>>
               moved(e) == <<p \o e[1], e[2]>>
    <2>1. At(p, G!Under(k, T)) = {moved(d) : d \in {under(e) : e \in T}} BY <1>4 DEF At
    <2>2. \A e \in T : moved(under(e)) = <<p \o (<<k>> \o e[1]), e[2]>> OBVIOUS
    <2>3. {moved(d) : d \in {under(e) : e \in T}} = {moved(under(e)) : e \in T}
      <3> HIDE DEF moved, under
      <3>. QED OBVIOUS
    <2>4. {moved(under(e)) : e \in T} = {<<p \o (<<k>> \o e[1]), e[2]>> : e \in T}
      <3> DEFINE both(e) == moved(under(e))
                 inner(e) == <<p \o (<<k>> \o e[1]), e[2]>>
      <3>1. \A e \in T : both(e) = inner(e) BY <2>2
      <3> HIDE DEF both, inner
      <3>2. {both(e) : e \in T} = {inner(e) : e \in T} BY <3>1
      <3>. QED BY <3>2 DEF both, inner
    <2>. QED BY <2>1, <2>3, <2>4
  <1>6. At(Append(p, k), T) = {<<Append(p, k) \o e[1], e[2]>> : e \in T} BY DEF At
  <1>. QED BY <1>3, <1>5, <1>6

\* Nothing is inside a place.
Fresh(T, p) == \A e \in T : J!IsPrefix(p, e[1]) => e[1] = p

LEMMA OutsideFresh ==
  ASSUME NEW p \in Seq(Keys), NEW k \in Keys, NEW T \in SUBSET Found, Fresh(T, p)
  PROVE  Outside(T, Append(p, k)) = T
  <1>1. ASSUME NEW e \in T PROVE ~J!IsPrefix(Append(p, k), e[1])
    <2> DEFINE q == e[1]
               c == Append(p, k)
    <2>1. q \in Seq(Keys) BY DEF Found
    <2>2. c \in Seq(Keys) /\ Len(c) = Len(p) + 1 /\ \A i \in 1 .. Len(p) : c[i] = p[i]
      BY AppendProperties
    <2>3. Len(p) \in Nat /\ Len(q) \in Nat BY <2>1
    <2>4. J!IsPrefix(p, q) => q = p BY DEF Fresh
    <2> HIDE DEF q, c
    <2>5. ASSUME J!IsPrefix(c, q) PROVE FALSE
      <3>1. Len(c) <= Len(q) /\ \A i \in 1 .. Len(c) : c[i] = q[i] BY <2>1, <2>2, <2>5, PrefixIs
      <3>2. Len(p) <= Len(q) /\ \A i \in 1 .. Len(p) : p[i] = q[i] BY <2>2, <2>3, <3>1
      <3>3. q = p BY <2>1, <2>4, <3>2, PrefixIs
      <3>. QED BY <2>2, <2>3, <3>1, <3>3
    <2>. QED BY <2>5 DEF q, c
  <1>. QED BY <1>1 DEF Outside

\* The elements of a container's inside, and those of them at or in one place.
LEMMA OutsideInside ==
  ASSUME NEW p \in Seq(Keys), NEW k \in Keys, NEW T \in SUBSET Found,
         \A e \in T : e[1] # <<>>
  PROVE  Outside(At(p, T), Append(p, k)) = At(p, G!Elsewhere(k, T))
  <1>1. ASSUME NEW e \in T PROVE J!IsPrefix(Append(p, k), p \o e[1]) <=> Head(e[1]) = k
    <2> DEFINE q == e[1]
               c == Append(p, k)
               r == p \o q
    <2>1. q \in Seq(Keys) /\ q # <<>> BY DEF Found
    <2>2. Len(p) \in Nat /\ Len(q) \in Nat /\ Len(q) >= 1 /\ Head(q) = q[1] BY <2>1
    <2>3. c \in Seq(Keys) /\ Len(c) = Len(p) + 1 /\ (\A i \in 1 .. Len(p) : c[i] = p[i])
          /\ c[Len(p) + 1] = k
      BY AppendProperties
    <2>4. r \in Seq(Keys) /\ Len(r) = Len(p) + Len(q)
          /\ \A i \in 1 .. Len(p) + Len(q) : r[i] = IF i <= Len(p) THEN p[i] ELSE q[i - Len(p)]
      BY <2>1, ConcatProperties
    <2> HIDE DEF q, c, r
    <2>5. J!IsPrefix(c, r) <=> \A i \in 1 .. Len(c) : c[i] = r[i]
      <3>1. Len(c) <= Len(r) BY <2>2, <2>3, <2>4
      <3>. QED BY <2>3, <2>4, <3>1, PrefixIs
    <2>6. r[Len(p) + 1] = q[1] BY <2>2, <2>4
    <2>7. \A i \in 1 .. Len(p) : c[i] = r[i] BY <2>2, <2>3, <2>4
    <2>8. J!IsPrefix(c, r) <=> k = q[1] BY <2>2, <2>3, <2>5, <2>6, <2>7
    <2>. QED BY <2>2, <2>8 DEF q, c, r
  <1> DEFINE moved(e) == <<p \o e[1], e[2]>>
  <1>2. \A e \in T : J!IsPrefix(Append(p, k), moved(e)[1]) <=> Head(e[1]) = k BY <1>1
  <1>3. At(p, T) = {moved(e) : e \in T} /\ At(p, G!Elsewhere(k, T)) = {moved(e) : e \in G!Elsewhere(k, T)}
    BY DEF At
  <1> HIDE DEF moved
  <1>4. Outside(At(p, T), Append(p, k)) \subseteq At(p, G!Elsewhere(k, T))
    BY <1>2, <1>3 DEF Outside, G!Elsewhere
  <1>5. At(p, G!Elsewhere(k, T)) \subseteq Outside(At(p, T), Append(p, k))
    BY <1>2, <1>3 DEF Outside, G!Elsewhere
  <1>. QED BY <1>4, <1>5

LEMMA ElsewhereAll ==
  ASSUME NEW k, NEW T, \A e \in T : Head(e[1]) # k PROVE G!Elsewhere(k, T) = T
  BY DEF G!Elsewhere

-----------------------------------------------------------------------------
(* The moves of the reader, while what it reads is JSON. *)

\* What the reader knows of a document: what is legal, the stack, the key and the
\* elements.
States == [legal : SUBSET J!AllTypes, stack : Seq(Opened), key : Names \cup {None}, tree : SUBSET Found]
State == [legal |-> legal, stack |-> stack, key |-> key, tree |-> tree]

\* The stack whose top has so many elements.
Sized(st, n) == <<[place |-> Head(st).place, type |-> Head(st).type, size |-> n]>> \o Tail(st)
More(st) == Sized(st, Head(st).size + 1)

\* There is a container open that takes an element, and its place.
Wants(s) == s.stack # <<>> /\ (Head(s.stack).type = "object" <=> s.key # None)
Spot(s) == Append(Head(s.stack).place, IF Head(s.stack).type = "object" THEN s.key ELSE Head(s.stack).size)
Holding(s, kind) == Outside(s.tree, Spot(s)) \cup {<<Spot(s), kind>>}

\* What is legal where a container begins, and what at least is legal before a
\* value and behind one.
FirstIn(kind) == IF kind = "object" THEN {"string"} ELSE J!AllTypes \ {"colon", "separator", "eof"}
Begins == {"string", "literal", "object", "array"}
Ends == {"separator", "array_end", "object_end"}

MovesScalar(s, x, t) ==
  /\ x.kind \in {"string", "literal"} /\ x.kind \in s.legal /\ Wants(s)
  /\ t = [legal |-> Ends \cup IF x.kind = "string" THEN {"colon"} ELSE {},
          stack |-> More(s.stack), key |-> None, tree |-> Holding(s, x.kind)]

MovesIn(s, x, t) ==
  /\ x.kind \in {"object", "array"} /\ x.kind \in s.legal /\ Wants(s)
  /\ t = [legal |-> FirstIn(x.kind),
          stack |-> <<[place |-> Spot(s), type |-> x.kind, size |-> 0]>> \o More(s.stack),
          key |-> None, tree |-> Holding(s, x.kind)]

MovesOut(s, x, t) ==
  /\ x.kind \in {"object_end", "array_end"} /\ x.kind \in s.legal /\ s.stack # <<>>
  /\ Head(s.stack).type = IF x.kind = "object_end" THEN "object" ELSE "array"
  /\ t = [legal |-> {"eof"} \cup Ends, stack |-> Tail(s.stack), key |-> s.key, tree |-> s.tree]

BehindMark(kind) == J!AllTypes \ ({"eof", "colon", "array_end", "object_end"}
                                     \cup IF kind = "colon" THEN {"separator"} ELSE {})

MovesOn(s, x, t) ==
  /\ x.kind \in {"separator", "colon"} /\ x.kind \in s.legal
  /\ t = [legal |-> BehindMark(x.kind), stack |-> s.stack, key |-> s.key, tree |-> s.tree]

MovesName(s, x, t) ==
  /\ x.kind = "name" /\ "string" \in s.legal /\ s.key = None
  /\ t = [legal |-> {"colon"} \cup Ends, stack |-> s.stack, key |-> x.name, tree |-> s.tree]

Moves(s, x, t) ==
  MovesScalar(s, x, t) \/ MovesIn(s, x, t) \/ MovesOut(s, x, t) \/ MovesOn(s, x, t) \/ MovesName(s, x, t)

\* The tokens of text lead from state s to state t.
IsRun(run, text) == \A i \in 1 .. Len(text) : Moves(run[i], text[i], run[i + 1])
Leads(s, text, t) == \E run : run[1] = s /\ run[Len(text) + 1] = t /\ IsRun(run, text)

LEMMA LeadsNowhere == ASSUME NEW s, NEW t PROVE Leads(s, <<>>, t) <=> s = t
  <1>1. Len(<<>>) = 0 OBVIOUS
  <1>2. ASSUME s = t PROVE Leads(s, <<>>, t)
    <2> DEFINE run == [i \in {1} |-> s]
    <2>1. run[1] = s /\ run[0 + 1] = t /\ IsRun(run, <<>>) BY <1>1, <1>2 DEF IsRun
    <2>. QED BY <1>1, <2>1 DEF Leads
  <1>3. Leads(s, <<>>, t) => s = t BY <1>1 DEF Leads
  <1>. QED BY <1>2, <1>3

LEMMA LeadsOn ==
  ASSUME NEW S, NEW a \in Seq(S), NEW b \in Seq(S), NEW s, NEW t, NEW u,
         Leads(s, a, t), Leads(t, b, u)
  PROVE  Leads(s, a \o b, u)
  <1>1. PICK f : f[1] = s /\ f[Len(a) + 1] = t /\ IsRun(f, a) BY DEF Leads
  <1>2. PICK g : g[1] = t /\ g[Len(b) + 1] = u /\ IsRun(g, b) BY DEF Leads
  <1> DEFINE c == a \o b
             m == Len(a)
             n == Len(b)
             run == [i \in 1 .. m + n + 1 |-> IF i <= m THEN f[i] ELSE g[i - m]]
  <1>3. m \in Nat /\ n \in Nat /\ Len(c) = m + n
        /\ \A i \in 1 .. m + n : c[i] = IF i <= m THEN a[i] ELSE b[i - m]
    BY ConcatProperties
  <1>4. \A i \in 1 .. m + n + 1 : run[i] = IF i <= m THEN f[i] ELSE g[i - m] OBVIOUS
  <1> HIDE DEF c, m, n, run
  <1>5. run[1] = s
    <2>1. 1 \in 1 .. m + n + 1 BY <1>3
    <2>2. CASE m = 0
      <3>1. run[1] = g[1] BY <1>4, <2>1, <2>2
      <3>. QED BY <1>1, <1>2, <2>2, <3>1 DEF m
    <2>3. CASE m # 0
      <3>1. 1 <= m BY <1>3, <2>3
      <3>. QED BY <1>1, <1>4, <2>1, <3>1
    <2>. QED BY <2>2, <2>3
  <1>6. run[m + n + 1] = u
    <2>1. m + n + 1 \in 1 .. m + n + 1 /\ ~(m + n + 1 <= m) /\ m + n + 1 - m = n + 1 BY <1>3
    <2>2. ASSUME NEW k, k = m + n + 1 PROVE run[k] = g[n + 1]
      <3>1. k \in 1 .. m + n + 1 /\ ~(k <= m) /\ k - m = n + 1 BY <1>3, <2>2
      <3>. QED BY <1>4, <3>1
    <2>3. run[m + n + 1] = g[n + 1] BY <2>2
    <2>. QED BY <1>2, <2>3 DEF n
  <1>7. ASSUME NEW i \in 1 .. m + n PROVE Moves(run[i], c[i], run[i + 1])
    <2>1. i \in 1 .. m + n + 1 /\ i + 1 \in 1 .. m + n + 1 BY <1>3
    <2>2. CASE i + 1 <= m
      <3>1. i \in 1 .. m /\ c[i] = a[i] /\ run[i] = f[i] /\ run[i + 1] = f[i + 1]
        BY <1>3, <1>4, <2>1, <2>2
      <3>. QED BY <1>1, <3>1 DEF IsRun, m
    <2>3. CASE i = m
      <3>1. i \in 1 .. m /\ c[i] = a[i] /\ run[i] = f[i] /\ run[i + 1] = g[i + 1 - m] /\ i + 1 - m = 1
        BY <1>3, <1>4, <2>1, <2>3
      <3>2. run[i + 1] = f[i + 1] BY <1>1, <1>2, <2>3, <3>1 DEF m
      <3>. QED BY <1>1, <3>1, <3>2 DEF IsRun, m
    <2>4. CASE i > m
      <3>1. i - m \in 1 .. n /\ c[i] = b[i - m] /\ run[i] = g[i - m] /\ run[i + 1] = g[i + 1 - m]
            /\ i + 1 - m = (i - m) + 1
        BY <1>3, <1>4, <2>1, <2>4
      <3>. QED BY <1>2, <3>1 DEF IsRun, n
    <2>. QED BY <1>3, <2>2, <2>3, <2>4
  <1>8. IsRun(run, c) BY <1>3, <1>7 DEF IsRun
  <1>9. run[1] = s /\ run[Len(c) + 1] = u /\ IsRun(run, c) BY <1>3, <1>5, <1>6, <1>8
  <1>. QED BY <1>9 DEF Leads, c

LEMMA LeadsOne == ASSUME NEW s, NEW x, NEW t, Moves(s, x, t) PROVE Leads(s, <<x>>, t)
  <1> DEFINE run == [i \in 1 .. 2 |-> IF i = 1 THEN s ELSE t]
             text == <<x>>
  <1>1. Len(text) = 1 /\ text[1] = x OBVIOUS
  <1>2. run[1] = s /\ run[1 + 1] = t OBVIOUS
  <1> HIDE DEF run, text
  <1>3. IsRun(run, text) BY <1>1, <1>2 DEF IsRun
  <1>. QED BY <1>1, <1>2, <1>3 DEF Leads, text

\* The last token of a text makes the last move.
LEMMA LeadsBack ==
  ASSUME NEW S, NEW a \in Seq(S), NEW x \in S, NEW s, NEW u, Leads(s, Append(a, x), u)
  PROVE  \E t : Leads(s, a, t) /\ Moves(t, x, u)
  <1> DEFINE b == Append(a, x)
             n == Len(a)
  <1>1. Len(b) = n + 1 /\ (\A i \in 1 .. n : b[i] = a[i]) /\ b[n + 1] = x /\ n \in Nat
    BY AppendProperties
  <1> HIDE DEF b, n
  <1>2. PICK run : run[1] = s /\ run[Len(b) + 1] = u /\ IsRun(run, b) BY DEF Leads, b
  <1>3. IsRun(run, a) BY <1>1, <1>2 DEF IsRun, n
  <1>4. Leads(s, a, run[n + 1]) BY <1>2, <1>3 DEF Leads, n
  <1>5. Moves(run[n + 1], x, u)
    <2>1. n + 1 \in 1 .. Len(b) /\ Len(b) + 1 = (n + 1) + 1 BY <1>1
    <2>. QED BY <1>1, <1>2, <2>1 DEF IsRun
  <1>. QED BY <1>4, <1>5

-----------------------------------------------------------------------------
(* Reading by moves. *)

LEMMA StackParts ==
  ASSUME NEW f \in Opened, NEW st \in Seq(Opened)
  PROVE  /\ <<f>> \o st \in Seq(Opened) /\ <<f>> \o st # <<>>
         /\ Head(<<f>> \o st) = f /\ Tail(<<f>> \o st) = st
  <1>1. <<f>> \in Seq(Opened) /\ Len(<<f>>) = 1 /\ <<f>>[1] = f OBVIOUS
  <1> DEFINE c == <<f>> \o st
             n == Len(st)
  <1>2. n \in Nat OBVIOUS
  <1>3. c \in Seq(Opened) /\ Len(c) = 1 + n /\ c[1] = f /\ \A i \in 1 .. n : c[i + 1] = st[i]
    <2>1. /\ c \in Seq(Opened) /\ Len(c) = 1 + n
          /\ \A i \in 1 .. 1 + n : c[i] = IF i <= 1 THEN <<f>>[i] ELSE st[i - 1]
      BY <1>1, ConcatProperties
    <2> HIDE DEF c, n
    <2>2. \A i \in 1 .. n : i + 1 \in 1 .. 1 + n /\ ~(i + 1 <= 1) /\ (i + 1) - 1 = i BY <1>2
    <2>3. \A i \in 1 .. n : c[i + 1] = st[i] BY <2>1, <2>2
    <2>4. 1 \in 1 .. 1 + n BY <1>2
    <2>. QED BY <1>1, <2>1, <2>3, <2>4
  <1> HIDE DEF c
  <1>4. c # <<>> /\ Head(c) = f BY <1>2, <1>3
  <1>5. Tail(c) \in Seq(Opened) /\ Len(Tail(c)) = n /\ \A i \in 1 .. n : Tail(c)[i] = st[i]
    BY <1>2, <1>3, <1>4, HeadTailProperties
  <1>6. Tail(c) = st BY <1>5, SeqEqual
  <1>. QED BY <1>3, <1>4, <1>6 DEF c

LEMMA SizedStack ==
  ASSUME NEW st \in Seq(Opened), st # <<>>, NEW n \in Nat
  PROVE  /\ Head(st) \in Opened /\ Tail(st) \in Seq(Opened)
         /\ Sized(st, n) \in Seq(Opened) /\ Sized(st, n) # <<>>
         /\ Head(Sized(st, n)).place = Head(st).place /\ Head(Sized(st, n)).type = Head(st).type
         /\ Head(Sized(st, n)).size = n /\ Tail(Sized(st, n)) = Tail(st)
         /\ \A m : Sized(Sized(st, n), m) = Sized(st, m)
         /\ Sized(st, Head(st).size) = st
  <1> DEFINE f == [place |-> Head(st).place, type |-> Head(st).type, size |-> n]
  <1>1. Head(st) \in Opened /\ Tail(st) \in Seq(Opened) BY HeadTailProperties
  <1>2. f \in Opened /\ f.place = Head(st).place /\ f.type = Head(st).type /\ f.size = n
    BY <1>1 DEF Opened
  <1>3. Sized(st, n) = <<f>> \o Tail(st) BY DEF Sized
  <1> HIDE DEF f
  <1>4. /\ Sized(st, n) \in Seq(Opened) /\ Sized(st, n) # <<>>
        /\ Head(Sized(st, n)) = f /\ Tail(Sized(st, n)) = Tail(st)
    BY <1>1, <1>2, <1>3, StackParts
  <1>5. \A m : Sized(Sized(st, n), m) = Sized(st, m) BY <1>2, <1>4 DEF Sized
  <1>6. Sized(st, Head(st).size) = st
    <2> DEFINE h == Head(st)
    <2>1. [place |-> h.place, type |-> h.type, size |-> h.size] = h BY <1>1 DEF Opened
    <2>2. Sized(st, h.size) = <<h>> \o Tail(st) BY <2>1 DEF Sized
    <2> DEFINE c == <<h>> \o Tail(st)
    <2>3. Head(st) = st[1] /\ Len(Tail(st)) = Len(st) - 1 /\ \A i \in 1 .. Len(Tail(st)) : Tail(st)[i] = st[i + 1]
      BY HeadTailProperties
    <2>4. c \in Seq(Opened) /\ c # <<>> /\ Head(c) = h /\ Tail(c) = Tail(st) BY <1>1, StackParts
    <2> HIDE DEF c, h
    <2>5. Len(Tail(c)) = Len(c) - 1 /\ (\A i \in 1 .. Len(Tail(c)) : Tail(c)[i] = c[i + 1]) /\ Head(c) = c[1]
      BY <2>4, HeadTailProperties
    <2>6. Len(c) = Len(st) /\ Len(c) \in Nat \ {0}
      <3>1. Len(st) \in Nat /\ Len(c) \in Nat \ {0} BY <2>4
      <3>2. Len(c) - 1 = Len(st) - 1 BY <2>3, <2>4, <2>5
      <3>. QED BY <3>1, <3>2
    <2>7. ASSUME NEW i \in 1 .. Len(c) PROVE c[i] = st[i]
      <3>1. CASE i = 1 BY <2>3, <2>4, <2>5, <3>1 DEF h
      <3>2. CASE i # 1
        <4>1. i - 1 \in 1 .. Len(Tail(c)) /\ (i - 1) + 1 = i BY <2>5, <2>6, <3>2
        <4>2. Tail(c)[i - 1] = c[i] /\ Tail(st)[i - 1] = st[i] BY <2>3, <2>4, <2>5, <4>1
        <4>. QED BY <2>4, <4>2
      <3>. QED BY <3>1, <3>2
    <2>8. c = st BY <2>4, <2>6, <2>7, SeqEqual
    <2>. QED BY <2>2, <2>8 DEF c, h
  <1>. QED BY <1>1, <1>2, <1>4, <1>5, <1>6

\* The place of the next element.
LEMMA SpotIsPlace ==
  ASSUME NEW s \in States, Wants(s)
  PROVE  /\ Spot(s) \in Seq(Keys) /\ Head(s.stack).place \in Seq(Keys)
         /\ Head(s.stack) \in Opened /\ Head(s.stack).size \in Nat /\ More(s.stack) \in Seq(Opened)
         /\ \A kind \in Kinds : Holding(s, kind) \subseteq Found
  <1>1. s.stack \in Seq(Opened) /\ s.stack # <<>> /\ s.key \in Names \cup {None} /\ s.tree \subseteq Found
    BY DEF States, Wants
  <1>2. Head(s.stack) \in Opened BY <1>1, SizedStack
  <1>3. Head(s.stack).place \in Seq(Keys) /\ Head(s.stack).size \in Nat BY <1>2 DEF Opened, Keys
  <1>4. PICK k \in Keys : Spot(s) = Append(Head(s.stack).place, k)
    BY <1>1, <1>3 DEF Wants, Spot, Keys
  <1>5. Spot(s) \in Seq(Keys) BY <1>3, <1>4, AppendProperties
  <1>6. More(s.stack) \in Seq(Opened)
    <2>1. Head(s.stack).size + 1 \in Nat BY <1>3
    <2>. QED BY <1>1, <2>1, SizedStack DEF More
  <1>7. \A kind \in Kinds : Holding(s, kind) \subseteq Found
    <2>1. Outside(s.tree, Spot(s)) \subseteq Found BY <1>1, OutsideFound
    <2>2. \A kind \in Kinds : <<Spot(s), kind>> \in Found BY <1>5 DEF Found
    <2>. QED BY <2>1, <2>2 DEF Holding
  <1>. QED BY <1>2, <1>3, <1>5, <1>6, <1>7

\* A text that ends with a value leads to a stack and to elements.
Yields(s, text, st, T) ==
  \E t \in States : /\ Leads(s, text, t) /\ Ends \subseteq t.legal
                   /\ t.stack = st /\ t.key = None /\ t.tree = T

\* A value is read where one is wanted, and what is inside a container that has
\* begun is read there.
ValueRead(v) ==
  \A s \in States : Wants(s) /\ Begins \subseteq s.legal =>
    Yields(s, v.text, More(s.stack), Outside(s.tree, Spot(s)) \cup At(Spot(s), v.tree))

Began(s, kind) ==
  /\ s.stack # <<>> /\ Head(s.stack).type = kind /\ Head(s.stack).size = 0
  /\ s.key = None /\ s.legal = FirstIn(kind) /\ Fresh(s.tree, Head(s.stack).place)

LegalBehind(size, kind, set) == IF size = 0 THEN set = FirstIn(kind) ELSE Ends \subseteq set

InsideRead(l, kind) ==
  \A s \in States : Began(s, kind) =>
    \E t \in States :
      /\ Leads(s, l.text, t)
      /\ t.stack = Sized(s.stack, l.size) /\ t.key = None /\ LegalBehind(l.size, kind, t.legal)
      /\ t.tree = s.tree \cup At(Head(s.stack).place, l.tree)

Texts == Seq(J!Tokens)
Inner == [text : Texts, tree : SUBSET Found, size : Nat]
ReadValues == {v \in [text : Texts, tree : SUBSET Found] : ValueRead(v)}
ReadItems == {l \in Inner : /\ InsideRead(l, "array")
                           /\ \A e \in l.tree : e[1] # <<>> /\ Head(e[1]) \in 0 .. l.size - 1}
ReadMembers == {l \in Inner : InsideRead(l, "object") /\ (\A e \in l.tree : e[1] # <<>>) /\ l.size > 0}

LEMMA TextsJoin ==
  ASSUME NEW a \in Texts, NEW b \in Texts, NEW c \in Texts
  PROVE  a \o b \in Texts /\ (a \o b) \o c = a \o (b \o c)
  <1>1. (a \o b) \o c = a \o (b \o c) BY ConcatAssociative DEF Texts
  <1>. QED BY <1>1, ConcatProperties DEF Texts

LEMMA TokensAre ==
  /\ \A kind \in {"object", "object_end", "array", "array_end", "separator", "colon", "string", "literal"} :
        G!Token(kind) \in J!Tokens /\ G!Token(kind).kind = kind /\ <<G!Token(kind)>> \in Texts
  /\ \A a \in Names : /\ G!Named(a) \in J!Tokens /\ G!Named(a).kind = "name" /\ G!Named(a).name = a
                       /\ <<G!Named(a)>> \in Texts
  <1>1. \A kind \in {"object", "object_end", "array", "array_end", "separator", "colon", "string", "literal"} :
           G!Token(kind) \in J!Tokens /\ G!Token(kind).kind = kind
    BY DEF G!Token, J!Tokens, J!Scalars
  <1>2. \A a \in Names : G!Named(a) \in J!Tokens /\ G!Named(a).kind = "name" /\ G!Named(a).name = a
    BY DEF G!Named, J!Tokens
  <1>3. \A x \in J!Tokens : <<x>> \in Texts BY DEF Texts
  <1>. QED BY <1>1, <1>2, <1>3

LEMMA LegalIs ==
  /\ Begins \subseteq J!AllTypes /\ Ends \subseteq J!AllTypes /\ "eof" \in J!AllTypes /\ "colon" \in J!AllTypes
  /\ \A kind \in {"object", "array"} : FirstIn(kind) \subseteq J!AllTypes /\ "string" \in FirstIn(kind)
  /\ Begins \subseteq FirstIn("array") /\ "array_end" \in FirstIn("array")
  BY DEF Begins, Ends, FirstIn, J!AllTypes, J!Scalars

LEMMA AtOne ==
  ASSUME NEW p \in Seq(Keys), NEW kind PROVE At(p, {<<<<>>, kind>>}) = {<<p, kind>>}
  <1>1. p \o <<>> = p BY ConcatEmptySeq
  <1>. QED BY <1>1 DEF At

LEMMA ScalarsAreRead == G!Scalar \subseteq ReadValues
  <1> SUFFICES ASSUME NEW k \in {"string", "literal"}
               PROVE  [text |-> <<G!Token(k)>>, tree |-> {<<<<>>, k>>}] \in ReadValues
    BY DEF G!Scalar
  <1> DEFINE x == G!Token(k)
             v == [text |-> <<x>>, tree |-> {<<<<>>, k>>}]
  <1>1. x \in J!Tokens /\ x.kind = k /\ <<x>> \in Texts BY TokensAre
  <1>2. <<<<>>, k>> \in Found
    <2>1. <<>> \in Seq(Keys) /\ k \in Kinds BY DEF Kinds
    <2>. QED BY <2>1 DEF Found
  <1>3. v \in [text : Texts, tree : SUBSET Found] BY <1>1, <1>2
  <1> HIDE DEF x
  <1>4. ASSUME NEW s \in States, Wants(s), Begins \subseteq s.legal
        PROVE  Yields(s, <<x>>, More(s.stack), Outside(s.tree, Spot(s)) \cup At(Spot(s), {<<<<>>, k>>}))
    <2> DEFINE known == Ends \cup IF k = "string" THEN {"colon"} ELSE {}
               t == [legal |-> known, stack |-> More(s.stack), key |-> None, tree |-> Holding(s, k)]
    <2>1. k \in s.legal /\ k \in Kinds BY <1>4 DEF Begins, Kinds
    <2>2. More(s.stack) \in Seq(Opened) /\ Holding(s, k) \subseteq Found /\ Spot(s) \in Seq(Keys)
      BY <1>4, <2>1, SpotIsPlace
    <2>3. known \subseteq J!AllTypes /\ Ends \subseteq known BY LegalIs
    <2>4. Moves(s, x, t) BY <1>1, <1>4, <2>1 DEF Moves, MovesScalar
    <2>5. At(Spot(s), {<<<<>>, k>>}) = {<<Spot(s), k>>} BY <2>2, AtOne
    <2> HIDE DEF known
    <2>6. t \in States BY <2>2, <2>3 DEF States
    <2>7. t.legal = known /\ t.stack = More(s.stack) /\ t.key = None /\ t.tree = Holding(s, k)
      OBVIOUS
    <2> HIDE DEF t
    <2>8. Leads(s, <<x>>, t) BY <2>4, LeadsOne
    <2>. QED BY <2>3, <2>5, <2>6, <2>7, <2>8 DEF Holding, Yields
  <1>5. ValueRead(v) BY <1>4 DEF ValueRead
  <1>. QED BY <1>3, <1>5 DEF ReadValues, x

LEMMA NothingIsRead ==
  ASSUME NEW kind \in {"object", "array"}
  PROVE  G!Nothing \in Inner /\ InsideRead(G!Nothing, kind) /\ G!Nothing.tree = {} /\ G!Nothing.size = 0
  <1>1. G!Nothing \in Inner /\ G!Nothing.text = <<>> /\ G!Nothing.tree = {} /\ G!Nothing.size = 0
    BY DEF G!Nothing, Inner, Texts
  <1>2. ASSUME NEW s \in States, Began(s, kind)
        PROVE  /\ Leads(s, <<>>, s) /\ s.stack = Sized(s.stack, 0) /\ s.key = None
               /\ LegalBehind(0, kind, s.legal) /\ s.tree = s.tree \cup At(Head(s.stack).place, {})
    <2>1. s.stack \in Seq(Opened) /\ s.stack # <<>> /\ Head(s.stack).size = 0 /\ s.key = None
          /\ s.legal = FirstIn(kind)
      BY <1>2 DEF States, Began
    <2>2. Leads(s, <<>>, s) BY LeadsNowhere
    <2>3. s.stack = Sized(s.stack, 0) BY <2>1, SizedStack
    <2>4. At(Head(s.stack).place, {}) = {} BY DEF At
    <2>. QED BY <2>1, <2>2, <2>3, <2>4 DEF LegalBehind
  <1>3. InsideRead(G!Nothing, kind) BY <1>1, <1>2 DEF InsideRead
  <1>. QED BY <1>1, <1>3

\* What is inside a container that has begun, and its end.
LEMMA InsideAndEnd ==
  ASSUME NEW kind \in {"object", "array"}, NEW end \in {"object_end", "array_end"},
         kind = IF end = "object_end" THEN "object" ELSE "array",
         NEW l \in Inner, InsideRead(l, kind), kind = "object" => l.size > 0,
         NEW s \in States, Began(s, kind)
  PROVE  /\ <<G!Token(end)>> \in Texts /\ l.text \o <<G!Token(end)>> \in Texts
         /\ Yields(s, l.text \o <<G!Token(end)>>, Tail(s.stack),
                   s.tree \cup At(Head(s.stack).place, l.tree))
  <1> DEFINE y == G!Token(end)
  <1>1. y \in J!Tokens /\ y.kind = end /\ <<y>> \in Texts BY TokensAre
  <1>2. l.text \in Texts /\ l.tree \subseteq Found /\ l.size \in Nat BY DEF Inner
  <1> HIDE DEF y
  <1>3. s.stack \in Seq(Opened) /\ s.stack # <<>> /\ Head(s.stack).type = kind BY DEF States, Began
  <1>4. PICK m \in States :
           /\ Leads(s, l.text, m)
           /\ m.stack = Sized(s.stack, l.size) /\ m.key = None /\ LegalBehind(l.size, kind, m.legal)
           /\ m.tree = s.tree \cup At(Head(s.stack).place, l.tree)
    BY DEF InsideRead
  <1>5. /\ m.stack \in Seq(Opened) /\ m.stack # <<>> /\ Head(m.stack).type = kind
        /\ Tail(m.stack) = Tail(s.stack) /\ Tail(s.stack) \in Seq(Opened)
    BY <1>2, <1>3, <1>4, SizedStack
  <1>6. end \in m.legal
    <2>1. CASE l.size = 0
      <3>1. m.legal = FirstIn("array") /\ end = "array_end" BY <1>4, <2>1 DEF LegalBehind
      <3>. QED BY <3>1, LegalIs
    <2>2. CASE l.size # 0 BY <1>4, <2>2 DEF LegalBehind, Ends
    <2>. QED BY <2>1, <2>2
  <1> DEFINE t == [legal |-> {"eof"} \cup Ends, stack |-> Tail(m.stack), key |-> m.key, tree |-> m.tree]
  <1>7. Moves(m, y, t) BY <1>1, <1>5, <1>6 DEF Moves, MovesOut
  <1>8. t \in States BY <1>5, LegalIs DEF States
  <1>9. Ends \subseteq t.legal /\ t.stack = Tail(s.stack) /\ t.key = None /\ t.tree = m.tree
    BY <1>4, <1>5
  <1> HIDE DEF t
  <1>10. Leads(m, <<y>>, t) BY <1>7, LeadsOne
  <1>11. Leads(s, l.text \o <<y>>, t) BY <1>1, <1>2, <1>4, <1>10, LeadsOn DEF Texts
  <1>12. l.text \o <<y>> \in Texts BY <1>1, <1>2, ConcatProperties DEF Texts
  <1>. QED BY <1>1, <1>4, <1>8, <1>9, <1>11, <1>12 DEF Yields, y

\* A container: it is put where the value is wanted, and its inside is read there.
LEMMA WrapIsRead ==
  ASSUME NEW kind \in {"object", "array"}, NEW end \in {"object_end", "array_end"},
         kind = IF end = "object_end" THEN "object" ELSE "array",
         NEW l \in Inner, InsideRead(l, kind), kind = "object" => l.size > 0
  PROVE  G!Wrap(kind, l, end) \in ReadValues
  <1> DEFINE x == G!Token(kind)
             y == G!Token(end)
             w == G!Wrap(kind, l, end)
  <1>1. x.kind = kind /\ <<x>> \in Texts /\ <<y>> \in Texts BY TokensAre
  <1>2. l.text \in Texts /\ l.tree \subseteq Found BY DEF Inner
  <1>3. w.text = <<x>> \o l.text \o <<y>> /\ w.tree = {<<<<>>, kind>>} \cup l.tree
        /\ w = [text |-> w.text, tree |-> w.tree]
    BY DEF G!Wrap
  <1> HIDE DEF x, y, w
  <1>4. w.text = <<x>> \o (l.text \o <<y>>) /\ l.text \o <<y>> \in Texts
    <2>1. (<<x>> \o l.text) \o <<y>> = <<x>> \o (l.text \o <<y>>)
      BY <1>1, <1>2, TextsJoin, Zenon
    <2>2. l.text \o <<y>> \in Texts BY <1>1, <1>2, ConcatProperties DEF Texts
    <2>. QED BY <1>3, <2>1, <2>2
  <1>5. w.text \in Texts BY <1>1, <1>4, ConcatProperties DEF Texts
  <1>6. w.tree \subseteq Found
    <2>1. <<>> \in Seq(Keys) /\ kind \in Kinds BY DEF Kinds
    <2>2. <<<<>>, kind>> \in Found BY <2>1 DEF Found
    <2>. QED BY <1>2, <1>3, <2>2
  <1>7. w \in [text : Texts, tree : SUBSET Found] BY <1>3, <1>5, <1>6
  <1>8. ASSUME NEW s \in States, Wants(s), Begins \subseteq s.legal
        PROVE  Yields(s, w.text, More(s.stack), Outside(s.tree, Spot(s)) \cup At(Spot(s), w.tree))
    <2> DEFINE f == [place |-> Spot(s), type |-> kind, size |-> 0]
               rest == More(s.stack)
               held == Holding(s, kind)
               in == [legal |-> FirstIn(kind), stack |-> <<f>> \o rest, key |-> None, tree |-> held]
    <2>1. /\ Spot(s) \in Seq(Keys) /\ rest \in Seq(Opened) /\ held \subseteq Found
      BY <1>8, SpotIsPlace DEF Kinds
    <2>2. kind \in s.legal BY <1>8 DEF Begins
    <2>3. f \in Opened /\ f.place = Spot(s) /\ f.type = kind /\ f.size = 0
      BY <2>1 DEF Opened, Keys
    <2>4. Moves(s, x, in) BY <1>1, <1>8, <2>2 DEF Moves, MovesIn
    <2>5. Fresh(held, Spot(s)) BY DEF Fresh, Holding, Outside
    <2> HIDE DEF f, rest, held
    <2>6. /\ <<f>> \o rest \in Seq(Opened) /\ <<f>> \o rest # <<>>
          /\ Head(<<f>> \o rest) = f /\ Tail(<<f>> \o rest) = rest
      BY <2>1, <2>3, StackParts
    <2>7. in \in States BY <2>1, <2>6, LegalIs DEF States
    <2>8. in.legal = FirstIn(kind) /\ in.stack = <<f>> \o rest /\ in.key = None /\ in.tree = held OBVIOUS
    <2> HIDE DEF in
    <2>9. Began(in, kind) BY <2>3, <2>5, <2>6, <2>8 DEF Began
    <2>10. Yields(in, l.text \o <<y>>, Tail(in.stack), in.tree \cup At(Head(in.stack).place, l.tree))
      BY <2>7, <2>9, InsideAndEnd DEF y
    <2>11. Tail(in.stack) = rest /\ Head(in.stack).place = Spot(s) BY <2>3, <2>6, <2>8
    <2>12. PICK t \in States :
              /\ Leads(in, l.text \o <<y>>, t) /\ Ends \subseteq t.legal
              /\ t.stack = rest /\ t.key = None /\ t.tree = in.tree \cup At(Spot(s), l.tree)
      BY <2>10, <2>11 DEF Yields
    <2>13. Leads(s, w.text, t)
      <3>1. Leads(s, <<x>>, in) BY <2>4, LeadsOne
      <3>2. Leads(s, <<x>> \o (l.text \o <<y>>), t) BY <1>1, <1>4, <2>12, <3>1, LeadsOn DEF Texts
      <3>. QED BY <1>4, <3>2, Zenon
    <2>14. t.tree = Outside(s.tree, Spot(s)) \cup At(Spot(s), w.tree)
      <3>1. At(Spot(s), w.tree) = {<<Spot(s), kind>>} \cup At(Spot(s), l.tree)
        <4>1. At(Spot(s), {<<<<>>, kind>>}) = {<<Spot(s), kind>>} BY <2>1, AtOne
        <4>. QED BY <1>3, <4>1, AtUnion
      <3>2. in.tree = Outside(s.tree, Spot(s)) \cup {<<Spot(s), kind>>} BY <2>8 DEF Holding, held
      <3>. QED BY <2>12, <3>1, <3>2
    <2>. QED BY <2>12, <2>13, <2>14 DEF rest, Yields
  <1>9. ValueRead(w) BY <1>8 DEF ValueRead
  <1>. QED BY <1>7, <1>9 DEF ReadValues, w

\* The separator between two elements, if there is one before.
LEMMA SeparatorIsRead ==
  ASSUME NEW m \in States, NEW n \in Nat, NEW kind \in {"object", "array"}, LegalBehind(n, kind, m.legal)
  PROVE  /\ (IF n = 0 THEN <<>> ELSE <<G!Token("separator")>>) \in Texts
         /\ \E t \in States :
              /\ Leads(m, IF n = 0 THEN <<>> ELSE <<G!Token("separator")>>, t)
              /\ t.stack = m.stack /\ t.key = m.key /\ t.tree = m.tree
              /\ "string" \in t.legal /\ (kind = "array" => Begins \subseteq t.legal)
  <1> DEFINE x == G!Token("separator")
  <1>1. x.kind = "separator" /\ <<x>> \in Texts BY TokensAre
  <1>2. <<>> \in Texts BY DEF Texts
  <1> HIDE DEF x
  <1>3. CASE n = 0
    <2>1. m.legal = FirstIn(kind) BY <1>3 DEF LegalBehind
    <2>2. "string" \in m.legal /\ (kind = "array" => Begins \subseteq m.legal) BY <2>1, LegalIs
    <2>3. Leads(m, <<>>, m) BY LeadsNowhere
    <2>. QED BY <1>2, <1>3, <2>2, <2>3
  <1>4. CASE n # 0
    <2> DEFINE known == BehindMark("separator")
               t == [legal |-> known, stack |-> m.stack, key |-> m.key, tree |-> m.tree]
    <2>1. "separator" \in m.legal BY <1>4 DEF LegalBehind, Ends
    <2>3. t.legal = known /\ t.stack = m.stack /\ t.key = m.key /\ t.tree = m.tree OBVIOUS
    <2>4. "string" \in known /\ Begins \subseteq known BY DEF Begins, BehindMark, J!AllTypes, J!Scalars
    <2>5. Moves(m, x, t) BY <1>1, <2>1 DEF Moves, MovesOn
    <2>6. Leads(m, <<x>>, t) BY <2>5, LeadsOne
    <2>7. t \in States BY DEF States, BehindMark
    <2> HIDE DEF t, known
    <2>. QED BY <1>1, <1>4, <2>3, <2>4, <2>6, <2>7 DEF x
  <1>. QED BY <1>3, <1>4

LEMMA UnderIs ==
  ASSUME NEW k \in Keys, NEW T \in SUBSET Found
  PROVE  G!Under(k, T) \subseteq Found /\ \A e \in G!Under(k, T) : e[1] # <<>> /\ Head(e[1]) = k
  <1>1. ASSUME NEW q \in Seq(Keys)
        PROVE  <<k>> \o q \in Seq(Keys) /\ <<k>> \o q # <<>> /\ Head(<<k>> \o q) = k
    <2> DEFINE c == <<k>> \o q
    <2>1. <<k>> \in Seq(Keys) /\ Len(<<k>>) = 1 /\ <<k>>[1] = k OBVIOUS
    <2>2. c \in Seq(Keys) /\ Len(c) = 1 + Len(q) /\ \A i \in 1 .. 1 + Len(q) : c[i] = IF i <= 1 THEN <<k>>[i] ELSE q[i - 1]
      BY <2>1, ConcatProperties
    <2>3. Len(q) \in Nat /\ 1 \in 1 .. 1 + Len(q) OBVIOUS
    <2> HIDE DEF c
    <2>4. c[1] = k BY <2>1, <2>2, <2>3
    <2>5. c # <<>> /\ Head(c) = c[1] BY <2>2, <2>3
    <2>. QED BY <2>2, <2>4, <2>5 DEF c
  <1>2. \A e \in T : e[1] \in Seq(Keys) /\ e[2] \in Kinds BY DEF Found
  <1>3. \A e \in G!Under(k, T) : \E q \in Seq(Keys), d \in Kinds : e = <<<<k>> \o q, d>>
    BY <1>2 DEF G!Under
  <1>4. ASSUME NEW e \in G!Under(k, T) PROVE e \in Found /\ e[1] # <<>> /\ Head(e[1]) = k
    <2>1. PICK q \in Seq(Keys), d \in Kinds : e = <<<<k>> \o q, d>> BY <1>3
    <2> DEFINE c == <<k>> \o q
    <2>2. c \in Seq(Keys) /\ c # <<>> /\ Head(c) = k BY <1>1
    <2>3. e = <<c, d>> BY <2>1
    <2> HIDE DEF c
    <2>. QED BY <2>2, <2>3 DEF Found
  <1>. QED BY <1>4

\* A value that is the next element of a container, behind those before.
LEMMA ElementIsRead ==
  ASSUME NEW s \in States, NEW u \in States, s.stack # <<>>, Fresh(s.tree, Head(s.stack).place),
         NEW n \in Nat, NEW before \in SUBSET Found, \A e \in before : e[1] # <<>>,
         u.stack = Sized(s.stack, n), u.tree = s.tree \cup At(Head(s.stack).place, before),
         NEW k \in Keys, Wants(u), Spot(u) = Append(Head(s.stack).place, k),
         Begins \subseteq u.legal, NEW v \in ReadValues
  PROVE  Yields(u, v.text, Sized(s.stack, n + 1),
                s.tree \cup At(Head(s.stack).place, G!Elsewhere(k, before) \cup G!Under(k, v.tree)))
  <1> DEFINE p == Head(s.stack).place
             c == Append(p, k)
  <1>1. s.stack \in Seq(Opened) /\ s.stack # <<>> /\ s.tree \subseteq Found /\ Fresh(s.tree, p)
    BY DEF States
  <1>2. p \in Seq(Keys)
    <2>1. Head(s.stack) \in Opened BY <1>1, SizedStack
    <2>. QED BY <2>1 DEF Opened, Keys
  <1>3. v.tree \subseteq Found /\ ValueRead(v) BY DEF ReadValues
  <1>4. PICK t \in States :
           /\ Leads(u, v.text, t)
           /\ Ends \subseteq t.legal /\ t.stack = More(u.stack) /\ t.key = None
           /\ t.tree = Outside(u.tree, Spot(u)) \cup At(Spot(u), v.tree)
    BY <1>3 DEF ValueRead, Yields
  <1>5. More(u.stack) = Sized(s.stack, n + 1)
    <2>1. Head(Sized(s.stack, n)).size = n /\ Sized(Sized(s.stack, n), n + 1) = Sized(s.stack, n + 1)
      BY <1>1, SizedStack
    <2>. QED BY <2>1 DEF More
  <1> HIDE DEF p
  <1>6. Outside(s.tree, c) = s.tree BY <1>1, <1>2, OutsideFresh
  <1>7. Outside(At(p, before), c) = At(p, G!Elsewhere(k, before)) BY <1>2, OutsideInside
  <1>8. At(c, v.tree) = At(p, G!Under(k, v.tree)) BY <1>2, <1>3, AtUnder
  <1>9. At(p, G!Elsewhere(k, before) \cup G!Under(k, v.tree))
          = At(p, G!Elsewhere(k, before)) \cup At(p, G!Under(k, v.tree))
    BY AtUnion
  <1>10. u.tree = s.tree \cup At(p, before) /\ Spot(u) = c BY DEF p
  <1>11. Outside(u.tree, c) = s.tree \cup At(p, G!Elsewhere(k, before)) BY <1>6, <1>7, <1>10, OutsideUnion
  <1>12. t.tree = s.tree \cup At(p, G!Elsewhere(k, before) \cup G!Under(k, v.tree))
    <2> HIDE DEF c
    <2>. QED BY <1>4, <1>8, <1>9, <1>10, <1>11
  <1>. QED BY <1>4, <1>5, <1>12 DEF p, Yields

LEMMA ItemIsRead == ASSUME NEW l \in ReadItems, NEW v \in ReadValues PROVE G!Item(l, v) \in ReadItems
  <1> DEFINE sep == IF l.size = 0 THEN <<>> ELSE <<G!Token("separator")>>
             w == G!Item(l, v)
             k == l.size
  <1>1. /\ l.text \in Texts /\ l.tree \subseteq Found /\ k \in Nat /\ k \in Keys /\ InsideRead(l, "array")
        /\ \A e \in l.tree : e[1] # <<>> /\ Head(e[1]) \in 0 .. k - 1
        /\ v.text \in Texts /\ v.tree \subseteq Found
    BY DEF ReadItems, ReadValues, Inner, Keys
  <1>2. /\ w.text = l.text \o sep \o v.text /\ w.tree = l.tree \cup G!Under(k, v.tree) /\ w.size = k + 1
        /\ w = [text |-> w.text, tree |-> w.tree, size |-> w.size]
    BY DEF G!Item
  <1> HIDE DEF w
  <1>3. sep \in Texts
    <2>1. <<>> \in Texts BY DEF Texts
    <2>. QED BY <2>1, TokensAre
  <1> HIDE DEF sep
  <1>4. l.text \o sep \in Texts BY <1>1, <1>3, ConcatProperties DEF Texts
  <1>5. w.text \in Texts BY <1>1, <1>2, <1>4, ConcatProperties DEF Texts
  <1>6. w.tree \subseteq Found /\ \A e \in w.tree : e[1] # <<>> /\ Head(e[1]) \in 0 .. w.size - 1
    <2>1. \A e \in G!Under(k, v.tree) : e \in Found /\ e[1] # <<>> /\ Head(e[1]) = k BY <1>1, UnderIs
    <2>2. \A i \in 0 .. k - 1 : i \in 0 .. (k + 1) - 1 BY <1>1
    <2>3. k \in 0 .. (k + 1) - 1 BY <1>1
    <2> HIDE DEF k
    <2>. QED BY <1>1, <1>2, <2>1, <2>2, <2>3
  <1>7. w \in Inner
    <2>1. [text |-> w.text, tree |-> w.tree, size |-> w.size] \in Inner
      <3>1. w.size \in Nat BY <1>1, <1>2
      <3>. QED BY <1>5, <1>6, <3>1 DEF Inner
    <2>. QED BY <1>2, <2>1, Zenon
  <1>8. G!Elsewhere(k, l.tree) = l.tree
    <2>1. \A e \in l.tree : Head(e[1]) # k BY <1>1
    <2>. QED BY <2>1, ElsewhereAll
  <1>9. ASSUME NEW s \in States, Began(s, "array")
        PROVE  \E t \in States :
                 /\ Leads(s, w.text, t)
                 /\ t.stack = Sized(s.stack, w.size) /\ t.key = None /\ LegalBehind(w.size, "array", t.legal)
                 /\ t.tree = s.tree \cup At(Head(s.stack).place, w.tree)
    <2>1. s.stack \in Seq(Opened) /\ s.stack # <<>> /\ Head(s.stack).type = "array" BY <1>9 DEF States, Began
    <2>2. PICK m \in States :
             /\ Leads(s, l.text, m)
             /\ m.stack = Sized(s.stack, k) /\ m.key = None /\ LegalBehind(k, "array", m.legal)
             /\ m.tree = s.tree \cup At(Head(s.stack).place, l.tree)
      BY <1>1, <1>9 DEF InsideRead
    <2>3. PICK u \in States :
             /\ Leads(m, sep, u)
             /\ u.stack = m.stack /\ u.key = m.key /\ u.tree = m.tree /\ Begins \subseteq u.legal
      BY <1>1, <2>2, SeparatorIsRead DEF sep
    <2>4. /\ u.stack # <<>> /\ Head(u.stack).place = Head(s.stack).place
          /\ Head(u.stack).type = "array" /\ Head(u.stack).size = k
      BY <1>1, <2>1, <2>2, <2>3, SizedStack
    <2>5. Wants(u) /\ Spot(u) = Append(Head(s.stack).place, k)
      BY <2>2, <2>3, <2>4 DEF Wants, Spot
    <2>6. PICK t \in States :
             /\ Leads(u, v.text, t)
             /\ Ends \subseteq t.legal /\ t.stack = Sized(s.stack, k + 1) /\ t.key = None
             /\ t.tree = s.tree \cup At(Head(s.stack).place, G!Elsewhere(k, l.tree) \cup G!Under(k, v.tree))
      <3>1. u.stack = Sized(s.stack, k) /\ u.tree = s.tree \cup At(Head(s.stack).place, l.tree)
        BY <2>2, <2>3
      <3>2. \A e \in l.tree : e[1] # <<>> BY <1>1
      <3>3. l.tree \in SUBSET Found /\ k \in Nat /\ k \in Keys BY <1>1
      <3>4. Fresh(s.tree, Head(s.stack).place) BY <1>9 DEF Began
      <3>5. Yields(u, v.text, Sized(s.stack, k + 1),
                   s.tree \cup At(Head(s.stack).place, G!Elsewhere(k, l.tree) \cup G!Under(k, v.tree)))
        <4> HIDE DEF k
        <4>. QED BY <2>1, <2>3, <2>5, <3>1, <3>2, <3>3, <3>4, ElementIsRead
      <3>. QED BY <3>5 DEF Yields
    <2>7. Leads(s, l.text \o sep, u) BY <1>1, <1>3, <2>2, <2>3, LeadsOn DEF Texts
    <2>8. Leads(s, w.text, t)
      <3>1. Leads(s, (l.text \o sep) \o v.text, t) BY <1>1, <1>4, <2>6, <2>7, LeadsOn DEF Texts
      <3>. QED BY <1>2, <3>1, Zenon
    <2>9. LegalBehind(w.size, "array", t.legal)
      <3>1. w.size # 0 BY <1>1, <1>2
      <3>. QED BY <2>6, <3>1 DEF LegalBehind
    <2>. QED BY <1>2, <1>8, <2>6, <2>8, <2>9
  <1>10. InsideRead(w, "array") BY <1>9 DEF InsideRead
  <1>. QED BY <1>6, <1>7, <1>10 DEF ReadItems, w

\* A name and its colon, where a name is wanted.
LEMMA NameIsRead ==
  ASSUME NEW u \in States, NEW a \in Names, "string" \in u.legal, u.key = None,
         u.stack # <<>>, Head(u.stack).type = "object"
  PROVE  \E t \in States :
           /\ Leads(u, <<G!Named(a), G!Token("colon")>>, t) /\ Begins \subseteq t.legal
           /\ t.stack = u.stack /\ t.tree = u.tree
           /\ Wants(t) /\ Spot(t) = Append(Head(u.stack).place, a)
  <1> DEFINE x == G!Named(a)
             y == G!Token("colon")
             m == [legal |-> {"colon"} \cup Ends, stack |-> u.stack, key |-> a, tree |-> u.tree]
             t == [legal |-> BehindMark("colon"), stack |-> m.stack, key |-> m.key, tree |-> m.tree]
  <1>1. /\ x.kind = "name" /\ x.name = a /\ <<x>> \in Texts /\ x \in J!Tokens
        /\ y.kind = "colon" /\ <<y>> \in Texts /\ y \in J!Tokens
    BY TokensAre
  <1> HIDE DEF x, y
  <1>2. m \in States /\ t \in States BY LegalIs DEF States, BehindMark
  <1>3. Moves(u, x, m) BY <1>1 DEF Moves, MovesName
  <1>4. Moves(m, y, t) BY <1>1 DEF Moves, MovesOn
  <1>5. Begins \subseteq t.legal BY DEF Begins, BehindMark, J!AllTypes, J!Scalars
  <1>6. t.stack = u.stack /\ t.tree = u.tree /\ t.key = a OBVIOUS
  <1> HIDE DEF m, t
  <1>7. Leads(u, <<x>> \o <<y>>, t)
    <2>1. Leads(u, <<x>>, m) /\ Leads(m, <<y>>, t) BY <1>3, <1>4, LeadsOne
    <2>. QED BY <1>1, <2>1, LeadsOn DEF Texts
  <1>8. <<x>> \o <<y>> = <<x, y>>
    <2> DEFINE c == <<x>> \o <<y>>
               d == <<x, y>>
    <2>1. c \in Texts /\ Len(c) = 2 /\ c[1] = x /\ c[2] = y BY <1>1, ConcatProperties DEF Texts
    <2>2. d \in Texts /\ Len(d) = 2 /\ d[1] = x /\ d[2] = y BY <1>1 DEF Texts
    <2> HIDE DEF c, d
    <2>3. \A i \in 1 .. 2 : c[i] = d[i]
      <3>1. \A i \in 1 .. 2 : i = 1 \/ i = 2 OBVIOUS
      <3>. QED BY <2>1, <2>2, <3>1
    <2>4. c = d BY <2>1, <2>2, <2>3, SeqEqual DEF Texts
    <2>. QED BY <2>4 DEF c, d
  <1>9. a # None BY LocalAssumption
  <1>10. Wants(t) /\ Spot(t) = Append(Head(u.stack).place, a) BY <1>6, <1>9 DEF Wants, Spot
  <1>. QED BY <1>2, <1>5, <1>6, <1>7, <1>8, <1>10 DEF x, y

LEMMA MemberIsRead ==
  ASSUME NEW l \in ReadMembers \cup {G!Nothing}, NEW a \in Names, NEW v \in ReadValues
  PROVE  G!Member(l, a, v) \in ReadMembers
  <1> DEFINE sep == IF l.size = 0 THEN <<>> ELSE <<G!Token("separator")>>
             named == <<G!Named(a), G!Token("colon")>>
             w == G!Member(l, a, v)
             n == l.size
  <1>1. /\ l.text \in Texts /\ l.tree \subseteq Found /\ n \in Nat /\ InsideRead(l, "object")
        /\ \A e \in l.tree : e[1] # <<>>
    <2>1. CASE l \in ReadMembers BY <2>1 DEF ReadMembers, Inner
    <2>2. CASE l = G!Nothing BY <2>2, NothingIsRead DEF Inner
    <2>. QED BY <2>1, <2>2
  <1>2. v.text \in Texts /\ v.tree \subseteq Found /\ a \in Keys BY DEF ReadValues, Keys
  <1>3. /\ w.text = l.text \o sep \o named \o v.text /\ w.tree = G!Elsewhere(a, l.tree) \cup G!Under(a, v.tree)
        /\ w.size = n + 1 /\ w = [text |-> w.text, tree |-> w.tree, size |-> w.size]
    BY DEF G!Member
  <1> HIDE DEF w
  <1>4. sep \in Texts /\ named \in Texts
    <2>1. <<>> \in Texts BY DEF Texts
    <2>2. named \in Texts BY TokensAre DEF Texts
    <2>. QED BY <2>1, <2>2, TokensAre
  <1> HIDE DEF sep, named
  <1>5. l.text \o sep \in Texts BY <1>1, <1>4, ConcatProperties DEF Texts
  <1>6. l.text \o sep \o named \in Texts BY <1>4, <1>5, ConcatProperties DEF Texts
  <1>7. w.text \in Texts BY <1>2, <1>3, <1>6, ConcatProperties DEF Texts
  <1>8. w.tree \subseteq Found /\ \A e \in w.tree : e[1] # <<>>
    <2>1. \A e \in G!Under(a, v.tree) : e \in Found /\ e[1] # <<>> BY <1>2, UnderIs
    <2>2. G!Elsewhere(a, l.tree) \subseteq l.tree BY DEF G!Elsewhere
    <2>. QED BY <1>1, <1>3, <2>1, <2>2
  <1>9. w.size \in Nat /\ w.size > 0 BY <1>1, <1>3
  <1>10. w \in Inner
    <2>1. [text |-> w.text, tree |-> w.tree, size |-> w.size] \in Inner BY <1>7, <1>8, <1>9 DEF Inner
    <2>. QED BY <1>3, <2>1, Zenon
  <1>11. ASSUME NEW s \in States, Began(s, "object")
         PROVE  \E t \in States :
                  /\ Leads(s, w.text, t)
                  /\ t.stack = Sized(s.stack, w.size) /\ t.key = None /\ LegalBehind(w.size, "object", t.legal)
                  /\ t.tree = s.tree \cup At(Head(s.stack).place, w.tree)
    <2>1. s.stack \in Seq(Opened) /\ s.stack # <<>> /\ Head(s.stack).type = "object"
          /\ Fresh(s.tree, Head(s.stack).place)
      BY <1>11 DEF States, Began
    <2>2. PICK m \in States :
             /\ Leads(s, l.text, m)
             /\ m.stack = Sized(s.stack, n) /\ m.key = None /\ LegalBehind(n, "object", m.legal)
             /\ m.tree = s.tree \cup At(Head(s.stack).place, l.tree)
      BY <1>1, <1>11 DEF InsideRead
    <2>3. PICK o \in States :
             /\ Leads(m, sep, o)
             /\ o.stack = m.stack /\ o.key = m.key /\ o.tree = m.tree /\ "string" \in o.legal
      BY <1>1, <2>2, SeparatorIsRead DEF sep
    <2>4. o.stack # <<>> /\ Head(o.stack).place = Head(s.stack).place /\ Head(o.stack).type = "object"
      BY <1>1, <2>1, <2>2, <2>3, SizedStack
    <2>5. PICK u \in States :
             /\ Leads(o, named, u) /\ Begins \subseteq u.legal
             /\ u.stack = o.stack /\ u.tree = o.tree
             /\ Wants(u) /\ Spot(u) = Append(Head(o.stack).place, a)
      BY <2>2, <2>3, <2>4, NameIsRead DEF named
    <2>6. u.stack = Sized(s.stack, n) /\ u.tree = s.tree \cup At(Head(s.stack).place, l.tree)
          /\ Spot(u) = Append(Head(s.stack).place, a)
      BY <2>2, <2>3, <2>4, <2>5
    <2>7. Yields(u, v.text, Sized(s.stack, n + 1),
                 s.tree \cup At(Head(s.stack).place, G!Elsewhere(a, l.tree) \cup G!Under(a, v.tree)))
      <3>1. l.tree \in SUBSET Found BY <1>1
      <3> HIDE DEF n
      <3>. QED BY <1>1, <1>2, <2>1, <2>5, <2>6, <3>1, ElementIsRead
    <2>8. PICK t \in States :
             /\ Leads(u, v.text, t) /\ Ends \subseteq t.legal /\ t.stack = Sized(s.stack, n + 1) /\ t.key = None
             /\ t.tree = s.tree \cup At(Head(s.stack).place, G!Elsewhere(a, l.tree) \cup G!Under(a, v.tree))
      BY <2>7 DEF Yields
    <2>9. Leads(s, l.text \o sep, o) BY <1>1, <1>4, <2>2, <2>3, LeadsOn DEF Texts
    <2>10. Leads(s, l.text \o sep \o named, u) BY <1>4, <1>5, <2>5, <2>9, LeadsOn DEF Texts
    <2>11. Leads(s, w.text, t)
      <3>1. Leads(s, (l.text \o sep \o named) \o v.text, t) BY <1>2, <1>6, <2>8, <2>10, LeadsOn DEF Texts
      <3>. QED BY <1>3, <3>1, Zenon
    <2>12. LegalBehind(w.size, "object", t.legal)
      <3>1. w.size # 0 BY <1>9
      <3>. QED BY <2>8, <3>1 DEF LegalBehind
    <2>. QED BY <1>3, <2>8, <2>11, <2>12
  <1>12. InsideRead(w, "object") BY <1>11 DEF InsideRead
  <1>. QED BY <1>8, <1>9, <1>10, <1>12 DEF ReadMembers, w

\* What is read follows the rules of the grammar, so each document is a container
\* whose inside is read.
LEMMA GrammarIsRead == Rules(ReadValues, ReadItems, ReadMembers)
  <1>1. ASSUME NEW l \in ReadItems PROVE G!Wrap("array", l, "array_end") \in ReadValues
    BY WrapIsRead DEF ReadItems
  <1>2. ASSUME NEW l \in ReadMembers PROVE G!Wrap("object", l, "object_end") \in ReadValues
    BY WrapIsRead DEF ReadMembers
  <1>3. G!Nothing \in ReadItems BY NothingIsRead DEF ReadItems
  <1>. QED BY <1>1, <1>2, <1>3, ScalarsAreRead, ItemIsRead, MemberIsRead DEF Rules

-----------------------------------------------------------------------------
(* JsonReader: what it builds of a document. *)

\* The reader when the outermost container of a document has begun.
Rooted(kind) ==
  [legal |-> FirstIn(kind), stack |-> <<[place |-> <<>>, type |-> kind, size |-> 0]>>,
   key |-> None, tree |-> {<<<<>>, kind>>}]

\* What moves lead to is what the reader has come to, whichever moves they are.
Tracks ==
  \A kind \in {"object", "array"}, text \in Texts : \A t :
    doc = <<G!Token(kind)>> \o text /\ Leads(Rooted(kind), text, t) => State = t /\ started /\ ~error

\* The inductive invariant of the reader's result.
WellRead ==
  /\ StackSound /\ Tracks
  /\ doc = <<>> => /\ ~started /\ ~error /\ key = None
                  /\ stack = <<[place |-> <<>>, type |-> "object", size |-> 0]>>

LEMMA GrownIsMore ==
  ASSUME stack \in Seq(Opened), stack # <<>>
  PROVE  J!Grown = More(stack) /\ J!Top = Head(stack)
  <1> DEFINE f == [place |-> stack[1].place, type |-> stack[1].type, size |-> stack[1].size + 1]
             c == <<f>> \o Tail(stack)
             g == [stack EXCEPT ![1] = f]
  <1>1. Head(stack) = stack[1] /\ stack[1] \in Opened /\ Len(stack) \in Nat \ {0} /\ Tail(stack) \in Seq(Opened)
    OBVIOUS
  <1>2. f \in Opened /\ [stack[1] EXCEPT !.size = stack[1].size + 1] = f BY <1>1 DEF Opened
  <1>3. J!Grown = g BY <1>2 DEF J!Grown
  <1>4. More(stack) = c BY <1>1 DEF More, Sized
  <1> HIDE DEF f
  <1>5. g \in Seq(Opened) /\ Len(g) = Len(stack) /\ \A j \in 1 .. Len(stack) : g[j] = IF j = 1 THEN f ELSE stack[j]
    BY <1>1, <1>2, ExceptSeq
  <1>6. c \in Seq(Opened) /\ c # <<>> /\ Head(c) = f /\ Tail(c) = Tail(stack) BY <1>1, <1>2, StackParts
  <1> HIDE DEF c, g
  <1>7. Len(Tail(stack)) = Len(stack) - 1 /\ \A i \in 1 .. Len(stack) - 1 : Tail(stack)[i] = stack[i + 1]
    BY HeadTailProperties
  <1>8. Len(Tail(c)) = Len(c) - 1 /\ Len(c) \in Nat \ {0} /\ c[1] = f
        /\ \A i \in 1 .. Len(c) - 1 : Tail(c)[i] = c[i + 1]
    BY <1>6, HeadTailProperties
  <1>9. Len(c) = Len(stack)
    <2>1. Len(c) - 1 = Len(stack) - 1 BY <1>6, <1>7, <1>8
    <2>. QED BY <1>1, <1>8, <2>1
  <1>10. ASSUME NEW j \in 1 .. Len(stack) PROVE g[j] = c[j]
    <2>1. CASE j = 1 BY <1>5, <1>8, <2>1
    <2>2. CASE j # 1
      <3>1. j - 1 \in 1 .. Len(stack) - 1 /\ (j - 1) + 1 = j BY <1>1, <2>2
      <3>2. Tail(stack)[j - 1] = stack[j] BY <1>7, <3>1
      <3>3. Tail(c)[j - 1] = c[j] BY <1>8, <1>9, <3>1
      <3>. QED BY <1>5, <1>6, <2>2, <3>2, <3>3
    <2>. QED BY <2>1, <2>2
  <1>11. g = c BY <1>5, <1>6, <1>9, <1>10, SeqEqual
  <1>. QED BY <1>1, <1>3, <1>4, <1>11 DEF J!Top

\* The kinds of tokens are those that they announce, but for names.
LEMMA AnnouncedIs ==
  ASSUME NEW token
  PROVE  /\ token.kind \in {"object", "object_end", "array", "array_end", "separator", "colon", "string", "literal"}
              => J!Announces(token) = token.kind
         /\ token.kind = "name" => J!Announces(token) = "string"
  BY DEF J!Announces

\* The step of the reader that a move says, and no other.
LEMMA MoveIsStep ==
  ASSUME StackSound, started, ~error, NEW token \in J!Tokens, NEW t, Moves(State, token, t),
         \/ J!Illegal(token) \/ J!Begin(token) \/ J!BeginWild(token) \/ J!End(token)
         \/ J!ReadName(token) \/ J!ReadScalar(token) \/ J!ReadRefused(token)
         \/ J!Separator(token)
  PROVE  State' = t /\ started' /\ ~error'
  <1>1. State.legal = legal /\ State.stack = stack /\ State.key = key /\ State.tree = tree BY DEF State
  <1>2. State' = [legal |-> legal', stack |-> stack', key |-> key', tree |-> tree'] BY DEF State
  <1>3. stack \in Seq(Opened) BY DEF StackSound
  <1>4. ASSUME stack # <<>>
        PROVE  /\ J!Grown = More(stack) /\ J!Top = Head(stack)
               /\ J!Place = Spot(State) /\ \A kind : J!Put(J!Place, kind) = Holding(State, kind)
               /\ J!Takes <=> Wants(State)
    <2>1. J!Grown = More(stack) /\ J!Top = Head(stack) BY <1>3, <1>4, GrownIsMore
    <2>2. J!Place = Spot(State) BY <1>1, <2>1 DEF J!Place, Spot
    <2>3. \A kind : J!Put(J!Place, kind) = Holding(State, kind) BY <1>1, <2>2 DEF J!Put, Holding, Outside
    <2>4. J!Takes <=> Wants(State) BY <1>1, <2>1 DEF J!Takes, Wants
    <2>. QED BY <2>1, <2>2, <2>3, <2>4
  <1> HIDE DEF State
  <1>5. CASE MovesScalar(State, token, t)
    <2>1. /\ token.kind \in {"string", "literal"} /\ token.kind \in legal /\ Wants(State) /\ stack # <<>>
          /\ t = [legal |-> Ends \cup IF token.kind = "string" THEN {"colon"} ELSE {},
                  stack |-> More(stack), key |-> None, tree |-> Holding(State, token.kind)]
      BY <1>1, <1>5 DEF MovesScalar, Wants
    <2>2. J!Announces(token) \in legal BY <2>1, AnnouncedIs
    <2>3. J!ReadScalar(token)
      BY <2>1, <2>2 DEF J!Illegal, J!Begin, J!BeginWild, J!End, J!ReadName, J!ReadRefused, J!Refused, J!Separator
    <2>4. /\ legal' = Ends \cup IF token.kind = "string" THEN {"colon"} ELSE {}
          /\ J!AddJsonElement(token.kind) /\ started' = started
      BY <2>3 DEF J!ReadScalar, Ends
    <2>5. tree' = Holding(State, token.kind) /\ stack' = More(stack) /\ key' = None /\ error' = error
      BY <1>4, <2>1, <2>4 DEF J!AddJsonElement
    <2>. QED BY <1>2, <2>1, <2>4, <2>5
  <1>6. CASE MovesIn(State, token, t)
    <2>1. /\ token.kind \in {"object", "array"} /\ token.kind \in legal /\ Wants(State) /\ stack # <<>>
          /\ t = [legal |-> FirstIn(token.kind),
                  stack |-> <<[place |-> Spot(State), type |-> token.kind, size |-> 0]>> \o More(stack),
                  key |-> None, tree |-> Holding(State, token.kind)]
          /\ (Head(stack).type = "object" <=> key # None)
      BY <1>1, <1>6 DEF MovesIn, Wants
    <2>2. J!Announces(token) \in legal BY <2>1, AnnouncedIs
    <2>3. J!Begin(token)
      BY <2>1, <2>2 DEF J!Illegal, J!BeginWild, J!End, J!ReadName, J!ReadScalar, J!Scalars, J!ReadRefused, J!Refused, J!Separator
    <2>4. /\ legal' = FirstIn(token.kind) /\ started' = TRUE
          /\ tree' = J!Put(J!Place, token.kind)
          /\ stack' = <<[place |-> J!Place, type |-> token.kind, size |-> 0]>> \o J!Grown
          /\ key' = (IF J!Top.type = "object" THEN None ELSE key) /\ error' = error
      BY <1>4, <2>1, <2>3 DEF J!Begin, FirstIn
    <2>5. key' = None BY <1>4, <2>1, <2>4
    <2>. QED BY <1>2, <1>4, <2>1, <2>4, <2>5
  <1>7. CASE MovesOut(State, token, t)
    <2>1. /\ token.kind \in {"object_end", "array_end"} /\ token.kind \in legal /\ stack # <<>>
          /\ Head(stack).type = (IF token.kind = "object_end" THEN "object" ELSE "array")
          /\ t = [legal |-> {"eof"} \cup Ends, stack |-> Tail(stack), key |-> key, tree |-> tree]
      BY <1>1, <1>7 DEF MovesOut
    <2>2. J!Announces(token) \in legal BY <2>1, AnnouncedIs
    <2>3. J!End(token)
      BY <2>1, <2>2 DEF J!Illegal, J!Begin, J!BeginWild, J!ReadName, J!ReadScalar, J!Scalars, J!ReadRefused, J!Refused, J!Separator
    <2>4. J!Closes(token.kind) BY <1>4, <2>1 DEF J!Closes
    <2>5. legal' = {"eof"} \cup Ends /\ stack' = Tail(stack) /\ UNCHANGED <<error, key, tree, started>>
      BY <2>3, <2>4 DEF J!End, Ends
    <2>. QED BY <1>2, <2>1, <2>5
  <1>8. CASE MovesOn(State, token, t)
    <2>1. /\ token.kind \in {"separator", "colon"} /\ token.kind \in legal
          /\ t = [legal |-> BehindMark(token.kind), stack |-> stack, key |-> key, tree |-> tree]
      BY <1>1, <1>8 DEF MovesOn
    <2>2. J!Announces(token) \in legal BY <2>1, AnnouncedIs
    <2>3. J!Separator(token)
      BY <2>1, <2>2 DEF J!Illegal, J!Begin, J!BeginWild, J!End, J!ReadName, J!ReadScalar, J!Scalars, J!ReadRefused, J!Refused
    <2>4. legal' = BehindMark(token.kind) /\ UNCHANGED <<stack, key, tree, started, error>>
      BY <2>3 DEF J!Separator, BehindMark
    <2>. QED BY <1>2, <2>1, <2>4
  <1>9. CASE MovesName(State, token, t)
    <2>1. /\ token.kind = "name" /\ "string" \in legal /\ key = None
          /\ t = [legal |-> {"colon"} \cup Ends, stack |-> stack, key |-> token.name, tree |-> tree]
      BY <1>1, <1>9 DEF MovesName
    <2>2. J!Announces(token) \in legal BY <2>1, AnnouncedIs
    <2>3. J!ReadName(token)
      BY <2>1, <2>2 DEF J!Illegal, J!Begin, J!BeginWild, J!End, J!ReadScalar, J!Scalars, J!ReadRefused, J!Refused, J!Separator
    <2>4. legal' = {"colon"} \cup Ends /\ key' = token.name /\ UNCHANGED <<stack, tree, started, error>>
      BY <2>1, <2>3 DEF J!ReadName, Ends
    <2>. QED BY <1>2, <2>1, <2>4
  <1>. QED BY <1>5, <1>6, <1>7, <1>8, <1>9 DEF Moves

LEMMA RootedHasBegun ==
  ASSUME NEW kind \in {"object", "array"}
  PROVE  /\ Rooted(kind) \in States /\ Began(Rooted(kind), kind)
         /\ Tail(Rooted(kind).stack) = <<>> /\ Head(Rooted(kind).stack).place = <<>>
         /\ Rooted(kind).tree = {<<<<>>, kind>>}
  <1> DEFINE f == [place |-> <<>>, type |-> kind, size |-> 0]
             r == Rooted(kind)
             only == {<<<<>>, kind>>}
  <1>1. f \in Opened /\ f.place = <<>> /\ f.type = kind /\ f.size = 0 BY DEF Opened
  <1>2. r.legal = FirstIn(kind) /\ r.stack = <<f>> /\ r.key = None /\ r.tree = only BY DEF Rooted
  <1>3. r = [legal |-> FirstIn(kind), stack |-> <<f>>, key |-> None, tree |-> only] BY DEF Rooted
  <1> HIDE DEF f, r
  <1>4. <<f>> \in Seq(Opened) /\ <<f>> # <<>> /\ Head(<<f>>) = f /\ Tail(<<f>>) = <<>> BY <1>1
  <1>5. only \subseteq Found
    <2>1. <<>> \in Seq(Keys) /\ kind \in Kinds BY DEF Kinds
    <2>2. <<<<>>, kind>> \in Found BY <2>1 DEF Found
    <2>. QED BY <2>2
  <1>6. Fresh(only, <<>>) BY DEF Fresh
  <1> HIDE DEF only
  <1>7. r \in States BY <1>3, <1>4, <1>5, LegalIs DEF States
  <1>8. Began(r, kind) BY <1>1, <1>2, <1>4, <1>6 DEF Began
  <1>. QED BY <1>1, <1>2, <1>4, <1>7, <1>8 DEF r, only

LEMMA WellReadAtFirst == J!Init => WellRead
  <1> SUFFICES ASSUME J!Init PROVE WellRead OBVIOUS
  <1>1. doc = <<>> /\ started = FALSE /\ error = FALSE /\ key = None
        /\ stack = <<[place |-> <<>>, type |-> "object", size |-> 0]>>
    BY DEF J!Init
  <1>2. ASSUME NEW x, NEW text \in Texts PROVE <<x>> \o text # <<>>
    BY DEF Texts
  <1>3. Tracks BY <1>1, <1>2 DEF Tracks
  <1>. QED BY <1>1, <1>3, StackSoundAtFirst DEF WellRead

LEMMA AppendsAgree ==
  ASSUME NEW a \in Texts, NEW b \in Texts, NEW x \in J!Tokens, NEW y \in J!Tokens,
         Append(a, x) = Append(b, y)
  PROVE  a = b /\ x = y
  BY AppendInjective DEF Texts

LEMMA BehindFirst ==
  ASSUME NEW x \in J!Tokens, NEW b \in Texts, NEW y \in J!Tokens
  PROVE  <<x>> \o b \in Texts /\ <<x>> \o Append(b, y) = Append(<<x>> \o b, y)
  <1>1. \A p \in Seq(J!Tokens), q \in Seq(J!Tokens), r \in Seq(J!Tokens) : (p \o q) \o r = p \o (q \o r)
    BY TextsJoin DEF Texts
  <1>2. \A p \in Seq(J!Tokens), z \in J!Tokens : Append(p, z) = p \o <<z>>
    BY AppendIsConcat
  <1>3. b \in Seq(J!Tokens) /\ <<x>> \in Seq(J!Tokens) /\ <<y>> \in Seq(J!Tokens) BY DEF Texts
  <1>4. <<x>> \o b \in Seq(J!Tokens) BY <1>3, ConcatProperties
  <1>5. (<<x>> \o b) \o <<y>> = <<x>> \o (b \o <<y>>) BY <1>1, <1>3, Zenon
  <1>6. Append(b, y) = b \o <<y>> BY <1>2, <1>3, Zenon
  <1>7. Append(<<x>> \o b, y) = (<<x>> \o b) \o <<y>> BY <1>2, <1>4, Zenon
  <1>8. <<x>> \o Append(b, y) = <<x>> \o (b \o <<y>>) BY <1>6, Zenon
  <1>. QED BY <1>4, <1>5, <1>7, <1>8, Zenon DEF Texts

\* The first token of a document, and each one behind it.
FirstOrElse(d, token, x, text) ==
  \/ d = <<>> /\ token = x /\ text = <<>>
  \/ \E front \in Texts : text = Append(front, token) /\ d = <<x>> \o front

LEMMA FirstOrBehind ==
  ASSUME NEW d \in Texts, NEW token \in J!Tokens, NEW x \in J!Tokens, NEW text \in Texts,
         Append(d, token) = <<x>> \o text
  PROVE  FirstOrElse(d, token, x, text)
  <1>1. d \in Seq(J!Tokens) /\ text \in Seq(J!Tokens) /\ <<x>> \in Seq(J!Tokens) BY DEF Texts
  <1>2. CASE text = <<>>
    <2>1. <<x>> \o text = <<x>> BY <1>1, <1>2, ConcatEmptySeq
    <2>2. Append(<<>>, x) = <<x>> OBVIOUS
    <2>3. Append(d, token) = Append(<<>>, x) BY <2>1, <2>2
    <2>4. <<>> \in Texts BY DEF Texts
    <2> DEFINE c == <<>>
    <2>5. Append(d, token) = Append(c, x) /\ c \in Texts BY <2>3, <2>4
    <2> HIDE DEF c
    <2>6. d = c /\ token = x BY <2>5, AppendsAgree
    <2>7. d = <<>> /\ token = x BY <2>6 DEF c
    <2>. QED BY <1>2, <2>7 DEF FirstOrElse
  <1>3. CASE text # <<>>
    <2>1. PICK front \in Seq(J!Tokens), y \in J!Tokens : text = Append(front, y)
      BY <1>1, <1>3, SequenceEmptyOrAppend
    <2>2. front \in Texts BY DEF Texts
    <2> DEFINE c == <<x>> \o front
    <2>3. c \in Texts /\ <<x>> \o Append(front, y) = Append(c, y) BY <2>2, BehindFirst, Zenon
    <2>4. Append(d, token) = Append(c, y) BY <2>1, <2>3, Zenon
    <2> HIDE DEF c
    <2>5. d = c /\ token = y BY <2>3, <2>4, AppendsAgree
    <2>6. text = Append(front, token) BY <2>1, <2>5
    <2>. QED BY <2>2, <2>5, <2>6 DEF c, FirstOrElse
  <1>. QED BY <1>2, <1>3

\* The first token is that of a container, which is the root.
LEMMA RootIsStep ==
  ASSUME WellRead, doc = <<>>, NEW kind \in {"object", "array"}, NEW token \in J!Tokens,
         token = G!Token(kind),
         \/ J!Illegal(token) \/ J!Begin(token) \/ J!BeginWild(token) \/ J!End(token)
         \/ J!ReadName(token) \/ J!ReadScalar(token) \/ J!ReadRefused(token)
         \/ J!Separator(token)
  PROVE  State' = Rooted(kind) /\ started' /\ ~error'
  <1>1. /\ ~started /\ ~error /\ key = None /\ legal = {"object", "array"}
        /\ stack = <<[place |-> <<>>, type |-> "object", size |-> 0]>>
    BY DEF WellRead, StackSound
  <1>2. token.kind = kind /\ token.kind \in {"object", "array"} BY TokensAre
  <1>3. J!Announces(token) \in legal BY <1>1, <1>2, AnnouncedIs
  <1>4. J!Begin(token)
    <2>1. ~J!Illegal(token) BY <1>3 DEF J!Illegal
    <2>2. ~J!BeginWild(token) BY <1>1 DEF J!BeginWild
    <2>3. ~J!End(token) /\ ~J!ReadName(token) /\ ~J!ReadScalar(token) /\ ~J!ReadRefused(token) /\ ~J!Separator(token)
      BY <1>2 DEF J!End, J!ReadName, J!ReadScalar, J!Scalars, J!ReadRefused, J!Refused, J!Separator
    <2>. QED BY <2>1, <2>2, <2>3
  <1>5. /\ legal' = FirstIn(kind) /\ started' = TRUE /\ stack' = [stack EXCEPT ![1].type = kind]
        /\ tree' = {<<<<>>, kind>>} /\ UNCHANGED <<key, error>>
    BY <1>1, <1>2, <1>4 DEF J!Begin, FirstIn
  <1>6. stack' = <<[place |-> <<>>, type |-> kind, size |-> 0]>> BY <1>1, <1>5
  <1>7. State' = [legal |-> legal', stack |-> stack', key |-> key', tree |-> tree'] BY DEF State
  <1>. QED BY <1>1, <1>5, <1>6, <1>7 DEF Rooted

LEMMA TokenStep ==
  ASSUME WellRead, NEW token \in J!Tokens,
         \/ J!Illegal(token) \/ J!Begin(token) \/ J!BeginWild(token) \/ J!End(token)
         \/ J!ReadName(token) \/ J!ReadScalar(token) \/ J!ReadRefused(token)
         \/ J!Separator(token)
  PROVE  Tracks' /\ doc' # <<>>
  <1>1. doc' = Append(doc, token)
    BY DEF J!Illegal, J!Begin, J!BeginWild, J!End, J!ReadName, J!ReadScalar, J!ReadRefused, J!Separator, J!Reads
  <1>2. doc \in Texts BY DEF WellRead, StackSound, J!TypeOK, Texts
  <1>3. ASSUME NEW kind \in {"object", "array"}, NEW text \in Texts, NEW t,
               doc' = <<G!Token(kind)>> \o text, Leads(Rooted(kind), text, t)
        PROVE  State' = t /\ started' /\ ~error'
    <2> DEFINE x == G!Token(kind)
    <2>1. x \in J!Tokens BY TokensAre
    <2>2. Append(doc, token) = <<x>> \o text BY <1>1, <1>3
    <2>3. \/ doc = <<>> /\ token = x /\ text = <<>>
          \/ \E front \in Texts : text = Append(front, token) /\ doc = <<x>> \o front
      <3> HIDE DEF x
      <3>1. FirstOrElse(doc, token, x, text) BY <1>2, <2>1, <2>2, FirstOrBehind
      <3>. QED BY <3>1 DEF FirstOrElse
    <2>4. CASE doc = <<>> /\ token = x /\ text = <<>>
      <3>1. t = Rooted(kind) BY <1>3, <2>4, LeadsNowhere
      <3>. QED BY <2>4, <3>1, RootIsStep
    <2>5. ASSUME NEW front \in Texts, text = Append(front, token), doc = <<x>> \o front
          PROVE  State' = t /\ started' /\ ~error'
      <3>1. PICK m : Leads(Rooted(kind), front, m) /\ Moves(m, token, t)
        BY <1>3, <2>5, LeadsBack DEF Texts
      <3>2. State = m /\ started /\ ~error BY <2>5, <3>1 DEF WellRead, Tracks
      <3>. QED BY <3>1, <3>2, MoveIsStep DEF WellRead
    <2>. QED BY <2>3, <2>4, <2>5
  <1>4. doc' # <<>> BY <1>1, <1>2, AppendProperties DEF Texts
  <1>5. Tracks' BY <1>3 DEF Tracks
  <1>. QED BY <1>4, <1>5

LEMMA WellReadStays == ASSUME WellRead, [J!Next]_reader PROVE WellRead'
  <1>1. StackSound' BY StackStays DEF WellRead
  <1>2. ASSUME UNCHANGED <<doc, legal, stack, key, tree, started, error>> PROVE WellRead'
    <2>1. State' = State BY <1>2 DEF State
    <2>2. Tracks' BY <1>2, <2>1 DEF WellRead, Tracks
    <2>. QED BY <1>1, <1>2, <2>2 DEF WellRead
  <1>3. ASSUME NEW token \in J!Tokens,
               \/ J!Illegal(token) \/ J!Begin(token) \/ J!BeginWild(token) \/ J!End(token)
               \/ J!ReadName(token) \/ J!ReadScalar(token) \/ J!ReadRefused(token)
               \/ J!Separator(token)
        PROVE  WellRead'
    BY <1>1, <1>3, TokenStep DEF WellRead
  <1>. QED BY <1>2, <1>3 DEF J!Next, J!EndOfText, reader

\* A document is a container whose inside moves lead through.
LEMMA WellReadIsRight == ASSUME WellRead PROVE J!ReadsJson
  <1> SUFFICES ASSUME NEW v \in Documents, v.text = doc
               PROVE  ~error /\ stack = <<>> /\ tree = v.tree
    BY DEF J!ReadsJson
  <1>1. v \in Insides(ReadItems, ReadMembers) BY GrammarIsRead, DocumentsFollowRules
  <1>2. PICK kind \in {"object", "array"}, end \in {"object_end", "array_end"}, l \in Inner :
           /\ v = G!Wrap(kind, l, end) /\ InsideRead(l, kind) /\ (kind = "object" => l.size > 0)
           /\ kind = IF end = "object_end" THEN "object" ELSE "array"
    BY <1>1 DEF Insides, ReadItems, ReadMembers
  <1> DEFINE x == G!Token(kind)
             y == G!Token(end)
             r == Rooted(kind)
  <1>3. /\ r \in States /\ Began(r, kind) /\ Tail(r.stack) = <<>> /\ Head(r.stack).place = <<>>
        /\ r.tree = {<<<<>>, kind>>}
    BY RootedHasBegun
  <1>4. v.text = <<x>> \o l.text \o <<y>> /\ v.tree = {<<<<>>, kind>>} \cup l.tree
    BY <1>2 DEF G!Wrap
  <1>5. <<x>> \in Texts BY TokensAre
  <1>6. l.text \in Texts /\ l.tree \in SUBSET Found BY DEF Inner
  <1>7. /\ <<y>> \in Texts /\ l.text \o <<y>> \in Texts
        /\ Yields(r, l.text \o <<y>>, Tail(r.stack), r.tree \cup At(Head(r.stack).place, l.tree))
    <2> HIDE DEF r
    <2>. QED BY <1>2, <1>3, InsideAndEnd
  <1> HIDE DEF x, y, r
  <1>8. v.text = <<x>> \o (l.text \o <<y>>)
    <2>1. (<<x>> \o l.text) \o <<y>> = <<x>> \o (l.text \o <<y>>) BY <1>5, <1>6, <1>7, TextsJoin, Zenon
    <2>. QED BY <1>4, <2>1
  <1>9. PICK t \in States : Leads(r, l.text \o <<y>>, t) /\ t.stack = <<>> /\ t.tree = r.tree \cup At(<<>>, l.tree)
    BY <1>3, <1>7 DEF Yields
  <1>10. doc = <<x>> \o (l.text \o <<y>>) BY <1>8
  <1>11. State = t /\ ~error BY <1>7, <1>9, <1>10 DEF WellRead, Tracks, x, r
  <1>12. t.tree = v.tree BY <1>3, <1>4, <1>6, <1>9, AtRoot
  <1>13. stack = t.stack /\ tree = t.tree BY <1>11 DEF State
  <1>. QED BY <1>9, <1>11, <1>12, <1>13

-----------------------------------------------------------------------------
(* The parts together. *)

\* Each part of a step of what is local is a step of that part, or nothing.
LEMMA PartSteps ==
  [LocalNext]_local =>
    [Next]_vars /\ [D!Next]_daemon /\ [J!Next]_reader /\ [E!Next]_elements
  BY DEF LocalNext, local, cache

LEMMA PartsAtFirst == LocalInit => Init /\ D!Init /\ J!Init /\ E!Init
  BY DEF LocalInit

\* Whatever commands are given, whichever processes die and whichever process ids
\* are used again meanwhile, the pid file names the daemon that runs until a
\* command is given before the child that the one before has forked has written
\* the file or ended.
THEOREM PidFileNamesDaemon == LocalSpec => []NamesDaemon
  <1>1. LocalInit => Named BY PartsAtFirst, NamedAtFirst
  <1>2. Named /\ [LocalNext]_local => Named' BY PartSteps, NamedStays
  <1>3. Named => NamesDaemon BY DEF Named, Orderly, NamesDaemon, D!NamesDaemon
  <1>. QED BY <1>1, <1>2, <1>3, PTL DEF LocalSpec

\* Whatever elements are constructed, moved, overwritten and destroyed, each cell
\* of the heap is freed by one of them only.
THEOREM CellsFreedOnce == LocalSpec => []FreedOnce
  <1>1. LocalInit => Owned BY PartsAtFirst, OwnedAtFirst
  <1>2. Owned /\ [LocalNext]_local => Owned' BY PartSteps, OwnedStays
  <1>3. Owned => FreedOnce BY DEF Owned
  <1>. QED BY <1>1, <1>2, <1>3, PTL DEF LocalSpec

\* The pointers to the open containers stay good while the reader adds to the
\* containers they lie in, for documents of any length and names.
THEOREM OpenContainersAlive == LocalSpec => []J!OpenAlive
  <1>1. LocalInit => StackSound BY PartsAtFirst, StackSoundAtFirst
  <1>2. StackSound /\ [LocalNext]_local => StackSound' BY PartSteps, StackStays
  <1>3. StackSound => J!OpenAlive BY DEF StackSound
  <1>. QED BY <1>1, <1>2, <1>3, PTL DEF LocalSpec

\* Each document of the grammar, of any length and with any names, is read to its
\* end without an error, and what is built has the elements of the document at
\* their places, the last of several members with one name; the pointers to open
\* containers stay good meanwhile.
THEOREM ReaderBuildsDocuments == LocalSpec => []ReadsDocuments
  <1>1. LocalInit => WellRead BY PartsAtFirst, WellReadAtFirst
  <1>2. WellRead /\ [LocalNext]_local => WellRead' BY PartSteps, WellReadStays
  <1>3. WellRead => ReadsDocuments
    BY WellReadIsRight DEF WellRead, StackSound, ReadsDocuments, J!ReadsDocuments
  <1>. QED BY <1>1, <1>2, <1>3, PTL DEF LocalSpec

\* Every variable of the parts has its type, and the file cache its structure.
THEOREM LocalPartsSound == LocalSpec => []Sound
  <1>1. LocalInit => CacheInv /\ Named /\ StackSound /\ Owned
    BY PartsAtFirst, CachedAtFirst, NamedAtFirst, StackSoundAtFirst, OwnedAtFirst DEF CacheInv
  <1>2. CacheInv /\ Named /\ StackSound /\ Owned /\ [LocalNext]_local
          => (CacheInv /\ Named /\ StackSound /\ Owned)'
    BY PartSteps, CachedStep, NamedStays, StackStays, OwnedStays DEF CacheInv
  <1>3. CacheInv /\ Named /\ StackSound /\ Owned => Sound
    BY CachedIsSound DEF CacheInv, Named, StackSound, Owned, Sound
  <1>. QED BY <1>1, <1>2, <1>3, PTL DEF LocalSpec
=============================================================================
