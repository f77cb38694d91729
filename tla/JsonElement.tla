---------------------------- MODULE JsonElement ----------------------------
(***************************************************************************)
(* Who frees what in json/jsonelement.cc.  An element points to a cell of  *)
(* the heap (a JsonObject, JsonArray or std::string) and has m_deep, the   *)
(* right to free it; the elements of a container live in its cell and go   *)
(* with it.  Assignments and copies share cells, moves hand them over.     *)
(***************************************************************************)
EXTENDS Naturals

CONSTANTS Elements,   \* addresses an element can have
          Cells,      \* addresses of the heap
          None

VARIABLES type,       \* m_type of each element, "none" where there is none
          deep,       \* the elements with m_deep
          ptr,        \* the pointer in m_val
          home,       \* the cell that an element lives in, None: a variable
          allocated,  \* the cells that are allocated
          wild        \* freed memory has been used

vars == <<type, deep, ptr, home, allocated, wild>>

Containers == {"object", "array"}
Types == Containers \cup {"string", "scalar"}

TypeOK ==
  /\ type \in [Elements -> Types \cup {"none"}]
  /\ deep \subseteq Elements
  /\ ptr \in [Elements -> Cells \cup {None}]
  /\ home \in [Elements -> Cells \cup {None}]
  /\ allocated \subseteq Cells
  /\ wild \in BOOLEAN

Init ==
  /\ type = [e \in Elements |-> "none"]
  /\ deep = {}
  /\ ptr = [e \in Elements |-> None]
  /\ home = [e \in Elements |-> None]
  /\ allocated = {}
  /\ wild = FALSE

Is(e) == type[e] # "none"

-----------------------------------------------------------------------------
(* Destruction. *)

\* What deleting a cell deletes: the cells that the elements inside may free,
\* and so on.
Closed(S) == \A e \in deep : home[e] \in S /\ ptr[e] # None => ptr[e] \in S
Falls(c) == {d \in Cells : \A S \in SUBSET Cells : c \in S /\ Closed(S) => d \in S}

\* free(): the cells that go when an element is destroyed or overwritten.
FreedCells(e) == IF e \in deep /\ ptr[e] # None THEN Falls(ptr[e]) ELSE {}

Gone(e) == {x \in Elements : home[x] \in FreedCells(e)}

\* The state after e.free(), e then having the type, the right and the pointer
\* it is given, and the source of a move, or e itself, no right any more.
Overwrite(e, t, d, p, from) ==
  /\ type' = [x \in Elements |-> IF x = e THEN t ELSE IF x \in Gone(e) THEN "none" ELSE type[x]]
  /\ deep' = IF d THEN ((deep \ Gone(e)) \ {from}) \cup {e} ELSE (deep \ Gone(e)) \ {from, e}
  /\ ptr' = [x \in Elements |-> IF x = e THEN p ELSE IF x \in Gone(e) THEN None ELSE ptr[x]]
  /\ home' = [x \in Elements |-> IF x \in Gone(e) THEN None ELSE home[x]]

\* An assignment to an element inside what it would free itself, or from one:
\* freed memory is read or written.
Inside(e, x) == e \in Gone(e) \/ x \in Gone(e)

-----------------------------------------------------------------------------
(* Constructors and the destructor of variables. *)

Construct(e, t, d, p) ==
  /\ ~Is(e)
  /\ type' = [type EXCEPT ![e] = t]
  /\ deep' = IF d THEN deep \cup {e} ELSE deep \ {e}
  /\ ptr' = [ptr EXCEPT ![e] = p]
  /\ UNCHANGED <<home, wild>>

\* JsonElement(), JsonElement(JsonType) and those of the scalars.
NewElement(e) ==
  /\ \E t \in Containers \cup {"scalar"} : Construct(e, t, FALSE, None)
  /\ UNCHANGED allocated

NewString(e) == \E c \in Cells \ allocated :
  /\ Construct(e, "string", TRUE, c)
  /\ allocated' = allocated \cup {c}

\* The copy constructor shares: deep is false by default.
NewCopy(e, x) ==
  /\ Is(x)
  /\ Construct(e, type[x], FALSE, ptr[x])
  /\ UNCHANGED allocated

NewMoved(e, x) ==
  /\ Is(x) /\ ~Is(e)
  /\ type' = [type EXCEPT ![e] = type[x]]
  /\ ptr' = [ptr EXCEPT ![e] = ptr[x]]
  /\ deep' = IF x \in deep THEN (deep \ {x}) \cup {e} ELSE deep
  /\ UNCHANGED <<home, allocated, wild>>

Destroy(e) ==
  /\ Is(e) /\ home[e] = None
  /\ Overwrite(e, "none", FALSE, None, e)
  /\ allocated' = allocated \ FreedCells(e)
  /\ UNCHANGED wild

-----------------------------------------------------------------------------
(* Assignments. *)

\* Every operator= but the next two: a scalar has no cell, a string a new one.
AssignScalar(e) ==
  /\ Is(e) /\ e \notin Gone(e)
  /\ Overwrite(e, "scalar", FALSE, None, e)
  /\ allocated' = allocated \ FreedCells(e)
  /\ UNCHANGED wild

AssignString(e) == \E c \in Cells \ (allocated \ FreedCells(e)) :
  /\ Is(e) /\ e \notin Gone(e)
  /\ Overwrite(e, "string", TRUE, c, e)
  /\ allocated' = (allocated \ FreedCells(e)) \cup {c}
  /\ UNCHANGED wild

\* operator=(JsonElement&).
SharesWithRight(x) == x \in deep   \* mutant: m_deep is copied too
Shares(x) == FALSE
AssignCopy(e, x) ==
  /\ Is(e) /\ Is(x) /\ e # x /\ ~Inside(e, x)
  /\ Overwrite(e, type[x], Shares(x), ptr[x], e)
  /\ allocated' = allocated \ FreedCells(e)
  /\ UNCHANGED wild

\* operator=(JsonElement&&).
AssignMove(e, x) ==
  /\ Is(e) /\ Is(x) /\ e # x /\ ~Inside(e, x)
  /\ Overwrite(e, type[x], x \in deep, ptr[x], x)
  /\ allocated' = allocated \ FreedCells(e)
  /\ UNCHANGED wild

AssignInside(e, x) ==
  /\ Is(e) /\ Is(x) /\ (e # x \/ e \in Gone(e)) /\ Inside(e, x)
  /\ wild' = TRUE
  /\ UNCHANGED <<type, deep, ptr, home, allocated>>

\* Reader::addObject and addArray on the root: free(), and m_deep stays.
ReaderRoot(e) == \E t \in Containers :
  /\ Is(e) /\ e \notin Gone(e)
  /\ Overwrite(e, t, e \in deep, None, None)
  /\ allocated' = allocated \ FreedCells(e)
  /\ UNCHANGED wild

-----------------------------------------------------------------------------
(* Containers. *)

\* The cell of a container that is written to, a new one if it has none.
Cell(e, c) == IF ptr[e] = None THEN c \in Cells \ allocated
                               ELSE c = ptr[e] /\ c \in allocated

\* operator[] with a new key, and append() of a scalar: the new element x is one
\* of its own.  append() of a string assigns to it as well.
AddNew(e, x) == \E c \in Cells :
  /\ type[e] \in Containers /\ Cell(e, c)
  /\ ~Is(x)
  /\ type' = [type EXCEPT ![x] = IF type[e] = "object" THEN "object" ELSE "scalar"]
  /\ home' = [home EXCEPT ![x] = c]
  /\ ptr' = [ptr EXCEPT ![e] = c, ![x] = None]
  /\ deep' = (IF ptr[e] = None THEN deep \cup {e} ELSE deep) \ {x}
  /\ allocated' = allocated \cup {c}
  /\ UNCHANGED wild

\* append(JsonElement&), which moves what it is given.
Append(e, v, x) == \E c \in Cells :
  /\ type[e] = "array" /\ Cell(e, c)
  /\ Is(v) /\ ~Is(x)
  /\ LET p == IF v = e THEN c ELSE ptr[v]
         owners == IF ptr[e] = None THEN deep \cup {e} ELSE deep
     IN
     /\ type' = [type EXCEPT ![x] = type[v]]
     /\ home' = [home EXCEPT ![x] = c]
     /\ ptr' = [ptr EXCEPT ![e] = c, ![x] = p]
     /\ deep' = IF v \in owners THEN (owners \ {v}) \cup {x} ELSE owners \ {x}
  /\ allocated' = allocated \cup {c}
  /\ UNCHANGED wild

\* A share outlives what it shares.
UseFreed(e) ==
  /\ type[e] \in Containers \cup {"string"} /\ ptr[e] \notin allocated \cup {None}
  /\ wild' = TRUE
  /\ UNCHANGED <<type, deep, ptr, home, allocated>>

Next ==
  /\ ~wild
  /\ \E e \in Elements :
       \/ NewElement(e) \/ NewString(e) \/ Destroy(e)
       \/ AssignScalar(e) \/ AssignString(e) \/ ReaderRoot(e) \/ UseFreed(e)
       \/ \E x \in Elements :
            \/ NewCopy(e, x) \/ NewMoved(e, x)
            \/ AssignCopy(e, x) \/ AssignMove(e, x) \/ AssignInside(e, x)
            \/ AddNew(e, x)
            \/ \E v \in Elements : Append(e, v, x)

Spec == Init /\ [][Next]_vars

-----------------------------------------------------------------------------
(* Properties *)

\* Two elements never have the right to free the same cell, what one may free is
\* allocated, and what lives in a cell goes with it: whatever is assigned, moved
\* into containers, overwritten or destroyed, nothing is freed twice.
FreedOnce ==
  /\ \A e \in deep : ptr[e] \in allocated \cup {None}
  /\ \A e, x \in deep : ptr[e] = ptr[x] /\ ptr[e] # None => e = x
  /\ \A e \in Elements : home[e] \in allocated \cup {None}
=============================================================================
