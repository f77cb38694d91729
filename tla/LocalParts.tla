----------------------------- MODULE LocalParts -----------------------------
(***************************************************************************)
(* What a server keeps to itself: the file cache, the pid file, the JSON   *)
(* reader and the elements it builds.  They share no state; a behaviour is *)
(* one of one of them.                                                     *)
(***************************************************************************)
EXTENDS LRUCache

CONSTANTS Shells, Pids, Empty,            \* Daemon
          Names, MaxTokens,               \* JsonReader
          Elements, Cells                 \* JsonElement

ASSUME LocalAssumption ==
  /\ None \notin Pids \cup Cells \cup Names
  /\ Empty \notin Pids \cup {None}
  /\ MaxTokens \in Nat

\* What the reader is to read.
G == INSTANCE JsonGrammar WITH Scalars <- {"string", "literal"}
Documents == G!JsonDocuments

VARIABLES part,   \* the one that runs
          file, proc, quit, at, pid, again, hasty,
          doc, legal, stack, key, tree, started, error, result,
          type, deep, ptr, home, allocated, wild

D == INSTANCE Daemon WITH pc <- at
J == INSTANCE JsonReader
E == INSTANCE JsonElement

Parts == {"cache", "daemon", "reader", "elements"}

cache == vars
daemon == <<file, proc, quit, at, pid, again, hasty>>
reader == <<doc, legal, stack, key, tree, started, error, result>>
elements == <<type, deep, ptr, home, allocated, wild>>
local == <<part, cache, daemon, reader, elements>>

LocalInit == part \in Parts /\ Init /\ D!Init /\ J!Init /\ E!Init

LocalNext ==
  /\ UNCHANGED part
  /\ \/ part = "cache" /\ Next /\ UNCHANGED <<daemon, reader, elements>>
     \/ part = "daemon" /\ D!Next /\ UNCHANGED <<cache, reader, elements>>
     \/ part = "reader" /\ J!Next /\ UNCHANGED <<cache, daemon, elements>>
     \/ part = "elements" /\ E!Next /\ UNCHANGED <<cache, daemon, reader>>

LocalSpec == LocalInit /\ [][LocalNext]_local

-----------------------------------------------------------------------------
(* Properties *)

\* List, map and counter of the file cache agree, and every variable has its
\* type.
Sound == CacheSound /\ D!TypeOK /\ J!TypeOK /\ E!TypeOK

\* The pid file names the daemon that runs (daemon.cc), as long as no command has
\* been given before the child of the one before had written the file.
NamesDaemon == D!NamesDaemon

\* The reader builds what the document says (json/reader.cc).
ReadsDocuments == J!ReadsDocuments

\* No cell of the heap is freed twice (json/jsonelement.cc).
FreedOnce == E!FreedOnce
=============================================================================
