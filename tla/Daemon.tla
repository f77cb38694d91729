------------------------------- MODULE Daemon -------------------------------
(***************************************************************************)
(* The pid file protocol of daemon.cc: the commands start, stop and        *)
(* restart, which shells give, the daemon that start forks, and the rest   *)
(* of the system, which uses the process ids that are free again.  Each    *)
(* system call on the file or on a process is a step.                      *)
(***************************************************************************)
EXTENDS Naturals

CONSTANTS Shells, Pids,
          None,     \* there is no pid file
          Empty     \* it has been truncated, or the write has failed

VARIABLES file,     \* what the pid file holds
          proc,     \* what each process is
          quit,     \* the processes that have been sent SIGQUIT
          pc,       \* where each shell's command is
          pid,      \* what getPidFile has returned to it
          again,    \* the shells whose command is restart
          hasty     \* a command was given before the one before was through

vars == <<file, proc, quit, pc, pid, again, hasty>>

TypeOK ==
  /\ file \in Pids \cup {None, Empty}
  /\ proc \in [Pids -> {"free", "born", "open", "daemon", "exiting", "ending",
                        "other", "foreign"}]
  /\ quit \subseteq Pids
  /\ pc \in [Shells -> {"out", "restart", "look", "start", "check", "fork",
                        "stop", "kill", "wait"}]
  /\ pid \in [Shells -> Pids \cup {None}]
  /\ again \subseteq Shells
  /\ hasty \in BOOLEAN

Init ==
  /\ file = None
  /\ proc = [p \in Pids |-> "free"]
  /\ quit = {}
  /\ pc = [s \in Shells |-> "out"]
  /\ pid = [s \in Shells |-> None]
  /\ again = {}
  /\ hasty = FALSE

Goto(s, from, to) == pc[s] = from /\ pc' = [pc EXCEPT ![s] = to]

-----------------------------------------------------------------------------
(* The commands. *)

\* A command is through when the child it has forked, which outlives the shell's
\* process, has written the pid file or ended; no shell can tell when.
Through == /\ \A s \in Shells : pc[s] = "out"
           /\ \A p \in Pids : proc[p] \notin {"born", "open"}

\* daemonProcess.
Command(s, cmd) ==
  /\ Goto(s, "out", cmd)
  /\ again' = IF cmd = "restart" THEN again \cup {s} ELSE again \ {s}
  /\ hasty' = (hasty \/ ~Through)
  /\ UNCHANGED <<file, proc, quit, pid>>

\* getPidFile: what is not a number greater than 0 counts as no pid.
GetPidFile(s, from, to) ==
  /\ Goto(s, from, to)
  /\ pid' = [pid EXCEPT ![s] = IF file \in Pids THEN file ELSE None]
  /\ UNCHANGED <<file, proc, quit, again, hasty>>

\* kill(pid, 0) == 0, or EPERM.
Answers(s)  == pid[s] # None /\ proc[pid[s]] \notin {"free", "foreign"}
Forbids(s)  == pid[s] # None /\ proc[pid[s]] = "foreign"

\* The test of daemon_restart.
Look(s) ==
  /\ Goto(s, "look", IF Answers(s) THEN "stop" ELSE IF Forbids(s) THEN "out" ELSE "start")
  /\ UNCHANGED <<file, proc, quit, pid, again, hasty>>

MayStartAlways(s) == TRUE   \* mutant: the pid of the file is not asked for
MayStart(s) == ~Answers(s) /\ ~Forbids(s)

\* The tests of daemon_start; getppid() may be 1 as well.
Check(s) == \E to \in {"fork", "out"} :
  /\ Goto(s, "check", to)
  /\ to = "fork" => MayStart(s)
  /\ UNCHANGED <<file, proc, quit, pid, again, hasty>>

\* The parent exits at once, whether or not there is a child.
Fork(s) ==
  /\ Goto(s, "fork", "out")
  /\ \/ \E p \in Pids : proc[p] = "free" /\ proc' = [proc EXCEPT ![p] = "born"]
     \/ UNCHANGED proc
  /\ UNCHANGED <<file, quit, pid, again, hasty>>

\* The first kill of daemon_stop.
Kill(s) ==
  /\ Goto(s, "kill", IF Answers(s) THEN "wait" ELSE "out")
  /\ quit' = IF Answers(s) THEN quit \cup {pid[s]} ELSE quit
  /\ UNCHANGED <<file, proc, pid, again, hasty>>

\* Its loop: the same signal until there is nobody to take it.
KillAgain(s) ==
  /\ pc[s] = "wait" /\ Answers(s)
  /\ quit' = quit \cup {pid[s]}
  /\ UNCHANGED <<file, proc, pc, pid, again, hasty>>

Stopped(s) ==
  /\ Goto(s, "wait", IF s \in again THEN "start" ELSE "out")
  /\ ~Answers(s)
  /\ file' = None
  /\ UNCHANGED <<proc, quit, pid, again, hasty>>

\* After 300 times.
GiveUp(s) ==
  /\ Goto(s, "wait", "out")
  /\ UNCHANGED <<file, proc, quit, pid, again, hasty>>

-----------------------------------------------------------------------------
(* The child of daemon_start, and the end of any process. *)

Becomes(p, from, to) == proc[p] = from /\ proc' = [proc EXCEPT ![p] = to]

\* open(O_TRUNC) and lockf, which fails if another child is about to write; the
\* lock goes with the descriptor.
Open(p) ==
  /\ Becomes(p, "born", IF \E q \in Pids : proc[q] = "open" THEN "free" ELSE "open")
  /\ file' = Empty
  /\ quit' = IF proc'[p] = "free" THEN quit \ {p} ELSE quit
  /\ UNCHANGED <<pc, pid, again, hasty>>

\* /dev/null can be opened: the exit handler is set and the daemon runs.
Write(p) ==
  /\ Becomes(p, "open", "daemon")
  /\ file' = p
  /\ UNCHANGED <<quit, pc, pid, again, hasty>>

\* It cannot.
WriteInVain(p) ==
  /\ Becomes(p, "open", "free")
  /\ file' = p
  /\ quit' = quit \ {p}
  /\ UNCHANGED <<pc, pid, again, hasty>>

Exit(p) ==
  /\ Becomes(p, "daemon", "exiting")
  /\ UNCHANGED <<file, quit, pc, pid, again, hasty>>

\* The static ExitCaller.
Unlink(p) ==
  /\ Becomes(p, "exiting", "ending")
  /\ file' = None
  /\ UNCHANGED <<quit, pc, pid, again, hasty>>

\* The end of a process that exits, crashes, or takes its SIGQUIT, which runs no
\* exit handler.
Die(p) ==
  /\ proc[p] # "free"
  /\ proc' = [proc EXCEPT ![p] = "free"]
  /\ quit' = quit \ {p}
  /\ UNCHANGED <<file, pc, pid, again, hasty>>

\* Another program gets the pid; "foreign" if it runs as somebody else.
Reuse(p) == \E owner \in {"other", "foreign"} :
  /\ Becomes(p, "free", owner)
  /\ UNCHANGED <<file, quit, pc, pid, again, hasty>>

Next ==
  \/ \E s \in Shells :
       \/ \E cmd \in {"start", "stop", "restart"} : Command(s, cmd)
       \/ GetPidFile(s, "restart", "look") \/ GetPidFile(s, "start", "check")
       \/ GetPidFile(s, "stop", "kill")
       \/ Look(s) \/ Check(s) \/ Fork(s)
       \/ Kill(s) \/ KillAgain(s) \/ Stopped(s) \/ GiveUp(s)
  \/ \E p \in Pids :
       Open(p) \/ Write(p) \/ WriteInVain(p) \/ Exit(p) \/ Unlink(p) \/ Die(p) \/ Reuse(p)

Spec == Init /\ [][Next]_vars

-----------------------------------------------------------------------------
(* Properties *)

\* The pid file names every daemon that runs, so that there is one at most and
\* stop finds it: through crashes that leave the file behind, pids that other
\* programs get, a stop that gives up and a daemon that unlinks the file late,
\* as long as no command has been given before the child of the one before had
\* written the file.  (A start before that finds no pid, and there are two.)
AllNamed == \A p \in Pids : proc[p] \in {"daemon", "exiting"} => file = p
NamesDaemon == ~hasty => AllNamed
=============================================================================
