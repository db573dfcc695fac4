------------------------------ MODULE PidFile -------------------------------
(***************************************************************************)
(* Starts and ends of the daemon and its PID file (main, xpleventShutdown  *)
(* and signalHandler in xplevent.c, UtilPIDRead and UtilPIDWrite in        *)
(* util.c).                                                                *)
(*                                                                         *)
(* A start in the foreground is one process.  A start in the background    *)
(* is three: the parent, which checks the PID file and forks; its child,   *)
(* the session leader, which writes the file and forks; and the daemon.    *)
(* Each of them runs the exit handler when it exits, and so does a child   *)
(* of the daemon whose command cannot be executed.  Starts may overlap,    *)
(* and a process may be killed at any time.  A process has a number from   *)
(* the kernel, which may be one that another process, now gone, has left   *)
(* in the PID file.                                                        *)
(***************************************************************************)
EXTENDS Naturals

CONSTANTS
  Starts,  \* starts of the program
  Numbers, \* the kernel's numbers for processes
  None,    \* no file
  Empty    \* a file without a number

Roles == {"parent", "leader", "daemon"}
Procs == Starts \X Roles

ASSUME PidFileAssumption == None \notin Numbers /\ Empty \notin Numbers /\ None # Empty

VARIABLES
  ground,  \* "fore" or "back" for each start
  pc,      \* where each process is
  number,  \* the number of each process
  others,  \* the numbers of other programs
  file,    \* what the PID file has in it
  wrote,   \* weWroteThePIDFile of each process
  raced,   \* history: a check passed while another start was yet to write
  unsaved, \* history: a write of the file failed
  spawned, \* history: a child of a daemon could not execute its command
  again,   \* history: a number that was in the file was given to a process
  killed   \* history: a process did not exit in order

history == <<raced, unsaved, spawned, again, killed>>
vars    == <<ground, pc, number, others, file, wrote, history>>

Init ==
  /\ ground \in [Starts -> {"fore", "back"}]
  /\ pc = [p \in Procs |-> "none"]
  /\ number \in {[p \in Procs |-> n] : n \in Numbers}
  /\ others = {}
  /\ file = None
  /\ wrote = [p \in Procs |-> FALSE]
  /\ raced = FALSE /\ unsaved = FALSE /\ spawned = FALSE
  /\ again = FALSE /\ killed = FALSE

Goto(p, state) == pc' = [pc EXCEPT ![p] = state]

Exists(p) == pc[p] \notin {"none", "dead"}

\* The numbers that the kernel may give: those of processes that are gone too.
Unused == {n \in Numbers \ others : \A p \in Procs : Exists(p) => number[p] # n}

\* A new process p of the daemon gets a number.
Gets(p, n) ==
  /\ n \in Unused
  /\ number' = [number EXCEPT ![p] = n]
  /\ again' = (again \/ n = file)

Start(s) ==
  /\ pc[<<s, "parent">>] = "none"
  /\ \E n \in Numbers : Gets(<<s, "parent">>, n)
  /\ Goto(<<s, "parent">>, "check")
  /\ UNCHANGED <<ground, others, file, wrote, raced, unsaved, spawned, killed>>

\* A mutant of AlreadyRunning: kill(pid, 0) is left out.
NumberThere(f) == f \in Numbers

\* UtilPIDRead: there is a process with the number in the file, which may be
\* that of another program, whoever owns it, or of the start that asks.
AlreadyRunning(f) ==
  /\ f \in Numbers
  /\ f \in others \/ \E p \in Procs : Exists(p) /\ number[p] = f

\* The check of this process, or of its parent, is over and its write is not.
Unwritten(p) == pc[p] \in {"write", "fork"}

\* The check in main, and fatal() if it fails.
Check(p) ==
  /\ pc[p] = "check"
  /\ \/ AlreadyRunning(file) /\ Goto(p, "exit")
     \/ /\ ~AlreadyRunning(file)
        /\ Goto(p, IF ground[p[1]] = "fore" THEN "write" ELSE "fork")
  /\ raced' = (raced \/ (~AlreadyRunning(file) /\ \E q \in Procs : Unwritten(q)))
  /\ UNCHANGED <<ground, number, others, file, wrote, unsaved, spawned, again, killed>>

\* A mutant of Claims: the flag says whether the write succeeded.
ClaimsIfWritten(f, p) == f = number[p]

\* weWroteThePIDFile is set whatever UtilPIDWrite returned.
Claims(f, p) == TRUE

\* UtilPIDWrite: it cannot open the file, or cannot write into it.
Write(p) ==
  /\ pc[p] = "write"
  /\ \E f \in {number[p], file, Empty} :
       /\ file' = f
       /\ unsaved' = (unsaved \/ f # number[p])
       /\ wrote' = [wrote EXCEPT ![p] = Claims(f, p)]
  /\ Goto(p, IF p[2] = "parent" THEN "runs" ELSE "fork")
  /\ UNCHANGED <<ground, number, others, raced, spawned, again, killed>>

Child(p) == <<p[1], IF p[2] = "parent" THEN "leader" ELSE "daemon">>

\* fork, after which the parent exits; the child has a copy of the flag.  A
\* fork that fails, or setsid before it, is fatal.
Fork(p) ==
  /\ pc[p] = "fork"
  /\ \/ /\ pc' = [pc EXCEPT ![p] = "exit",
                            ![Child(p)] = IF p[2] = "parent" THEN "write" ELSE "runs"]
        /\ \E n \in Numbers : Gets(Child(p), n)
        /\ wrote' = [wrote EXCEPT ![Child(p)] = wrote[p]]
     \/ Goto(p, "exit") /\ UNCHANGED <<number, wrote, again>>
  /\ UNCHANGED <<ground, others, file, raced, unsaved, spawned, killed>>

\* A signal (SIGHUP too in the foreground), or an error, ends the daemon.
End(p) ==
  /\ pc[p] = "runs"
  /\ Goto(p, "exit")
  /\ UNCHANGED <<ground, number, others, file, wrote, history>>

\* A mutant of Unlinks: the flag is not looked at.
UnlinksAlways(p) == TRUE

Unlinks(p) == wrote[p]

\* exit and xpleventShutdown.
Exit(p) ==
  /\ pc[p] = "exit"
  /\ file' = IF Unlinks(p) THEN None ELSE file
  /\ Goto(p, "dead")
  /\ UNCHANGED <<ground, number, others, wrote, history>>

Kill(p) ==
  /\ Exists(p)
  /\ Goto(p, "dead")
  /\ killed' = TRUE
  /\ UNCHANGED <<ground, number, others, file, wrote, raced, unsaved, spawned, again>>

\* UtilSpawn's child cannot execute its command: it exits with a copy of the
\* daemon's flag, and the daemon runs on.
SpawnFails(p) ==
  /\ pc[p] = "runs"
  /\ file' = IF Unlinks(p) THEN None ELSE file
  /\ spawned' = TRUE
  /\ UNCHANGED <<ground, pc, number, others, wrote, raced, unsaved, again, killed>>

\* Another program gets a number.  A process that has ended and that nobody has
\* waited for keeps its own in the same way.
Taken(n) ==
  /\ n \in Unused
  /\ others' = others \union {n}
  /\ again' = (again \/ n = file)
  /\ UNCHANGED <<ground, pc, number, file, wrote, raced, unsaved, spawned, killed>>

Returned(n) ==
  /\ n \in others
  /\ others' = others \ {n}
  /\ UNCHANGED <<ground, pc, number, file, wrote, history>>

Next ==
  \/ \E s \in Starts : Start(s)
  \/ \E p \in Procs : Check(p) \/ Write(p) \/ Fork(p) \/ Exit(p) \/ End(p)
  \/ \E p \in Procs : Kill(p) \/ SpawnFails(p)
  \/ \E n \in Numbers : Taken(n) \/ Returned(n)

Spec == Init /\ [][Next]_vars

----------------------------------------------------------------------------
(* Properties.                                                             *)

TypeOK ==
  /\ ground \in [Starts -> {"fore", "back"}]
  /\ pc \in [Procs -> {"none", "check", "write", "fork", "runs", "exit", "dead"}]
  /\ number \in [Procs -> Numbers]
  /\ others \subseteq Numbers
  /\ file \in Numbers \union {None, Empty}
  /\ wrote \in [Procs -> BOOLEAN]
  /\ raced \in BOOLEAN /\ unsaved \in BOOLEAN /\ spawned \in BOOLEAN
  /\ again \in BOOLEAN /\ killed \in BOOLEAN

Foreground == \A s \in Starts : pc[<<s, "parent">>] # "none" => ground[s] = "fore"

(***************************************************************************)
(* As long as a daemon runs in the foreground the PID file has its number, *)
(* so that no second one runs: whatever starts are refused, killed or end, *)
(* and whatever numbers they have had before, if starts do not overlap,    *)
(* the file can be written, and no command that a script spawns fails to   *)
(* be executed (UtilSpawn's child then removes the file: see SpawnFails).  *)
(***************************************************************************)
FileNamesDaemon ==
  Foreground /\ ~raced /\ ~unsaved /\ ~spawned =>
    \A p \in Procs : pc[p] = "runs" => file = number[p]

(***************************************************************************)
(* When every process has exited in order there is no PID file left, also  *)
(* if starts overlapped or a write of the file failed half way.            *)
(***************************************************************************)
NothingLeft ==
  ~killed /\ (\A p \in Procs : ~Exists(p)) => file = None

(***************************************************************************)
(* The check in main refuses a start only for a process of an earlier one  *)
(* that has written the PID file and has yet to end: not for a number that *)
(* a crash has left, nor for another start that is itself refused, however *)
(* starts overlap.  Excepted is that the kernel has given the number in    *)
(* the file once more, to another program or to a start: kill(pid, 0) then *)
(* finds that process, and a start that has got the number finds itself    *)
(* and is refused although nothing of the daemon runs.                     *)
(***************************************************************************)
RefusedForWriter ==
  [][\A p \in Procs :
       Check(p) /\ pc'[p] = "exit" /\ ~again =>
         \E q \in Procs \ {p} : Exists(q) /\ wrote[q] /\ number[q] = file]_vars

(***************************************************************************)
(* "Make sure we are not already running (.pid file check)"                *)
(* (xplevent.c:1059): when a start finds that it may go on, no daemon runs *)
(* that was started before, if starts do not overlap and the file can be   *)
(* written.                                                                *)
(***************************************************************************)
NotAlreadyRunning ==
  [][\A p \in Procs :
       Check(p) /\ ~raced' /\ ~unsaved /\ ~spawned /\ (\E q \in Procs : pc[q] = "runs")
         => pc'[p] = "exit"]_vars

============================================================================
