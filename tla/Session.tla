------------------------------ MODULE Session -------------------------------
(***************************************************************************)
(* Sessions: runs of the command line utility (putScript, getScript and    *)
(* utilitySendCmd in xplevent.c) that talk to the daemon over its command  *)
(* sockets, and the daemon's side of them (commandSocketListener and       *)
(* clientCommandListener in monitor.c, driven by poll.c).                  *)
(*                                                                         *)
(* A run of the utility makes one connection; the same name stands for the *)
(* run, its connection and the daemon's data for it.  The daemon has one   *)
(* thread: it takes a batch of ready descriptors from the kernel, handles  *)
(* them one by one, and reads one line of a client at a time.  Utility     *)
(* runs and the daemon may be stopped at any time; the daemon stops itself *)
(* when it writes to a run that has gone.                                  *)
(***************************************************************************)
EXTENDS ScriptReceiver, FiniteSets

CONSTANTS
  Clients,    \* runs of the utility
  Plans,      \* what they may be asked to do together
  Stored,     \* the scripts in the database at first
  Listener,   \* the poll entry of the listening socket
  MaxEvents,  \* events in a batch (4 in the code)
  MaxFD,      \* descriptors that the daemon may have for its clients
  MaxSlow     \* bound on the reads that time out within a line

Jobs == [kind : {"put", "get", "cmd"}, name : Names, text : Texts]

ASSUME SessionAssumption ==
  /\ Plans \subseteq [Clients -> Jobs]
  /\ Stored \in [Names -> Texts \union {None}]
  /\ None \notin Texts /\ None \notin Clients
  /\ Listener \notin Clients
  /\ MaxEvents \in Nat \ {0} /\ MaxFD \in Nat /\ MaxSlow \in Nat

VARIABLES
  job,       \* what each run does; for a "put", text is its file
  pc,        \* where each run of the utility is
  sent,      \* the number of lines that it has written
  file,      \* the receiver of a "get"
  up,        \* lines on their way to the daemon
  down,      \* lines on their way to the run
  srv,       \* the daemon's end of the connection
  fd,        \* its descriptor, or 0
  rcv,       \* the daemon's receiver, cdp->rcvInfo, or None
  entries,   \* the poll entries of connections, in order
  batch,     \* the events of the last epoll_pwait that are still to be handled
  writing,   \* the connection whose answer the daemon still writes, or None
  running,   \* the daemon runs
  db,        \* the scripts in the database
  saved,     \* history: the script that was saved from the connection
  fetched,   \* history: the script that was sent on the connection
  slow,      \* history: connections on which a read timed out within a line
  eof        \* history: runs that ended at the end of the connection

cliVars  == <<pc, sent, file, eof>>
netVars  == <<up, down>>
srvVars  == <<srv, fd, rcv, entries, batch, writing, running>>
dataVars == <<db, saved, fetched>>
vars     == <<cliVars, netVars, srvVars, dataVars, slow, job>>

Ended == {"uploaded", "received", "answered", "failed"}

Init ==
  /\ job \in Plans
  /\ pc = [c \in Clients |-> "start"]
  /\ sent = [c \in Clients |-> 0]
  /\ file = [c \in Clients |-> NewReceiver]
  /\ up = [c \in Clients |-> <<>>]
  /\ down = [c \in Clients |-> <<>>]
  /\ srv = [c \in Clients |-> "none"]
  /\ fd = [c \in Clients |-> 0]
  /\ rcv = [c \in Clients |-> None]
  /\ entries = <<>>
  /\ batch = {}
  /\ writing = None
  /\ running = TRUE
  /\ db = Stored
  /\ saved = [c \in Clients |-> None]
  /\ fetched = [c \in Clients |-> None]
  /\ slow = {}
  /\ eof = {}

Connected(c) == pc[c] \in {"send", "wait"}

----------------------------------------------------------------------------
(* The utility.                                                            *)

\* The lines that a run writes.
Request(c) ==
  CASE job[c].kind = "put" -> <<Line("rs", job[c].name)>> \o ScriptLines(job[c].name, job[c].text)
    [] job[c].kind = "get" -> <<Line("ss", job[c].name)>>
    [] job[c].kind = "cmd" -> <<Line("cl", None)>>

\* SocketConnectIP: without a daemon the utility gives up.
Connect(c) ==
  /\ pc[c] = "start"
  /\ IF running
     THEN pc' = [pc EXCEPT ![c] = "send"] /\ srv' = [srv EXCEPT ![c] = "backlog"]
     ELSE pc' = [pc EXCEPT ![c] = "failed"] /\ UNCHANGED srv
  /\ UNCHANGED <<sent, file, eof, netVars, fd, rcv, entries, batch, writing,
                 running, dataVars, slow, job>>

\* SocketPrintf, whose result is ignored; then the wait for the answer.
Write(c) ==
  /\ pc[c] = "send"
  /\ sent' = [sent EXCEPT ![c] = @ + 1]
  /\ up' = IF srv[c] \in {"backlog", "open"}
           THEN [up EXCEPT ![c] = Append(@, Request(c)[sent[c] + 1])]
           ELSE up
  /\ pc' = [pc EXCEPT ![c] = IF sent'[c] = Len(Request(c)) THEN "wait" ELSE @]
  /\ UNCHANGED <<file, eof, down, srvVars, dataVars, slow, job>>

\* A mutant of Answer: an upload is not told from a failed one.
AnswerBlind(c, l) == IF job[c].kind = "put" THEN "uploaded" ELSE "answered"

\* The outcome for a line that answers.
Answer(c, l) ==
  CASE job[c].kind = "put" -> IF l.tag = "er" THEN "failed" ELSE "uploaded"
    [] job[c].kind = "cmd" -> "answered"
    [] job[c].kind = "get" ->
         LET r == Receive(file[c], l)
         IN CASE r.state = "finished" -> "received"
              [] r.state = "error"    -> "failed"
              [] OTHER                -> "wait"

\* A line is read.
Read(c) ==
  /\ pc[c] = "wait" /\ down[c] # <<>>
  /\ LET l == Head(down[c])
     IN /\ pc' = [pc EXCEPT ![c] = Answer(c, l)]
        /\ file' = IF job[c].kind = "get"
                   THEN [file EXCEPT ![c] = Receive(@, l)] ELSE file
  /\ down' = [down EXCEPT ![c] = Tail(@)]
  /\ UNCHANGED <<sent, eof, up, srvVars, dataVars, slow, job>>

\* The end of the connection is read: an empty line, which is no error.
ReadEOF(c) ==
  /\ pc[c] = "wait" /\ down[c] = <<>> /\ srv[c] \in {"denied", "closed"}
  /\ pc' = [pc EXCEPT ![c] = CASE job[c].kind = "put" -> "uploaded"
                               [] job[c].kind = "get" -> "received"
                               [] job[c].kind = "cmd" -> "failed"]
  /\ eof' = eof \union {c}
  /\ UNCHANGED <<sent, file, netVars, srvVars, dataVars, slow, job>>

\* The run is killed, a signal or an error ends it, or its read times out.
GiveUp(c) ==
  /\ Connected(c)
  /\ pc' = [pc EXCEPT ![c] = "failed"]
  /\ UNCHANGED <<sent, file, eof, netVars, srvVars, dataVars, slow, job>>

----------------------------------------------------------------------------
(* The poller.                                                             *)

EntryOf(c) == [fd |-> fd[c], conn |-> c]

Registered == {entries[i].conn : i \in 1 .. Len(entries)}

\* A connection with a line, or at its end, is ready, and the listening
\* socket with a connection that is not accepted.
Ready ==
  {c \in Registered : srv[c] = "open" /\ (up[c] # <<>> \/ ~Connected(c))}
    \union (IF \E c \in Clients : srv[c] = "backlog" THEN {Listener} ELSE {})

\* The daemon goes on: it waits for no write.
GoesOn == running /\ writing = None

\* PollWait.
PollWait ==
  /\ GoesOn /\ batch = {} /\ Ready # {}
  /\ \E b \in SUBSET Ready :
       /\ Cardinality(b) =
            IF Cardinality(Ready) < MaxEvents THEN Cardinality(Ready) ELSE MaxEvents
       /\ batch' = b
  /\ UNCHANGED <<cliVars, netVars, srv, fd, rcv, entries, writing, running,
                 dataVars, slow, job>>

\* A mutant of UnReg: the entry stays in the list.
NoUnReg(f) == entries

\* removePollItem.
Without(i) == SubSeq(entries, 1, i - 1) \o SubSeq(entries, i + 1, Len(entries))

\* PollUnRegEvent: the first entry with the descriptor.
UnReg(f) ==
  Without(CHOOSE i \in 1 .. Len(entries) :
            entries[i].fd = f /\ \A j \in 1 .. i - 1 : entries[j].fd # f)

----------------------------------------------------------------------------
(* The daemon.                                                             *)

FreeFDs == (1 .. MaxFD) \ {fd[c] : c \in Clients}

Lowest(f) == f \in FreeFDs /\ \A g \in FreeFDs : f <= g

\* commandSocketListener.  The access control list allows the connection or
\* not; a socket that is denied is shut down and stays open.  Without a free
\* descriptor nothing can be accepted.
Accept ==
  /\ GoesOn /\ Listener \in batch
  /\ batch' = batch \ {Listener}
  /\ IF FreeFDs = {}
     THEN UNCHANGED <<srv, fd, entries>>
     ELSE \E c \in {d \in Clients : srv[d] = "backlog"}, f \in 1 .. MaxFD :
            /\ Lowest(f)
            /\ fd' = [fd EXCEPT ![c] = f]
            /\ \/ /\ srv' = [srv EXCEPT ![c] = "denied"]
                  /\ UNCHANGED entries
               \/ /\ srv' = [srv EXCEPT ![c] = "open"]
                  /\ entries' = Append(entries, [fd |-> f, conn |-> c])
  /\ UNCHANGED <<cliVars, netVars, rcv, writing, running, dataVars, slow, job>>

Handles(c) == GoesOn /\ c \in batch /\ batch' = batch \ {c}

\* A mutant of AtEnd: the end is not seen while a script is received.
AtEndIdle(c) == up[c] = <<>> /\ ~Connected(c) /\ rcv[c] = None

\* The line that is read is empty: the end of the connection, or a blank line.
AtEnd(c) ==
  \/ up[c] = <<>> /\ ~Connected(c)
  \/ up[c] # <<>> /\ Head(up[c]).tag = "blank"

\* The connection is removed.
Drop(c) ==
  /\ Handles(c) /\ AtEnd(c)
  /\ entries' = UnReg(fd[c])
  /\ srv' = [srv EXCEPT ![c] = "closed"]
  /\ fd' = [fd EXCEPT ![c] = 0]
  /\ rcv' = [rcv EXCEPT ![c] = None]
  /\ up' = [up EXCEPT ![c] = <<>>]
  /\ UNCHANGED <<cliVars, down, writing, running, dataVars, slow, job>>

\* The read of a line times out within the line: what was read is lost, and
\* the rest is read as a line later.
TimeOut(c) ==
  /\ Handles(c)
  /\ up[c] # <<>> /\ Head(up[c]).tag \notin {"blank", "short", "rest"}
  /\ Cardinality(slow) < MaxSlow
  /\ \E tag \in {"short", "blank", "rest"} :
       up' = [up EXCEPT ![c] = <<Line(tag, None)>> \o Tail(@)]
  /\ slow' = slow \union {c}
  /\ UNCHANGED <<cliVars, down, srv, fd, rcv, entries, writing, running,
                 dataVars, job>>

\* A line is read that is not empty.
Takes(c) ==
  /\ Handles(c)
  /\ up[c] # <<>> /\ Head(up[c]).tag # "blank"
  /\ up' = [up EXCEPT ![c] = Tail(@)]
  /\ UNCHANGED <<cliVars, srv, fd, entries, running, slow, job>>

\* SocketPrintf: the lines are on their way, and Written or BrokenPipe follows.
Reply(c, ls) ==
  /\ down' = [down EXCEPT ![c] = @ \o ls]
  /\ writing' = c

NoReply == UNCHANGED <<down, writing>>

\* interpretClientCommand: whether a command is known and succeeds.
Obeyed == {"ok", "er"}

\* A line outside the reception of a script: a command, the request for a
\* script, the announcement of one, or nothing known.
Command(c) ==
  /\ Takes(c) /\ rcv[c] = None
  /\ LET l == Head(up[c])
     IN \/ /\ l.tag = "cl"
           /\ \E tag \in Obeyed : Reply(c, <<Line(tag, None)>>)
           /\ UNCHANGED <<rcv, dataVars>>
        \/ /\ l.tag = "ss"
           /\ IF db[l.arg] = None
              THEN Reply(c, <<Line("er", None)>>) /\ UNCHANGED fetched
              ELSE /\ Reply(c, ScriptLines(l.arg, db[l.arg]))
                   /\ fetched' = [fetched EXCEPT ![c] = db[l.arg]]
           /\ UNCHANGED <<rcv, db, saved>>
        \/ /\ l.tag = "rs"
           /\ rcv' = [rcv EXCEPT ![c] = NewReceiver]
           /\ NoReply /\ UNCHANGED dataVars
        \/ /\ l.tag \notin {"cl", "ss", "rs"}
           /\ NoReply /\ UNCHANGED <<rcv, dataVars>>

\* A mutant of Outcome: what was received before an error is saved.
SaveAnyway(r) == TRUE

\* Only a script that was received without an error is saved.
Outcome(r) == r.state = "finished"

\* A line within the reception of a script; its end is answered.  DBIRScript
\* may fail (Database has what it promises).
ReceiveLine(c) ==
  /\ Takes(c) /\ rcv[c] # None
  /\ LET r == Receive(rcv[c], Head(up[c]))
     IN IF ~Done(r)
        THEN rcv' = [rcv EXCEPT ![c] = r] /\ NoReply /\ UNCHANGED dataVars
        ELSE /\ rcv' = [rcv EXCEPT ![c] = None]
             /\ UNCHANGED fetched
             /\ \/ /\ Outcome(r)
                   /\ db' = [db EXCEPT ![r.name] = r.text]
                   /\ saved' = [saved EXCEPT ![c] = r.text]
                   /\ Reply(c, <<Line("ok", None)>>)
                \/ /\ Reply(c, <<Line("er", None)>>)
                   /\ UNCHANGED <<db, saved>>

\* The answer is written.
Written ==
  /\ writing # None
  /\ writing' = None
  /\ UNCHANGED <<cliVars, netVars, srv, fd, rcv, entries, batch, running,
                 dataVars, slow, job>>

\* The daemon is stopped: the connections end, with what is not yet saved.
Stop ==
  /\ running
  /\ running' = FALSE
  /\ batch' = {} /\ entries' = <<>> /\ writing' = None
  /\ srv' = [c \in Clients |-> IF srv[c] = "none" THEN "none" ELSE "closed"]
  /\ fd' = [c \in Clients |-> 0]
  /\ rcv' = [c \in Clients |-> None]
  /\ up' = [c \in Clients |-> <<>>]
  /\ UNCHANGED <<cliVars, down, dataVars, slow, job>>

\* The run has gone before the last write of the answer: it may raise SIGPIPE,
\* which the daemon does not ignore.
BrokenPipe ==
  /\ writing # None /\ ~Connected(writing)
  /\ Stop

----------------------------------------------------------------------------
Utility(c) == Connect(c) \/ Write(c) \/ Read(c) \/ ReadEOF(c)

Handler(c) == Drop(c) \/ TimeOut(c) \/ Command(c) \/ ReceiveLine(c)

Daemon ==
  \/ PollWait \/ Accept \/ Written \/ BrokenPipe
  \/ \E c \in Clients : Handler(c)

Next ==
  \/ \E c \in Clients : Utility(c) \/ GiveUp(c)
  \/ Daemon
  \/ Stop

SafeSpec == Init /\ [][Next]_vars

\* The daemon's thread and the runs of the utility go on.
Spec == SafeSpec /\ WF_vars(Daemon) /\ \A c \in Clients : WF_vars(Utility(c))

----------------------------------------------------------------------------
(* Properties.                                                             *)

TypeOK ==
  /\ job \in [Clients -> Jobs]
  /\ pc \in [Clients -> {"start", "send", "wait"} \union Ended]
  /\ \A c \in Clients : sent[c] \in 0 .. Len(Request(c))
  /\ file \in [Clients -> Receivers]
  /\ up \in [Clients -> Seq(Lines)] /\ down \in [Clients -> Seq(Lines)]
  /\ srv \in [Clients -> {"none", "backlog", "open", "denied", "closed"}]
  /\ fd \in [Clients -> 0 .. MaxFD]
  /\ rcv \in [Clients -> Receivers \union {None}]
  /\ entries \in Seq([fd : 1 .. MaxFD, conn : Clients])
  /\ batch \subseteq Clients \union {Listener}
  /\ writing \in Clients \union {None}
  /\ running \in BOOLEAN
  /\ db \in [Names -> Texts \union {None}]
  /\ saved \in [Clients -> Texts \union {None}]
  /\ fetched \in [Clients -> Texts \union {None}]
  /\ slow \subseteq Clients /\ eof \subseteq Clients

(***************************************************************************)
(* A script is saved only whole: what the daemon saves from a connection   *)
(* is the script that the run was given, blank lines apart, whatever other *)
(* runs do and whenever the run, or the daemon, is stopped - unless a read *)
(* timed out within a line; and the database has nothing else.             *)
(***************************************************************************)
SavedWhole ==
  /\ \A c \in Clients \ slow :
       saved[c] # None => job[c].kind = "put" /\ saved[c] = NonBlank(job[c].text)
  /\ \A n \in Names :
       \/ db[n] = Stored[n]
       \/ \E c \in Clients : job[c].name = n /\ saved[c] # None /\ db[n] = saved[c]

(***************************************************************************)
(* What the utility reports as a success is one: an upload was saved, and  *)
(* a script received is the one that the daemon had - if the report comes  *)
(* from an answer and not from the end of the connection.                  *)
(***************************************************************************)
Truly(c) ==
  /\ pc[c] = "uploaded" => saved[c] # None
  /\ pc[c] = "received" => /\ fetched[c] # None
                           /\ file[c].text = NonBlank(fetched[c])

AnswerTrue == \A c \in Clients \ eof : Truly(c)

(***************************************************************************)
(* The end of the string is within the buffer, in the daemon and in the    *)
(* utility, for every length of lines (monitor.c:1280).                    *)
(***************************************************************************)
BufferHolds ==
  \A c \in Clients :
    /\ file[c].len < file[c].size
    /\ rcv[c] # None => rcv[c].len < rcv[c].size

(***************************************************************************)
(* The pointers in a batch stay valid while its events are handled, and    *)
(* the poll entries are the open connections, each with a descriptor of    *)
(* its own, though descriptors are used again (poll.c:216).                *)
(***************************************************************************)
EntriesLive ==
  /\ batch \subseteq Registered \union {Listener}
  /\ Registered = {c \in Clients : srv[c] = "open"}
  /\ \A i \in 1 .. Len(entries) : entries[i] = EntryOf(entries[i].conn)
  /\ \A c, d \in Clients : c # d /\ fd[c] = fd[d] => fd[c] = 0

(***************************************************************************)
(* A run that waits is answered, or reads the end of the connection, if no *)
(* read times out and descriptors are left: every error in a script is     *)
(* reported to the one who sent it.                                        *)
(***************************************************************************)
Answered ==
  \A c \in Clients :
    (pc[c] = "wait") ~> (pc[c] # "wait" \/ c \in slow \/ FreeFDs = {})

(***************************************************************************)
(* The daemon gives up its data for a connection once the utility's end is *)
(* closed, wherever in a transfer that was.                                *)
(***************************************************************************)
Forgotten ==
  \A c \in Clients :
    (pc[c] \in Ended /\ srv[c] = "open") ~> (srv[c] = "closed" /\ rcv[c] = None)

============================================================================
