# xplevent: models and proofs

xplevent is a home automation daemon. It listens to the xPL messages that a
local hub forwards, runs a script when a message of type *trigger* arrives from
a known source, runs other scripts at given times, and lets a command line
utility (the same program, started differently) upload and download scripts
and send commands. Scripts, variables, logs and the schedule are in a SQLite
file.

This directory has TLA+ models of its parts, the instances on which TLC checks
them, and proofs that TLAPS checks. `PROJECT.json` lists the runs, the source
lines behind every definition, the hazards and the findings.

## 1. The system

### Threads, processes and events

    hub (another process)                    utility runs (other processes)
        | UDP, loopback                           | TCP, lines of text
        v                                         v
    RX thread --list+mutex, eventfd--> main thread (epoll loop, poll.c)
    (xplrx.c)                            |  rxReadyAction   (xplcore.c)
                                         |  xplTick, 1 s    (xplcore.c)
                                         |  tickHandler, 6 s (monitor.c)
                                         |  commandSocketListener,
                                         |  clientCommandListener (monitor.c)
                                         |  signalHandler   (xplevent.c)
                                         v
                                       SQLite file  <---- utility with -D

There are two threads. The main thread waits in `PollWait`, takes a batch of at
most four events, and calls the handler of each to its end; no handler gives
up the thread except by waiting inside a read with a time-out. So everything
but the receiver is a sequence of whole handlers, and what interleaves is the
order of handlers, the RX thread, the other ends of the connections, and other
processes at the database.

### Components

| Component | State | Operations | Hard about it | Module |
|---|---|---|---|---|
| Receiver (xplrx.c) | list of strings, two eventfds, watchdog counter | enqueue, dequeue, tick, terminate | two threads; notification and farewell share an eventfd; a silent thread | XplRx |
| xPL core (xplcore.c) | list of services: state of the hub search, heartbeat timer, listener and report mode | create, enable, disable, destroy, add and remove listener, tick, dispatch | the hub loses messages, comes and goes; requests, echoes and timer meet in any order | XplService |
| Scheduler (scheduler.c, part of monitor.c) | list of entries, minute of the last walk, times of the sun, @startup flag | load, start, walk, reload | turns of hours and days, failing loads, reload at any time | Scheduler |
| Client sessions (monitor.c, xplevent.c, poll.c, socket.c) | connections, receiver of a script, poll entries and batch, descriptors | connect, read a line, reply, drop | any end may go at any line; partial lines; descriptors used again | Session, ScriptReceiver |
| Database (db.c) | rows, transactions | five updates, reads | two processes; statements that fail; masked errors | Database |
| Trigger dispatch (monitor.c) | address of the last message, hashes of the script | name a trigger, find its script, run it, log it | other processes edit between two reads; the name depends on schema and script | Trigger |
| Script language (grammar.y, parser.c) | p-code, hashes of variables | compile, execute, check | jumps found by search; errors stop or are skipped | Pcode |
| Messages (xplcore.c, parser.c) | hash of a command, buffers | fill, format, parse | a datagram cut off; parts that do not fit | XplMessage |
| Start and exit (xplevent.c, util.c) | PID file, exit handlers | start, fork twice, exit | check and write are two steps; three processes share an exit handler | PidFile |
| Access control, sockets (socket.c, xplevent.c) | list of networks, listening sockets | allow or deny; print and read lines | boundaries of masks; partial reads and writes | Access, LineIO, LineChannel, CommandSocket |
| Configuration (confread.c) | sections and keys | scan, look up | keys twice, sections twice, last line | ConfRead |
| Poller (poll.c) | entries, events | register, wait, unregister | unregister inside a batch | in Session |
| Logging, sun | | | sequential | not modelled |

How they interact: `rxReadyAction` takes strings from the receiver and calls
the listener of the monitor, which runs scripts, which read and write the
database and send messages through a service. `tickHandler` waits for the
state `XPL_HUB_CONFIRMED` of the service before it makes the scheduler. The
sessions read and write scripts in the database and have the scheduler loaded
again. The interfaces are kept small in the models: the hub's confirmation is
an event in Scheduler (`HubIsConfirmed`) and in Trigger (`HubConfirmed`), and a
result in XplService;
the storing of a script is one step in Session that may fail, and a sequence of
statements in Database; a line is one element in Session, and bytes in LineIO,
with LineChannel between them; a transaction of another process is two steps in
Trigger, its lock and its commit, which is what Database proves of it.

### What makes each part correct

* Receiver: every string that was taken from the socket is handed over once and
  in order, a string never waits unannounced, the watchdog ends the daemon for
  a silent thread and for no other, shutdown ends and does not pull the
  header from under the thread.
* Services: the hub's confirmation rests on an echo of our own heartbeat; the
  hub is found however late it comes; a hub that knows us never has reason to
  forget us; messages reach those they are for.
* Scheduler: what is due is run in its minute and once.
* Sessions: a script is saved whole or not at all; an answer is true; each run
  is answered; the daemon forgets a connection that has gone.
* Database: an update replaces a row as a whole for those who read, whatever
  fails, and locks are given back.
* Triggers: a script is run under the address of its own message, and it is the
  one that the tables have for it.
* Messages: what is sent is what is received, and a command carries what was
  assigned since the last one.
* Start and exit: the PID file names the daemon that runs, and none is left.
* Command socket: who is served is what the configuration says, no line leaves
  its buffer, and lines arrive whole and in order.
* Scripts: what is executed is what the structure of the text says, however ifs
  are nested, and each script ends.

## 2. Plan

The modules were written in this order, the most important first: XplRx with
RxChannel and its proofs; XplService with HubDiscovery and the proofs of its
safety properties and of the refinement; Scheduler; Session with ScriptReceiver;
Database; Pcode; PidFile; Trigger; XplMessage; ConfRead, Access and LineIO, composed
in CommandSocket, with LineChannel as the promise to Session; the proofs of PidFile,
Database, Trigger, CommandSocket and of Session's EntriesLive; then the proofs of
Pcode, of the rest of Session and Trigger, of the refinement of LineChannel, of
AccessRight and of Scheduler; last the proofs of XplMessage, for which ParseBlock
became a recursive function. What could come next: the expressions and conversions of
the script language, and the command line.

The modules are written to be proved about: parameters are CONSTANTS with named
assumptions, each operation is an action, and no module but those that only TLC
uses has recursive operators.

## 3. Modules

### XplRx, RxChannel, XplRxProofs (xplrx.c; rxReadyAction, xplTick; exit)

Two program counters, `rxPc` and `mainPc`, the mutex `lock`, the list `queue`,
the eventfds `readyFD` and `controlFD`, both one second timers, the watchdog
counter. An action is the code between two points at which the other thread
can see a difference; `lock` is explicit where it is held across such a point.
`readyFD` is the set of those who have written it since it was last read, which
is what the wait in `XplRXDestroy` cannot tell apart. The RX thread may be
missing (`pthread_create` fails unnoticed), stall at any poll, or abort at
start-up when it runs before the magic number is set. `received`, `delivered`
and `gaspRead` are history. RxChannel is what the user of the receiver may rely
on: a FIFO channel until the stack is closed, and delivery while it is open.
`ImplementsChannel` is the refinement, with `inbox` the strings received and not
yet delivered.

The scheduling assumption is `MaxLag`: a thread that has not stalled serves its
timer within that many further expiries, and MaxLag + 3 < Period (in the
code 10). A watchdog without such an assumption cannot be right.

### XplService, HubDiscovery, XplCoreProofs (xplcore.c)

`svc` holds the service objects, `servList` their order, `net` the messages on
their way from the hub. `SendHeartbeat`, `Ticked`, `Seen`, `Reports`, `Stops` are
the handlers as functions of one service's record; the actions apply them to the
services. The environment is the hub, which may be up or down at any time and
forwards any part of what is sent, and the other nodes, one of which may send a
request without the pair that the code reads: the daemon ends (`NoCommand`,
`running`). HubDiscovery is the
promise behind `XplGetHubDiscoveryState`; `DiscoverySound` says that each service
implements it: initial states map to initial states, and each step to a step or
a stutter, which is proved. `age` counts ticks since the last heartbeat. An echo of an earlier
incarnation of a service counts as one of this; the code has nothing to tell it by.
RoutedRight says what a step of dispatch calls, exactly: in the modes normal and
configuration only a listener gets what is for it (`For`), unless a service before
it in the list wants configuration messages only, at which the loop over the
services ends (`Hidden`). In the modes own and everything it says nothing, as the code skips the calls that its
comments promise (findings).

Fairness: ticks and reads go on (the loop), and a heartbeat that can be sent and
forwarded infinitely often sometimes is (a strong fairness of the network,
`EchoedTick`).

### Scheduler, MonitorProofs (scheduler.c; tickHandler, schedulerLoad, schreload in monitor.c)

Time is a count of minutes; a minute passes only when a tick was handled in it
(ticks come every six seconds). The actions are `TickHandler`, `SchReload`,
`HubIsConfirmed`, `EditTable` and `MinutePasses`. `LoadAndStart` may stop half way.
`lastWalk`, `chain`, `since`, `runs` are history; they say when the last walk was,
since when walks followed each other within an hour, when the scheduler was
started and what has run in this minute.

### Session, ScriptReceiver, SessionProofs (monitor.c, xplevent.c, poll.c, socket.c)

Both ends of the connections. A run of the utility uploads, downloads or sends a
command, line by line; the daemon's loop takes a batch of ready descriptors and
handles them one by one. `MonitorRecvScript` is `Receive`, a function of the
receiver and a line, used by both ends. Of a script's line the model keeps its
length. Runs may be killed, the daemon may be stopped, a read may time out
inside a line (then what was read is lost and the rest is read as a line of its
own, `TimeOut`), the access control list may deny, descriptors may run out. An
answer takes two steps, `Reply` and `Written`: a run that has gone before the second
may end the daemon by SIGPIPE (`BrokenPipe`), which the kernel decides. That a reset
connection loses what is under way is in LineIO alone.

Fairness: the daemon's loop and each run of the utility go on unless they are
stopped.

### Database, DatabaseProofs (db.c)

A statement is an action. `BeginUpdate` .. `End` is the common course of
`DBWriteNVState`, `DBUpdateTrigLog`, `DBUpdateHeartbeatLog` and `DBIRScript`:
begin exclusive, look for the row, delete it, insert the new one, commit or roll
back. The locks are those of SQLite's rollback mode; SQLite itself is external
and modelled by what it promises. `simpleTX` reports a failing BEGIN as a
success, so that an update can go on `bare`, without its transaction.

### Pcode, PcodeProofs (grammar.y, parser.c; parseAndExecScript in monitor.c)

A script is chosen as it is read: an action per reduction of the grammar that
emits an instruction or closes an if, a syntax error or the end of the text at
any point. `Emitted` is `ParserPcodeEmit`; `EndIf` and `EndElse` install jumps by
the searches of `ParserSetJumps` (`EndsBefore`, `TestsUpTo`), which know the
nesting only from the reference count that each instruction carries; `Strays` is
the assertion in the search. The pushes of operands are folded into the
instruction that uses them. Execution is an action per kind of instruction, with
the index of the instruction for the pointer `pe`. `dry` tells the syntax check
(`ParserCheckSyntax`, no service and no database, undefined variables only
warned about) from the daemon. The result of a comparison is any. `path` of an
instruction says which branches the text has it in, and `choice` which ones the
tests have taken; ExecutedRight compares what was executed with the two. A script
whose text ends too early is executed all the same by the daemon
(`EndOfText`); ExecutedRight is about complete ones.

Fairness: texts end and the loop goes on.

### Trigger, MonitorProofs (xPLListener and its callees in monitor.c; db.c)

The daemon takes a message at a time (`at`) through the points between its
database accesses: `Listen`, then `Name` (the script "preprocess" is read, parsed
and run, or subAddress is taken from the message), `Lookup` and `Fetch` (the two
reads of `DBFetchScriptByTag` under one shared lock, `reading`), `Act` and `Log`.
Another process takes the exclusive lock (`Lock`) and edits a table (`Commit`)
anywhere between them; a read that fails is, as in the code, the same as no row.
`result` is %result{subaddress}, which a script may take from a pair of the
message before or after it fails. `pre` and `missed` are history: the preprocess
script that was read for a message, and the logs that failed. For a schema other
than three, subAddress is read unassigned: its value is any. The end of the daemon
within a message is `Fault`: a trigger without pairs, an unassigned subAddress, or a
script of `Aborts`, a subset of those that parse - half a script, an empty one, a hash
that was never assigned, all found in Pcode. Handled, that the listener is done with
a message some time, so excepts runs in which such a message or script occurs
(`Harmless`, `Sound`); it covers every script whose error the code reports.

Fairness: the daemon's thread goes on. The other processes need not do anything;
one that keeps its lock makes reads and updates fail.

### XplMessage, XplCoreProofs (sendXPLCommand in parser.c; formatMessage, parseMessage in xplcore.c)

A text is a sequence of characters, with a protocol word as one character.
`Assign` and `XplCmd` are the steps of a script, `Format` is formatMessage,
`ParseMessage` is parseMessage, with `ParseBlock` as a recursive function of the text
(`Looped`) whose state is that of the C function (`Turn`, one arm for each of its
states). In the runs its buffers for a header, for a word and for a
datagram have 5, 7 and 47 bytes instead of 64, 32 and 1501, so that each can be met
at, below and beyond its end. Messages of other nodes, and datagrams that are not
quite messages, are parsed too. `Fits` says of which messages the text can be read
back: besides the lengths and characters, no name has an equals sign, at which
parseBlock ends a name, and the schema does not begin with a blank, which it skips.

### PidFile, PidFileProofs (xplevent.c, util.c)

A process is a start and a role (parent, session leader, daemon), with a program
counter through check, fork, write, loop and exit handler, and a `number` that the
kernel gives it at a start or fork: any that no process has, those of processes
that have gone included. `others` are the numbers of other programs, which come and
go (`Taken`, `Returned`); a zombie is one of them. `file` is None, Empty (created and
not yet written) or a number. `AlreadyRunning` asks as UtilPIDRead does, whether any
process has the number in the file, so that another program, or the start itself,
may be the one that is found. Processes are killed at any time; a start may overlap
another (`raced`) or fail to write (`unsaved`); a child of UtilSpawn whose command
cannot be executed runs the exit handler (`SpawnFails`, `spawned`); the number in the
file may be given again (`again`). These history variables name the exceptions.

### ConfRead, Access, LineIO, LineChannel, CommandSocket, CommandSocketProofs

ConfRead (confread.c) is the scan of a file line by line with its errors, and the
look-up; Access (socket.c) is the making of an access control list, with the masks
octet by octet as addrMaskInit does it, and the decision about an address. Both are
pure. LineIO has `SocketPrintf` and `SocketReadLine` byte by byte, with reads and
writes of any part of what there is, time-outs, the end of a connection, its reset
(`ReadError`), and a client that sends single bytes, with a newline or without, for
as long as it likes (`Drip`). `Returns` ends a read with what the caller is given, the
length of a read that failed included, and `GivesUp` is what it makes of it.
LineChannel is what Session relies on: a queue of lines, with the exceptions that
it names (`Cut`, `TimeOut`, `Reset`) and lines begun and never ended (`PrintByte`). CommandSocket composes the four: the daemon reads the first
configuration file that there is, opens its listening sockets, decides about a
client, and exchanges lines with it; `ImplementsLines` is the refinement.

Fairness: a read of the daemon goes on (its five seconds pass) while the daemon
is not stopped. Nothing is assumed of the client, and ReadEnds says that a read ends
if bytes do not arrive for ever: each byte starts the five seconds again, so that
without the exception TLC shows the client that holds the thread (findings).

## 4. Runs

| Run | Result | What it shows |
|---|---|---|
| rx | pass | all interleavings of both threads, timers, stall, missing thread, shutdown: order, wakeups, watchdog, termination, refinement of RxChannel |
| rx_free | violation | the header can be freed while the RX thread uses it: any ready event ends the wait |
| service | pass | one service through all operations, hub and traffic: SilenceBound, RoutedRight, DiscoverySound, HubFound |
| scheduler | pass | two days and more of ticks, edits, reloads: NothingMissed, RunOnce, StartupRuns |
| session | pass | two runs at a time, with a daemon that may end at a write: SavedWhole, AnswerTrue, BufferHolds, EntriesLive, Answered, Forgotten |
| database | pass | two processes, failing statements, crashes: LocksRight, ReplacesAtomically, ReadStable |
| pcode | pass | all scripts up to the bound, in the daemon and in the syntax check: ExecutedRight, JumpsFound, ScriptEnds |
| trigger | pass | messages of every schema, any preprocess and trigger script, those that end the daemon included, an edit at any moment: NameRight, PairedRight, MostRecent, Handled |
| message | pass | scripts that assign and send, messages of others, broken datagrams: ReadsBack, CommandPairs |
| daemon | pass | two starts that overlap, are refused, killed, or end, numbers given again, commands that cannot be executed: FileNamesDaemon, NothingLeft, RefusedForWriter |
| daemon_back | violation | a daemon in the background runs without a PID file, and the next start does not see it |
| socket | pass | configuration files, addresses, lines in pieces, resets and single bytes: AccessRight, LineFits, ImplementsLines, ReadEnds |

The other disagreements met while modelling, that XPL_REPORT_EVERYTHING reports
nothing among them, need no run to be seen; they are in `PROJECT.json` under
findings. TypeOK is an invariant of the runs rx and service, and a theorem of the modules
whose proofs have TypeCorrect, SchedulerTypes or MsgTypeCorrect; in the others it
documents the variables.

### Bounds, and why they are enough

* rx: two datagrams of three kinds with a socket buffer for one: enough for a
  string in each of the buffer, the RX thread's hand and the list, for an
  overtaking notification, and for a loss in the kernel. Period 5 and MaxLag 1
  are the smallest that the assumption allows; WdogMax 1 makes the counter
  saturate; two reads at shutdown are enough for a wrong and a right one.
* service: one service, as the daemon has. Interval 8 leaves room for the
  modulus 7 of a request to matter; the search is given up after two tries, so
  that all three states of the search occur.
* scheduler: hours of three minutes and days of two hours, 15 minutes: every turn
  of an hour and of two days, with the sun rising at another minute each day and
  then not at all; tables longer than the limit, with an entry twice and with
  two @startup entries; start at every minute of the first day.
* session: two runs in every combination that differs, scripts of up to three
  lines with a blank one, one beyond the size limit, a stored script with a line
  that the receiver refuses; one read that times out; two descriptors.
* database: two processes with two operations each on a key with and one without
  a row: enough for an update against an update, a read against an update, and
  for what a process does after it went on without its transaction.
* pcode: thirteen instructions, of which three are statements: enough for an if
  with else inside of either branch of another, for three ifs nested or in a row,
  and for a sibling with the same reference count, which is where the search could
  go wrong; no statement is needed twice for that. A variable in memory and one in
  the database; a hash that is sent before or after it exists.
* trigger: two messages and one edit by another process: enough for an address or
  a result left from the first message to be used for the second, and for an edit
  between any two reads. Scripts that end, fail half way, do not parse or end the
  daemon, for each of the three kinds of schema.
* message: three steps of a script: an assignment, a command and one more of
  either, which is what a hash that is not cleared needs. Values of every length
  around the buffers; datagrams at, one below and one beyond the receive buffer.
* daemon: two starts of three processes each: one that is there already, or has
  left a file, and one that comes. Three numbers, so that there are fewer than
  processes: each is given again, to another program or to a start, the one in the
  file too. All of the exceptions need one other process. Neither starts nor numbers
  have an order, hence the symmetry (252,779 states).
* socket: octets of two bits, addresses of two and of three octets: a mask at, within
  and across octets, and the same bits in another family. A file for each case of
  the reader. A pipe of two bytes and a buffer of three, and lines that are empty,
  shorter than the buffer, as long and longer. A client sends single bytes without a
  bound on their number; MaxPart bounds only how many may be under way that do not end
  the line that is read, a carriage return excepted, which is not counted by the
  code either.

Deadlock is not checked where the system may stop: after exit (rx), when all
runs have ended (session), when all operations are done (database), when all
messages are handled (trigger), or when the bounded number of steps, starts or
lines is used up (message, daemon, socket).

## 5. Proofs

All for every value of the constants that meets the modules' assumptions.

* XplRxProofs. `TypeCorrect`; `WakeupsNotLost`, `GaspIsLast` and `NoFalseAlarm`
  from the invariant IInv, a conjunction of LockInv, StartInv, WakeInv, GaspInv,
  WdogInv and OrderInv, each proved to be kept by a lemma of its own.
  NoLostWakeup is not inductive: that the main thread polls with an empty
  eventfd says nothing of a list that it has yet to empty. WakeInv adds the
  states before the first poll, LockInv says who is in a critical section.
  WatchdogSound needs WdogInv, which counts the main thread's ticks since the
  counter was cleared against the expiries that the RX thread has yet to serve:
  one tick ahead, two in the first window, and MaxLag + 3 < Period leaves no
  room for a false alarm. `ReceiverImplementsChannel` is the safety part of the
  refinement, from OrderInv: what was received is what was delivered, what is
  queued, and what is in the RX thread's hand.
* XplCoreProofs, about XplService. `NeverSilent`: SilenceBound, by an invariant on the record
  of a service alone (RecordInv). It is inductive because a request either
  lowers the timer or adds at most two to it and is counted, and an echo sets
  the timer to one interval only while the search goes on, when the sum of age and
  timer is within one interval. `TypeCorrect` and `MessagesRouted` (RoutedRight) add StackInv, the
  types of the list, the network and the calls. `DiscoveryImplemented` is the
  refinement of HubDiscovery; it needs EchoInv - a heartbeat of ours that is on its
  way from the hub was forwarded by it - because what confirms the hub is read
  long after it was forwarded. EchoInv rests on the assumption that no other node
  uses our source tags; and MaxTries >= 2 (in the code 40) is assumed because with a
  single try a service would give the search up as it is enabled.
* XplCoreProofs, about XplMessage. `ReadsBackAlways` (ReadsBack), for messages of any
  characters and any number of pairs, and buffers of any size. It is a fact about
  parseMessage and formatMessage more than about states: the invariant MsgInv only
  says that a datagram has the text of the message it stands for and that what was
  received was parsed. The fact is proved along the text. LoopedConcat: the loop over
  two texts is the loop over the second from where it stood after the first.
  LoopedWord: a word that fits is read whole. LoopedPair and LoopedBody, by induction
  on the number of pairs: each pair is read as it was written. LoopedBlock: so is a
  block. BlockCut: a block that ends early is never done, and has begun unless nothing
  of it is there. With these, ParsesWhole, and ParsesCut for each place at which
  recvfrom may cut. There is one cut that a loop over the block alone does not
  see: just behind the header's block, where parseBlock returns no error for the
  missing one, and parseMessage takes the header's name, which has no dot, for the schema.
  `CommandPairsAlways` (CommandPairs) needs HashIsGiven: %xplout has each key once,
  with the value given last, and nothing that was not given. `MsgTypeCorrect`: whatever
  is on the net, parseMessage returns a message or none. Names of XplMessage that both
  models would have begin with Msg.
* SessionProofs. `EntriesStayLive`: EntriesLive says that the rest of a batch is
  registered, but not why the right entry is taken out when a connection is
  dropped. FDInv adds that a connection has a descriptor exactly from its
  acceptance to its end, EntryInv that no connection has two entries; then the
  first entry with a descriptor, which PollUnRegEvent removes, is the only one
  (lemma DropStep, on lemma Removed about the sequence). `ScriptsSavedWhole`,
  `AnswersAreTrue` and `BuffersHold` are about lines. None is inductive: that a
  script is saved whole when its last line is received says nothing of the lines
  before. The invariant says, for each run (CInv), how far its two ends are: UpSync
  that what is on its way is what is left of the request after the k lines that
  the daemon has taken, and that its receiver has the text of those k; GetInv and
  FileInv the same for the way back; SavedInv, OkInv and SentInv tie the row, the
  answer and what was written to it. `TypeCorrect` comes from the same steps.
* DatabaseProofs. `LocksAreRight`, `ReadsAreStable` and `UpdatesAreAtomic`, from the
  invariant LockInv - TypeInv, PhaseInv (which lock a process holds at which
  statement) and AloneInv (a writer excludes the others) - and from ProgressInv (how
  far the pending rows of an update are from the committed ones), which is needed
  because a commit makes visible what several earlier statements have done.
* MonitorProofs, about Trigger. `NamesAreRight` and `PairsAreRight`, from TypeInv, LockInv (the
  shared lock is held between the two reads and keeps writers out), ScriptsInv and
  NameInv, which follows the address from the message through `Name` to the
  statements that use it. `LogsAreRecent` (MostRecent): the log has the last run of
  a script unless a write failed. It needs LogInv, which speaks of every message
  that the daemon is done with: its row is in the log, or that of a later one under
  the same name (RecentInv); no row is of a message that is yet to come, or under two
  names (LogsInv); and who is triggered is known by the script that was read
  (HistoryInv). `TypeCorrect`.
* MonitorProofs, about Scheduler. `RunsOnce`, `NothingIsMissed` and `SchedulerTypes`.
  That what is due was run is a statement about the end of a minute; the invariant
  says what makes it so from the start of it: ClockInv that only a walk of this
  minute has run anything, and that its minute of the hour is remembered; WalkInv
  that after a tick the last walk is of this minute, if it is less than an hour ago
  (lemma SameMinute: two times with the same minute of the hour that are closer are
  the same); SunInv that the sun is that of the day, by a start on this day or by
  the walk of its midnight (lemma NextDay: a day begins at midnight and at no other
  minute); DueInv that what is due in the minute of the last walk was run. One
  module has the theorems of Trigger and Scheduler, which share no state; that is
  why Scheduler's plain names (SchInit, SchNext, SchSpec) begin with Sch.
* PcodeProofs. `SearchesFindJumps` (JumpsFound), `ScriptsMeanTheirText`
  (ExecutedRight), `JumpsGoForward` and `TypeCorrect`, for scripts of any length and
  depth. The searches know the nesting from reference counts only, so the invariant
  must say what a search meets: Struct relates the code so far to the ifs that are
  open - Paths and Flows how the branches of instructions follow each other, OpenIfs
  where those that are open began and which jumps they have yet to get, Tested that
  every other if is whole, Jumps that the end of a block jumps over a second block
  and over nothing else, Forward that no jump goes back. ParseInv is Struct of the
  state; ExecInv relates the instructions that were executed to the branches that
  the tests chose. That jumps go forward is why a script ends, which itself is
  model-checked.
* PidFileProofs. `FileRemoved`, `DaemonNamed` and `NeverRefusedForStale`. Whose number
  the file has depends on who has weWroteThePIDFile set and on what a fork copies:
  FamilyInv, FlagInv, OwnerInv, FreshInv and HolderInv say this for each point
  of a start.
* CommandSocketProofs. `LinesFit`: the number of bytes read stays below the size of
  the buffer, by LineInv. `LinesImplemented`: every step of LineIO is one of
  LineChannel, or leaves its variables. The mapping cuts the bytes that are on their
  way into lines (SplitOf); the lemma Joining says what the cut of two pieces is, so
  that the steps at either end of the stream change the lines at that end alone;
  QueueInv says what a line that is being read, and one that is being written, has
  in it. `AccessIsRight`: AccessRight for files of any lines and addresses of any
  number of octets. AccessInv carries the list from the file to the decision; the
  rest is about pure operators: Scanned says what the sections made of n lines tell
  about those lines, ValueIsAssigned that a look-up finds what the file says,
  EntryCovers that a mask of whole octets has the right bits (the order of the
  bits within an octet does not matter then), ListsDecide that the list decides as
  the texts do. `TypeCorrect`.

The assumptions on constants are the types of what is read from outside (files,
messages, scripts, tables), that None, ALL and the like are not among the values
they stand beside, and the few bounds that are named above. CommandSocket's say
that a value of the configuration file is ALL or a set of texts.

Recursive functions (NonBlank, SplitOf, ConfReadScan, Looped) are proved about without an
induction rule: of the set of arguments at which a statement fails, the least one
is taken, and it cannot be (HasLeast, from the well-founded order of the numbers).
That such a function exists at all is proved in the same way (StepsExist, RunExists);
so is what FlattenSeq of the community modules makes of a row of texts (FlattenAppend).

Only model-checked is liveness (StallDetected, ShutdownEnds, HubFound, StartupRuns,
Answered, Forgotten, ScriptEnds, Handled, ReadEnds, and the liveness of
ImplementsChannel), which is beyond the proof system. Every invariant and every action
property of a passing run is a theorem.

## 6. What is left out

* Allocation failures (every allocation is asserted and ends the process), log
  output, formats of messages, the text of cron records, command line options.
* Failing system calls, except where a failure is a case that the code handles
  and a property depends on it.
* Logging and its log file, which SIGHUP reopens; the sun's times (below); the
  functions of the utilities that no other part relies on.
* Lines of the configuration file that are longer than its buffer, the list after
  the option -b, and the text of addresses: an address is its bits.
* What the child of UtilSpawn ends besides the PID file when its command cannot be
  executed - the goodbyes, the RX thread and the poller, which it shares with the
  daemon - is reported in the findings and is not in XplService, XplRx or Session.
* Long waits: a second or five seconds of a time-out are one step that may happen.
* The generated scanner and grammar engine (Pcode reads a script as the grammar
  has it), SQLite and talloc, which are external.
* Sunrise and sunset are third-party arithmetic; the scheduler's model takes any
  minute of the day, or none.
