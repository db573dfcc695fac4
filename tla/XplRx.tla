------------------------------- MODULE XplRx --------------------------------
(***************************************************************************)
(* The receiver of the xPL stack (xplrx.c) and the part of the main thread *)
(* that uses it (rxReadyAction and xplTick in xplcore.c, exit handling in  *)
(* monitor.c).                                                             *)
(*                                                                         *)
(* The RX thread reads datagrams from the hub connection, links each one   *)
(* into a list and bumps the eventfd rxReadyFD; the main thread reads the  *)
(* eventfd and then empties the list.  A mutex guards the list and the     *)
(* watchdog counter, which the RX thread bumps on a one second timer and   *)
(* the main thread reads and clears every Period of its own timer ticks.   *)
(* At exit the main thread posts a terminate request on the eventfd        *)
(* rxControlFD and waits for the "dying gasp" of the RX thread, which      *)
(* arrives on the same rxReadyFD as the data notifications.                *)
(*                                                                         *)
(* Each action is the code a thread runs between two points at which the   *)
(* other thread can observe or change what it uses.  The mutex is explicit *)
(* wherever it is held across such a point; a critical section with no     *)
(* such point inside is one action, guarded by the mutex being free.       *)
(***************************************************************************)
EXTENDS Naturals, Sequences

CONSTANTS
  Msgs,      \* the datagrams that can arrive
  Empty,     \* the datagram of length zero
  MaxSent,   \* bound on the datagrams sent, for model checking
  NetCap,    \* datagrams the socket buffer holds; the kernel drops the rest
  Period,    \* main thread ticks between two watchdog checks (10 in the code)
  MaxLag,    \* further RX timer expiries before a live RX thread serves one
  WdogMax,   \* where the watchdog counter saturates (INT_MAX in the code)
  MaxGasp    \* reads of rxReadyFD before shutdown gives up (10 in the code)

ASSUME RxAssumption ==
  /\ Empty \in Msgs
  /\ MaxSent \in Nat
  /\ NetCap \in Nat
  /\ MaxGasp \in Nat \ {0}
  /\ WdogMax \in Nat \ {0}
  /\ MaxLag \in Nat
  /\ Period \in Nat
  /\ MaxLag + 3 < Period

VARIABLES
  rxPc,        \* where the RX thread is
  mainPc,      \* where the main thread is
  lock,        \* holder of xh->lock
  magic,       \* xh->magic = XH_MAGIC
  freed,       \* destroyRX has freed the receive header
  netBuf,      \* datagrams in the kernel's buffer of localConnFD
  rxBuff,      \* the datagram copied by recvfrom
  queue,       \* the list from xh->head to xh->tail
  readyFD,     \* eventfd: who has written it since it was last read
  controlFD,   \* eventfd: written and not yet read
  controlVal,  \* xh->rxControlVal
  rxTimer,     \* the RX thread's timerfd is readable
  mainTimer,   \* the main thread's timerfd is readable
  timerTurn,   \* which of the two one second timers expires next
  lag,         \* RX timer expiries since rxTimer became readable
  ticks,       \* xp->ticks modulo Period
  wdog,        \* xh->wdogCounter
  termCount,   \* failed reads in XplRXDestroy
  gaspRead,    \* history: who had written the event that ended the wait
  sent,        \* number of datagrams sent so far
  received,    \* history: every string returned by recvfrom
  delivered    \* history: every string returned to rxReadyAction

netVars  == <<netBuf, sent>>
rxVars   == <<rxPc, rxBuff, received>>
fdVars   == <<readyFD, controlFD, controlVal>>
timeVars == <<rxTimer, mainTimer, timerTurn, lag, ticks, wdog>>
termVars == <<magic, freed, termCount, gaspRead>>
vars     == <<netVars, rxVars, fdVars, timeVars, termVars,
              mainPc, lock, queue, delivered>>

----------------------------------------------------------------------------
RxStates == {"none", "boot", "wait", "enqueue", "notify", "gasp", "unlock",
             "exited", "stalled", "aborted"}

MainStates == {"create", "setmagic", "loop", "drain", "wdogfatal",
               "movefatal", "setctl", "writectl", "gasp", "read", "relock",
               "destroy", "freed", "terminated"}

\* The main thread runs its event loop, or is on its way into it.
Operating == mainPc \in {"create", "setmagic", "loop", "drain"}

\* The RX thread can run: its process exists and its header is allocated.
RxAlive == ~freed /\ mainPc # "terminated"

LockFree == lock = "none"

\* No RX thread answers: it was never created, or it has stalled.
RxSilent == rxPc \in {"none", "stalled"}

Init ==
  /\ rxPc = "none" /\ mainPc = "create" /\ lock = "none"
  /\ magic = FALSE /\ freed = FALSE
  /\ netBuf = <<>> /\ rxBuff = Empty /\ queue = <<>>
  /\ readyFD = {} /\ controlFD = FALSE /\ controlVal = "zero"
  /\ rxTimer = FALSE /\ mainTimer = FALSE /\ timerTurn = "main" /\ lag = 0
  /\ ticks = 0 /\ wdog = 0 /\ termCount = 0 /\ gaspRead = {}
  /\ sent = 0 /\ received = <<>> /\ delivered = <<>>

----------------------------------------------------------------------------
(* The hub and the clock.                                                  *)

\* A datagram arrives; the kernel drops it when the socket buffer is full.
NetSend(m) ==
  /\ sent < MaxSent
  /\ sent' = sent + 1
  /\ netBuf' = IF Len(netBuf) < NetCap THEN Append(netBuf, m) ELSE netBuf
  /\ UNCHANGED <<rxVars, fdVars, timeVars, termVars, mainPc, lock, queue,
                 delivered>>

\* Both timers have a period of one second and start together, so they
\* expire in turns.  An expiry that finds its descriptor still readable adds
\* nothing: one read of a timerfd takes every expiry since the last one.
\* Time stops when the daemon shuts down: no one reads mainTimer any more.
MainTimerExpires ==
  /\ Operating
  /\ timerTurn = "main"
  /\ timerTurn' = "rx"
  /\ mainTimer' = TRUE
  /\ UNCHANGED <<netVars, rxVars, fdVars, rxTimer, lag, ticks, wdog,
                 termVars, mainPc, lock, queue, delivered>>

\* MaxLag is the assumption on the scheduler under which the watchdog may be
\* trusted: a thread that has not stalled serves its timer in that time.
RxTimerExpires ==
  /\ Operating
  /\ timerTurn = "rx"
  /\ rxTimer /\ ~RxSilent => lag < MaxLag
  /\ timerTurn' = "main"
  /\ rxTimer' = TRUE
  /\ lag' = IF rxTimer /\ lag < MaxLag THEN lag + 1 ELSE lag
  /\ UNCHANGED <<netVars, rxVars, fdVars, mainTimer, ticks, wdog,
                 termVars, mainPc, lock, queue, delivered>>

----------------------------------------------------------------------------
(* The RX thread (xplrx.c).                                                *)

\* fatal() in the RX thread ends the process.
RxAbort ==
  /\ rxPc' = "aborted"
  /\ mainPc' = "terminated"

\* rxThread: take the lock and assert that the header is complete.
RxBoot ==
  /\ RxAlive /\ rxPc = "boot" /\ LockFree
  /\ IF magic
     THEN rxPc' = "wait" /\ UNCHANGED mainPc
     ELSE RxAbort
  /\ UNCHANGED <<netVars, rxBuff, received, fdVars, timeVars, termVars,
                 lock, queue, delivered>>

\* rxIncomingAction, up to and including recvfrom.
RxReceive ==
  /\ RxAlive /\ rxPc = "wait" /\ LockFree
  /\ netBuf # <<>>
  /\ rxBuff' = Head(netBuf)
  /\ netBuf' = Tail(netBuf)
  /\ received' = Append(received, Head(netBuf))
  /\ rxPc' = "enqueue"
  /\ UNCHANGED <<sent, fdVars, timeVars, termVars, mainPc, lock, queue,
                 delivered>>

\* A mutant of RxEnqueue: a new entry is linked in front of the list.
RxEnqueueAtHead ==
  /\ RxAlive /\ rxPc = "enqueue" /\ LockFree
  /\ lock' = "rx"
  /\ queue' = <<rxBuff>> \o queue
  /\ rxPc' = "notify"
  /\ UNCHANGED <<netVars, rxBuff, received, fdVars, timeVars, termVars,
                 mainPc, delivered>>

\* rxQueueRawString at the end of the list; the lock stays held.
RxEnqueue ==
  /\ RxAlive /\ rxPc = "enqueue" /\ LockFree
  /\ lock' = "rx"
  /\ queue' = Append(queue, rxBuff)
  /\ rxPc' = "notify"
  /\ UNCHANGED <<netVars, rxBuff, received, fdVars, timeVars, termVars,
                 mainPc, delivered>>

\* rxSendReady, then the lock is released.
RxNotify ==
  /\ RxAlive /\ rxPc = "notify"
  /\ readyFD' = readyFD \union {"data"}
  /\ lock' = "none"
  /\ rxPc' = "wait"
  /\ UNCHANGED <<netVars, rxBuff, received, controlFD, controlVal, timeVars,
                 termVars, mainPc, queue, delivered>>

\* A mutant of RxTick: the counter is not kept below its limit.
RxTickUnbounded ==
  /\ RxAlive /\ rxPc = "wait" /\ LockFree
  /\ rxTimer
  /\ rxTimer' = FALSE
  /\ lag' = 0
  /\ wdog' = wdog + 1
  /\ UNCHANGED <<netVars, rxVars, fdVars, mainTimer, timerTurn, ticks,
                 termVars, mainPc, lock, queue, delivered>>

\* rxTick: read the timer, bump the watchdog counter up to its limit.
RxTick ==
  /\ RxAlive /\ rxPc = "wait" /\ LockFree
  /\ rxTimer
  /\ rxTimer' = FALSE
  /\ lag' = 0
  /\ wdog' = IF wdog < WdogMax THEN wdog + 1 ELSE wdog
  /\ UNCHANGED <<netVars, rxVars, fdVars, mainTimer, timerTurn, ticks,
                 termVars, mainPc, lock, queue, delivered>>

\* rxControlAction: copy the request under the lock, read the eventfd.
RxControl ==
  /\ RxAlive /\ rxPc = "wait" /\ LockFree
  /\ controlFD
  /\ controlFD' = FALSE
  /\ rxPc' = IF controlVal = "term" THEN "gasp" ELSE "wait"
  /\ UNCHANGED <<netVars, rxBuff, received, readyFD, controlVal, timeVars,
                 termVars, mainPc, lock, queue, delivered>>

\* The dying gasp: rxSendReady under the lock.
RxGasp ==
  /\ RxAlive /\ rxPc = "gasp" /\ LockFree
  /\ lock' = "rx"
  /\ readyFD' = readyFD \union {"gasp"}
  /\ rxPc' = "unlock"
  /\ UNCHANGED <<netVars, rxBuff, received, controlFD, controlVal, timeVars,
                 termVars, mainPc, queue, delivered>>

\* Release the lock, the last use of the header, and pthread_exit.
RxExit ==
  /\ RxAlive /\ rxPc = "unlock"
  /\ lock' = "none"
  /\ rxPc' = "exited"
  /\ UNCHANGED <<netVars, rxBuff, received, fdVars, timeVars, termVars,
                 mainPc, queue, delivered>>

\* The fault the watchdog is for: the thread never leaves its poll again.
RxStall ==
  /\ RxAlive /\ rxPc = "wait"
  /\ rxPc' = "stalled"
  /\ UNCHANGED <<netVars, rxBuff, received, fdVars, timeVars, termVars,
                 mainPc, lock, queue, delivered>>

\* A thread that runs on after destroyRX uses a freed header and a closed
\* poller; the magic check or the failing poll ends the process.
RxUseAfterFree ==
  /\ freed /\ mainPc # "terminated"
  /\ rxPc \in {"boot", "wait", "enqueue", "notify", "gasp", "unlock"}
  /\ RxAbort
  /\ UNCHANGED <<netVars, rxBuff, received, fdVars, timeVars, termVars,
                 lock, queue, delivered>>

----------------------------------------------------------------------------
(* The main thread in operation.                                           *)

\* XplRXInit: pthread_create, which lets the RX thread run ...  It returns a
\* positive number when it fails, which the test for a negative one misses.
CreateThread ==
  /\ mainPc = "create"
  /\ rxPc' \in {"boot", "none"}
  /\ mainPc' = "setmagic"
  /\ UNCHANGED <<netVars, rxBuff, received, fdVars, timeVars, termVars,
                 lock, queue, delivered>>

\* ... and only then the magic number that the RX thread asserts.
SetMagic ==
  /\ mainPc = "setmagic"
  /\ magic' = TRUE
  /\ mainPc' = "loop"
  /\ UNCHANGED <<netVars, rxVars, fdVars, timeVars, freed, termCount,
                 gaspRead, lock, queue, delivered>>

\* rxReadyAction: the event is read, which clears it, before the queue is.
ReadReady ==
  /\ mainPc = "loop"
  /\ readyFD # {}
  /\ readyFD' = {}
  /\ mainPc' = "drain"
  /\ UNCHANGED <<netVars, rxVars, controlFD, controlVal, timeVars, termVars,
                 lock, queue, delivered>>

\* XplrxDQRawString with an entry in the list.  Moving a string of length
\* zero fails an assertion in UtilMoveString, with the lock held.
Dequeue ==
  /\ mainPc = "drain" /\ LockFree
  /\ queue # <<>>
  /\ queue' = Tail(queue)
  /\ IF Head(queue) = Empty
     THEN /\ mainPc' = "movefatal"
          /\ lock' = "main"
          /\ UNCHANGED delivered
     ELSE /\ delivered' = Append(delivered, Head(queue))
          /\ UNCHANGED <<mainPc, lock>>
  /\ UNCHANGED <<netVars, rxVars, fdVars, timeVars, termVars>>

\* A mutant of DrainDone: the loop takes one string for each event, as it
\* would if an eventfd counted out its events one by one.
DrainOne ==
  /\ mainPc = "drain"
  /\ mainPc' = "loop"
  /\ UNCHANGED <<netVars, rxVars, fdVars, timeVars, termVars, lock, queue,
                 delivered>>

\* XplrxDQRawString finds the list empty and rxReadyAction returns.
DrainDone ==
  /\ mainPc = "drain" /\ LockFree
  /\ queue = <<>>
  /\ mainPc' = "loop"
  /\ UNCHANGED <<netVars, rxVars, fdVars, timeVars, termVars, lock, queue,
                 delivered>>

\* A mutant of WatchdogDue: the counter is read on every tick.
EveryTick(t) == TRUE

\* A mutant of WatchdogDue: the tick count is compared before the modulus.
NoTick(t) == t = Period

\* xplTick looks at the counter on ticks 9, 19, 29 ...
WatchdogDue(t) == t = Period - 1

\* ticks++, modulo Period.
NextTick == IF ticks = Period - 1 THEN 0 ELSE ticks + 1

\* xplTick, but for the heartbeats it sends.
MainTick ==
  LET t == NextTick
  IN /\ mainPc = "loop"
     /\ mainTimer
     /\ ticks' = t
     /\ IF WatchdogDue(t)
        THEN /\ LockFree
             /\ wdog' = 0
             /\ mainPc' = IF wdog = 0 THEN "wdogfatal" ELSE "loop"
             /\ mainTimer' = (wdog = 0)
        ELSE /\ mainTimer' = FALSE
             /\ UNCHANGED <<wdog, mainPc>>
     /\ UNCHANGED <<netVars, rxVars, fdVars, rxTimer, timerTurn, lag,
                    termVars, lock, queue, delivered>>

----------------------------------------------------------------------------
(* Exit: monitorShutdown, XplDestroy, XplRXDestroy.                        *)

\* signalHandler calls exit on SIGINT, SIGTERM or SIGQUIT.
Signal ==
  /\ mainPc = "loop"
  /\ mainPc' = "setctl"
  /\ UNCHANGED <<netVars, rxVars, fdVars, timeVars, termVars, lock, queue,
                 delivered>>

\* fatal() calls exit, which runs the same handlers.
FatalExit ==
  /\ mainPc \in {"wdogfatal", "movefatal"}
  /\ mainPc' = "setctl"
  /\ UNCHANGED <<netVars, rxVars, fdVars, timeVars, termVars, lock, queue,
                 delivered>>

\* XplrxSendControlMsg: the request is stored under the lock ...
SetControl ==
  /\ mainPc = "setctl" /\ LockFree
  /\ controlVal' = "term"
  /\ mainPc' = "writectl"
  /\ UNCHANGED <<netVars, rxVars, readyFD, controlFD, timeVars, termVars,
                 lock, queue, delivered>>

\* ... and announced without it.
WriteControl ==
  /\ mainPc = "writectl"
  /\ controlFD' = TRUE
  /\ mainPc' = "gasp"
  /\ UNCHANGED <<netVars, rxVars, readyFD, controlVal, timeVars, termVars,
                 lock, queue, delivered>>

\* The head of the wait loop of XplRXDestroy: lock and unlock, give up with
\* fatal() (which ends the process) after MaxGasp reads.
GaspLoop ==
  /\ mainPc = "gasp" /\ LockFree
  /\ mainPc' = IF termCount < MaxGasp THEN "read" ELSE "terminated"
  /\ UNCHANGED <<netVars, rxVars, fdVars, timeVars, termVars, lock, queue,
                 delivered>>

\* Any event that can be read ends the wait.
GaspRead ==
  /\ mainPc = "read"
  /\ readyFD # {}
  /\ readyFD' = {}
  /\ gaspRead' = readyFD
  /\ mainPc' = "relock"
  /\ UNCHANGED <<netVars, rxVars, controlFD, controlVal, timeVars, magic,
                 freed, termCount, lock, queue, delivered>>

\* A mutant of GaspMiss: the wait never gives up.
GaspMissForever ==
  /\ mainPc = "read"
  /\ readyFD = {}
  /\ mainPc' = "gasp"
  /\ UNCHANGED <<netVars, rxVars, fdVars, timeVars, termVars, lock, queue,
                 delivered>>

\* Nothing to read: sleep 100 ms and try again.
GaspMiss ==
  /\ mainPc = "read"
  /\ readyFD = {}
  /\ termCount' = termCount + 1
  /\ mainPc' = "gasp"
  /\ UNCHANGED <<netVars, rxVars, fdVars, timeVars, magic, freed, gaspRead,
                 lock, queue, delivered>>

\* A mutant of Relock: the lock is not taken after the event was read.
NoRelock ==
  /\ mainPc = "relock"
  /\ mainPc' = "destroy"
  /\ UNCHANGED <<netVars, rxVars, fdVars, timeVars, termVars, lock, queue,
                 delivered>>

\* The lock is taken after a successful read, and released behind the loop:
\* a thread that is still inside its last critical section leaves it first.
Relock ==
  /\ mainPc = "relock" /\ LockFree
  /\ mainPc' = "destroy"
  /\ UNCHANGED <<netVars, rxVars, fdVars, timeVars, termVars, lock, queue,
                 delivered>>

\* destroyRX.
Destroy ==
  /\ mainPc = "destroy"
  /\ magic' = FALSE
  /\ freed' = TRUE
  /\ mainPc' = "freed"
  /\ UNCHANGED <<netVars, rxVars, fdVars, timeVars, termCount, gaspRead,
                 lock, queue, delivered>>

\* The rest of XplDestroy and of the exit handlers.
ExitProcess ==
  /\ mainPc = "freed"
  /\ mainPc' = "terminated"
  /\ UNCHANGED <<netVars, rxVars, fdVars, timeVars, termVars, lock, queue,
                 delivered>>

----------------------------------------------------------------------------
RxStep == \/ RxBoot \/ RxReceive \/ RxEnqueue \/ RxNotify \/ RxTick
          \/ RxControl \/ RxGasp \/ RxExit \/ RxUseAfterFree

MainStep == \/ CreateThread \/ SetMagic \/ ReadReady \/ Dequeue \/ DrainDone
            \/ MainTick \/ FatalExit \/ SetControl \/ WriteControl
            \/ GaspLoop \/ GaspRead \/ GaspMiss \/ Relock \/ Destroy
            \/ ExitProcess

Clock == MainTimerExpires \/ RxTimerExpires

Next == \/ \E m \in Msgs : NetSend(m)
        \/ Clock
        \/ RxStep
        \/ RxStall
        \/ MainStep
        \/ Signal

SafeSpec == Init /\ [][Next]_vars

(***************************************************************************)
(* The kernel runs both threads, time passes, and epoll serves a readable  *)
(* descriptor after the others that are readable: a level triggered entry  *)
(* goes to the end of the ready list each time it is reported, so neither  *)
(* the ready event nor the timer of either thread is overtaken for ever.   *)
(***************************************************************************)
Fairness ==
  /\ WF_vars(RxStep) /\ WF_vars(MainStep) /\ WF_vars(Clock)
  /\ SF_vars(ReadReady) /\ SF_vars(MainTick) /\ SF_vars(RxTick)

Spec == SafeSpec /\ Fairness

----------------------------------------------------------------------------
(* Properties.                                                             *)

TypeOK ==
  /\ rxPc \in RxStates
  /\ mainPc \in MainStates
  /\ lock \in {"none", "rx", "main"}
  /\ magic \in BOOLEAN /\ freed \in BOOLEAN
  /\ netBuf \in Seq(Msgs)
  /\ rxBuff \in Msgs
  /\ queue \in Seq(Msgs)
  /\ readyFD \in SUBSET {"data", "gasp"}
  /\ controlFD \in BOOLEAN
  /\ controlVal \in {"zero", "term"}
  /\ rxTimer \in BOOLEAN /\ mainTimer \in BOOLEAN
  /\ timerTurn \in {"main", "rx"}
  /\ lag \in 0 .. MaxLag
  /\ ticks \in 0 .. Period - 1
  /\ wdog \in 0 .. WdogMax
  /\ termCount \in 0 .. MaxGasp
  /\ gaspRead \in SUBSET {"data", "gasp"}
  /\ sent \in 0 .. MaxSent
  /\ received \in Seq(Msgs)
  /\ delivered \in Seq(Msgs)

\* The wait loop reads only while termCount is below its limit.
GaspBound == mainPc = "read" => termCount < MaxGasp

(***************************************************************************)
(* No lost wakeup: when the main thread is back in its poll and strings    *)
(* are queued, the ready event is pending, or the RX thread holds the lock *)
(* on its way to post it.  This is what reading the event before draining  *)
(* the list, and posting it after linking the entry, are for.              *)
(***************************************************************************)
NoLostWakeup ==
  (mainPc = "loop" /\ queue # <<>>) => (readyFD # {} \/ rxPc = "notify")

(***************************************************************************)
(* When the event that ended the wait of XplRXDestroy includes the dying   *)
(* gasp, the header is destroyed only after the RX thread has released the *)
(* lock for the last time: taking the lock once more after the read closes *)
(* the window between the gasp and the unlock.                             *)
(***************************************************************************)
GaspSound ==
  (mainPc \in {"destroy", "freed"} /\ "gasp" \in gaspRead)
    => rxPc = "exited"

(***************************************************************************)
(* "Wait for RX thread to signal it terminated" (xplrx.c:514): the header  *)
(* is freed only when the RX thread is gone.  Any ready event ends the     *)
(* wait, and a data notification is a ready event too.                     *)
(***************************************************************************)
FreedAfterExit == mainPc = "freed" => rxPc = "exited"

(***************************************************************************)
(* xplTick takes down the process for an RX thread that does not respond   *)
(* only when the thread is missing or has stalled, if a live one serves    *)
(* its timer within MaxLag further expiries: the tick counts of the two    *)
(* threads, the counter and its reset never add up to a false alarm.       *)
(***************************************************************************)
WatchdogSound == mainPc = "wdogfatal" => RxSilent

(***************************************************************************)
(* An RX thread that has stalled, or that pthread_create failed to create, *)
(* ends the operation of the daemon: it never runs on deaf.                *)
(***************************************************************************)
StallDetected == (RxSilent /\ mainPc = "loop") ~> ~Operating

(***************************************************************************)
(* Once the exit handlers run, the process ends: a silent RX thread costs  *)
(* at most MaxGasp waits.  A thread that calls fatal() while it holds the  *)
(* lock is the exception (the assertion in UtilMoveString): the handlers   *)
(* then wait for the lock for ever.                                        *)
(***************************************************************************)
ShutdownEnds ==
  (mainPc = "setctl" /\ lock # "main") ~> (mainPc = "terminated")

(***************************************************************************)
(* The receiver implements the channel of RxChannel: every string returned *)
(* by recvfrom reaches rxReadyAction once and in order while the daemon is *)
(* operating, whatever the interleaving.                                   *)
(***************************************************************************)
Waiting == SubSeq(received, Len(delivered) + 1, Len(received))

Chan == INSTANCE RxChannel
          WITH inbox <- Waiting, handled <- delivered, open <- Operating

ImplementsChannel == Chan!Spec

----------------------------------------------------------------------------
(* What makes the properties inductive.                                    *)

Ended == mainPc = "terminated"

\* The holder of the lock is where the code says it holds it.
LockInv ==
  /\ ~Ended => (lock = "rx" <=> rxPc \in {"notify", "unlock"})
  /\ lock = "main" => mainPc \in {"movefatal", "setctl"}
  /\ freed => mainPc \in {"freed", "terminated"}

\* Nothing has happened before the thread is created.
StartInv ==
  mainPc = "create" =>
    /\ rxPc = "none" /\ readyFD = {} /\ gaspRead = {}
    /\ ticks = 0 /\ wdog = 0
    /\ mainTimer => timerTurn = "rx" \/ rxTimer

\* Queued strings are announced, except while the main thread empties the
\* list or the RX thread is about to announce them.
WakeInv ==
  (mainPc \in {"create", "setmagic", "loop"} /\ queue # <<>>)
    => (readyFD # {} \/ rxPc = "notify")

\* A dying gasp was written by a thread that does nothing else any more, and
\* is gone from it once the lock was taken again.
GaspInv ==
  ~Ended =>
    /\ "gasp" \in readyFD \union gaspRead => rxPc \in {"unlock", "exited"}
    /\ GaspSound

\* Main thread ticks since the counter was last cleared.
WindowTicks == IF ticks = Period - 1 THEN 0 ELSE ticks + 1

\* RX timer expiries since the counter was last cleared, while it is zero.
WindowExpiries == IF rxTimer THEN lag + 1 ELSE 0

\* While a live RX thread has not ticked since the counter was cleared, the
\* main thread is at most one tick, and in the first window two, ahead of
\* the expiries that wait for the RX thread.
WdogInv ==
  /\ WatchdogSound
  /\ (mainPc \in {"setmagic", "loop", "drain"} /\ ~RxSilent /\ wdog = 0)
       => WindowTicks + (IF mainTimer THEN 1 ELSE 0)
            <= 1 + WindowExpiries + (IF timerTurn = "rx" THEN 1 ELSE 0)

\* The string in the RX thread's hands.
InHand == IF rxPc = "enqueue" THEN <<rxBuff>> ELSE <<>>

\* What was received is what was delivered, what is queued and what the RX
\* thread is about to queue; after the daemon stops operating nothing more is
\* delivered.
OrderInv ==
  /\ Operating => received = delivered \o queue \o InHand
  /\ Len(delivered) <= Len(received)

============================================================================
