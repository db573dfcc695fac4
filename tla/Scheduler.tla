----------------------------- MODULE Scheduler ------------------------------
(***************************************************************************)
(* The scheduler (scheduler.c) and the code of the monitor that drives it  *)
(* (tickHandler, schedulerLoad and the schreload command in monitor.c).    *)
(*                                                                         *)
(* All of it runs on the main thread.  A timer calls tickHandler every six *)
(* seconds; the first tick after the hub is confirmed creates the          *)
(* scheduler, loads the schedule table and starts it; every later tick     *)
(* compares the minute of local time with that of the last walk of the     *)
(* schedule, and walks it when they differ.  A client may have the table   *)
(* loaded again at any time.                                               *)
(*                                                                         *)
(* Time is a count of minutes.  Of a minute the model keeps whether a tick *)
(* was handled in it, and what was executed.                               *)
(*                                                                         *)
(* Names that begin with Sch leave the plain ones to Trigger, the other    *)
(* part of monitor.c that MonitorProofs has theorems about.                *)
(***************************************************************************)
EXTENDS Naturals, Sequences, FiniteSets

CONSTANTS
  Entries,    \* the records that the schedule table can hold
  Kind,       \* what triggers a record: "cron", "startup" or "sun"
  Minutes,    \* the minutes of the day that a cron record matches
  SunTime,    \* for each day the minute of sunrise, or NoSun
  NoSun,      \* the sun does not rise: ssValid and ddValid are FALSE
  Tables,     \* the contents that the schedule table can have
  Limit,      \* records that schedulerLoad reads (32 in the code)
  Hour,       \* minutes of an hour
  Day,        \* minutes of a day
  MaxTime     \* bound on the time

Times == 0 .. MaxTime

ASSUME SchedulerAssumption ==
  /\ Kind \in [Entries -> {"cron", "startup", "sun"}]
  /\ Minutes \in [Entries -> SUBSET (0 .. Day - 1)]
  /\ Hour \in Nat \ {0, 1}
  /\ Day \in Nat \ {0}
  /\ Day % Hour = 0
  /\ SunTime \in [Times -> (0 .. Day - 1) \union {NoSun}]
  /\ NoSun \notin 0 .. Day - 1
  /\ Tables \subseteq Seq(Entries)
  /\ Limit \in Nat
  /\ MaxTime \in Nat

VARIABLES
  now,         \* local time
  ticked,      \* a tick was handled in this minute
  hub,         \* the hub is confirmed (never revoked while the daemon runs)
  table,       \* the schedule table in the database
  crashed,     \* an assertion has ended the process
  created,     \* Globals->sch is not NULL
  enabled,     \* sch->enabled
  startupRan,  \* sch->startupRan
  list,        \* the entries from sch->head to sch->tail
  sun,         \* the minute calculated by calcDawnDusk, or NoSun
  prevMin,     \* sch->tmPrevNow.tm_min
  since,       \* history: the minute of the last start
  lastWalk,    \* history: the minute of the last walk, or Never
  chain,       \* history: the first of the walks less than an hour apart
  runs,        \* history: how often each entry was run in this minute
  startups     \* history: entries run by @startup so far

clockVars == <<now, ticked>>
schVars   == <<created, enabled, startupRan, list, sun, prevMin>>
histVars  == <<since, lastWalk, chain, runs, startups>>
allVars   == <<clockVars, hub, table, crashed, schVars, histVars>>

Never == MaxTime + 1

Idle == [e \in Entries |-> 0]

SchInit ==
  /\ now \in 0 .. Day - 1 /\ now <= MaxTime /\ ticked = FALSE
  /\ hub = FALSE
  /\ table \in Tables
  /\ crashed = FALSE
  /\ created = FALSE /\ enabled = FALSE /\ startupRan = FALSE
  /\ list = <<>> /\ sun = NoSun /\ prevMin = 0
  /\ since = now /\ lastWalk = Never /\ chain = Never
  /\ runs = Idle /\ startups = 0

----------------------------------------------------------------------------
(* Loading and starting.                                                   *)

Prefix(s, n) == SubSeq(s, 1, IF Len(s) < n THEN Len(s) ELSE n)

\* calcDawnDusk, at the time t.
CalcDawnDusk(t) == sun' = SunTime[t \div Day]

\* schedulerLoad, then SchedulerStart.  A read of the table that fails half
\* way leaves the entries read so far, and the scheduler stopped.
LoadAndStart(old) ==
  \/ /\ list' = old \o Prefix(table, Limit)
     /\ CalcDawnDusk(now)
     /\ enabled' = TRUE
     /\ since' = now
  \/ /\ \E n \in 0 .. Len(Prefix(table, Limit)) : list' = old \o Prefix(table, n)
     /\ enabled' = FALSE
     /\ UNCHANGED <<sun, since>>

----------------------------------------------------------------------------
(* The walk.                                                               *)

\* The entry matches the time t (cronNumEval, cronWildCardEval and the sun
\* commands of cronAtCommand; the sun' that midnight housekeeping has left).
Triggers(e, t) ==
  CASE Kind[e] = "cron"    -> t % Day \in Minutes[e]
    [] Kind[e] = "sun"     -> sun' = t % Day
    [] Kind[e] = "startup" -> FALSE

\* A mutant of StartupAt: the flag is read the wrong way round.
StartupInverted(i) ==
  /\ startupRan
  /\ Kind[list[i]] = "startup"
  /\ \A j \in 1 .. i - 1 : Kind[list[j]] # "startup"

\* The @startup command runs for the first such entry, once.
StartupAt(i) ==
  /\ ~startupRan
  /\ Kind[list[i]] = "startup"
  /\ \A j \in 1 .. i - 1 : Kind[list[j]] # "startup"

\* schedulerWalk: run what is triggered, in the order of the list.
Walk(t) ==
  LET run == {i \in 1 .. Len(list) : Triggers(list[i], t) \/ StartupAt(i)}
      first == {i \in 1 .. Len(list) : StartupAt(i)}
  IN /\ runs' = [e \in Entries |->
                   runs[e] + Cardinality({i \in run : list[i] = e})]
     /\ startupRan' = (startupRan \/ first # {})
     /\ startups' = startups + Cardinality(first)
     /\ lastWalk' = t
     /\ chain' = IF lastWalk # Never /\ t < lastWalk + Hour THEN chain ELSE t

\* A mutant of AtMidnight: what is tested is a time one minute later.
AfterMidnight(t) == t % Day = 1

AtMidnight(t) == t % Day = 0

\* A mutant of MinuteChanged: the minute of the last walk is not looked at.
Always(t) == TRUE

\* SchedulerDo compares minutes of the hour.
MinuteChanged(t) == t % Hour # prevMin

SchedulerDo ==
  IF enabled /\ MinuteChanged(now)
  THEN /\ IF AtMidnight(now) THEN CalcDawnDusk(now) ELSE UNCHANGED sun
       /\ Walk(now)
       /\ prevMin' = now % Hour
       /\ UNCHANGED <<created, enabled, list, since>>
  ELSE UNCHANGED <<schVars, histVars>>

----------------------------------------------------------------------------
(* The monitor.                                                            *)

\* SchedulerInit, load and start.
LoadFirst == LoadAndStart(<<>>)

\* tickHandler.
TickHandler ==
  /\ ~crashed
  /\ ticked' = TRUE
  /\ IF ~hub
     THEN UNCHANGED <<schVars, histVars>>
     ELSE IF ~created
     THEN /\ created' = TRUE
          /\ LoadFirst
          /\ startupRan' = FALSE /\ prevMin' = 0
          /\ UNCHANGED <<lastWalk, chain, runs, startups>>
     ELSE SchedulerDo
  /\ UNCHANGED <<now, hub, table, crashed>>

\* SchedulerRemoveAllEntries.
ForgetEntries == <<>>

\* The schreload command: without a scheduler, an assertion fails.
SchReload ==
  /\ ~crashed
  /\ IF ~created
     THEN crashed' = TRUE /\ UNCHANGED <<schVars, histVars>>
     ELSE /\ LoadAndStart(ForgetEntries)
          /\ UNCHANGED <<crashed, created, startupRan, prevMin, lastWalk,
                         chain, runs, startups>>
  /\ UNCHANGED <<clockVars, hub, table>>

----------------------------------------------------------------------------
(* The surroundings.                                                       *)

\* A heartbeat echo arrives (XplService).
HubIsConfirmed ==
  /\ ~crashed /\ ~hub
  /\ hub' = TRUE
  /\ UNCHANGED <<clockVars, table, crashed, schVars, histVars>>

\* The table is edited, by the tools of the database.
EditTable ==
  /\ table' \in Tables \ {table}
  /\ UNCHANGED <<clockVars, hub, crashed, schVars, histVars>>

\* The minute passes.  The main thread is not held up for a whole minute:
\* each minute has a tick.
MinutePasses ==
  /\ now < MaxTime
  /\ ticked \/ crashed
  /\ now' = now + 1
  /\ ticked' = FALSE
  /\ runs' = Idle
  /\ UNCHANGED <<hub, table, crashed, schVars, since, lastWalk, chain,
                 startups>>

SchNext ==
  \/ TickHandler
  \/ SchReload
  \/ HubIsConfirmed
  \/ EditTable
  \/ MinutePasses

SchSafeSpec == SchInit /\ [][SchNext]_allVars

\* Ticks come and time passes.
SchSpec == SchSafeSpec /\ WF_allVars(TickHandler) /\ WF_allVars(MinutePasses)

----------------------------------------------------------------------------
(* Properties.                                                             *)

SchTypeOK ==
  /\ now \in Times /\ ticked \in BOOLEAN
  /\ hub \in BOOLEAN /\ table \in Tables /\ crashed \in BOOLEAN
  /\ created \in BOOLEAN /\ enabled \in BOOLEAN /\ startupRan \in BOOLEAN
  /\ list \in Seq(Entries)
  /\ sun \in 0 .. Day - 1 \union {NoSun}
  /\ prevMin \in 0 .. Hour - 1
  /\ since \in Times
  /\ lastWalk \in Times \union {Never} /\ chain \in Times \union {Never}
  /\ runs \in [Entries -> 0 .. Limit]
  /\ startups \in 0 .. 1

\* An entry is due at the time t, by the records themselves.
IsDue(e, t) ==
  \/ Kind[e] = "cron" /\ t % Day \in Minutes[e]
  \/ Kind[e] = "sun" /\ SunTime[t \div Day] = t % Day

\* The times of the sun were calculated on the day of t: by a start on that
\* day, or at its midnight by a walk that followed an earlier one.
SunKnown(t) == since \div Day = t \div Day \/ chain \div Day < t \div Day

(***************************************************************************)
(* An entry that was loaded before a minute began and is due in that       *)
(* minute is run before the minute ends, at the turn of an hour or a day   *)
(* too, on days when the sun rises at another time, and across a reload    *)
(* that fails or succeeds - provided the last walk is less than an hour    *)
(* ago: SchedulerDo looks at the minute of the hour only, so it takes the  *)
(* same minute of the next hour for no change, and minute 0 for no change  *)
(* when nothing was walked before.                                         *)
(***************************************************************************)
NothingMissed ==
  [][\A i \in 1 .. Len(list) :
       /\ now' = now + 1
       /\ enabled /\ since < now
       /\ lastWalk # Never /\ now < lastWalk + Hour
       /\ IsDue(list[i], now)
       /\ Kind[list[i]] = "sun" => SunKnown(now)
       => runs[list[i]] > 0]_allVars

(***************************************************************************)
(* However many ticks and reloads a minute has, an entry is run at most as *)
(* often in it as it is in the list.                                       *)
(***************************************************************************)
Occurrences(e) == Cardinality({i \in 1 .. Len(list) : list[i] = e})

RunOnce ==
  [][\A e \in Entries : runs'[e] > runs[e] =>
       runs[e] = 0 /\ runs'[e] <= Occurrences(e)]_allVars

(***************************************************************************)
(* A started scheduler with a @startup entry runs it, unless the daemon or *)
(* the scheduler is stopped first.                                         *)
(***************************************************************************)
StartupRuns ==
  (enabled /\ now + 2 < MaxTime
     /\ \E i \in 1 .. Len(list) : Kind[list[i]] = "startup")
    ~> (startupRan \/ ~enabled \/ crashed)

============================================================================
