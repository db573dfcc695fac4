------------------------------ MODULE Trigger -------------------------------
(***************************************************************************)
(* The monitor's listener for xPL messages (xPLListener in monitor.c): a   *)
(* heartbeat is noted in the heartbeat log; a trigger message is given a   *)
(* name - the source tag with a sub-address, which the script "preprocess" *)
(* in the database may calculate - the script that the trigger table has   *)
(* for the name is executed, and the trigger log is updated.               *)
(*                                                                         *)
(* The daemon has one thread.  Other processes edit the tables between its *)
(* reads: one that has the database locked makes a read or an update of    *)
(* the daemon fail, as in module Database.  Of a script the model keeps    *)
(* whether it parses, whether it runs to its end, which name-value pair of *)
(* the message it copies to %result{subaddress}, and whether its execution *)
(* may fail an assertion, which ends the daemon: a script that was cut     *)
(* inside of an if, one without a statement, one with an xplcmd whose hash *)
(* was never assigned (module Pcode has the first of them in detail).  A   *)
(* message is bare if it has no name-value pair at all.                    *)
(***************************************************************************)
EXTENDS Naturals, Sequences

CONSTANTS
  Messages,    \* what other nodes send
  Tags,        \* source tags
  Subs,        \* sub-addresses: values of name-value pairs
  Scripts,     \* names of scripts other than "preprocess"
  Texts,       \* texts of scripts
  Parses,      \* the texts that parse
  Completes,   \* the texts whose execution gives no error
  Aborts,      \* the texts whose execution may fail an assertion
  Takes,       \* the pair that a text copies to the result, for each schema
  None,        \* no value
  MaxMessages, \* bound on messages
  MaxEdits     \* bound on edits by other processes

Schemas == {"sensor.basic", "hvac.zone", "security.gateway", "other"}
Pairs   == {"device", "zone"}
Message == [type : {"cmnd", "stat", "trig"}, hbeat : BOOLEAN, all : BOOLEAN,
            tag : Tags, schema : Schemas, pair : [Pairs -> Subs \union {None}],
            bare : BOOLEAN]
Names   == Tags \X (Subs \union {None})

\* What the history has for a message that is no trigger.
Unread == "unread"

ASSUME TriggerAssumption ==
  /\ Messages \subseteq Message
  /\ None \notin Subs \union Scripts \union Texts \union Pairs
  /\ Unread \notin Texts \union {None}
  /\ "preprocess" \notin Scripts
  /\ Parses \subseteq Texts /\ Completes \subseteq Texts
  /\ Aborts \subseteq Parses
  /\ Takes \in [Texts -> [Schemas -> Pairs \union {None}]]
  /\ MaxMessages \in Nat /\ MaxEdits \in Nat

VARIABLES
  received,   \* the messages received so far
  at,         \* the number of the one that is handled, or was handled last
  pc,         \* where the listener is
  confirmed,  \* the hub is confirmed
  exitOnErr,  \* the daemon was told to end at an error of a script
  result,     \* %result{subaddress} of the last script that was executed
  name,       \* the name of the trigger: tag and sub-address
  action,     \* the name of the script to execute
  code,       \* its text
  reading,    \* the daemon holds a shared lock of the database
  locked,     \* another process holds it locked
  edits,      \* number of edits begun
  scripts,    \* the table of scripts
  trigaction, \* the table of triggers
  triglog,    \* the trigger log: the number of the message for each name
  hbeatlog,   \* the heartbeat log
  pre,        \* history: the preprocess script that was read for each message
  missed      \* history: messages whose update of a log failed

tables  == <<scripts, trigaction>>
logs    == <<triglog, hbeatlog, missed>>
theCall == <<result, name, action, code>>
others  == <<received, confirmed, locked, edits>>
vars    == <<others, at, pc, exitOnErr, theCall, reading, tables, logs, pre>>

Numbers == 1 .. MaxMessages

TypeOK ==
  /\ received \in Seq(Messages) /\ Len(received) <= MaxMessages
  /\ at \in 0 .. Len(received)
  /\ pc \in {"idle", "name", "lookup", "fetch", "act", "log", "exited", "crashed"}
  /\ pc # "idle" => at \in 1 .. Len(received)
  /\ confirmed \in BOOLEAN /\ exitOnErr \in BOOLEAN
  /\ reading \in BOOLEAN /\ locked \in BOOLEAN
  /\ ~(reading /\ locked)
  /\ reading => pc = "fetch"
  /\ edits \in 0 .. MaxEdits
  /\ result \in Subs \union {None}
  /\ name \in Names \union {None}
  /\ pc \in {"lookup", "fetch", "act", "log"} => name \in Names
  /\ action \in Scripts \union {None}
  /\ pc = "fetch" => action \in Scripts
  /\ code \in Texts \union {None}
  /\ pc = "act" => code \in Texts
  /\ scripts \in [Scripts \union {"preprocess"} -> Texts \union {None}]
  /\ trigaction \in [Names -> Scripts \union {None}]
  /\ triglog \in [Names -> 0 .. MaxMessages]
  /\ hbeatlog \in [Tags -> 0 .. MaxMessages]
  /\ pre \in [Numbers -> Texts \union {None, Unread}]
  /\ missed \subseteq Numbers

\* Any scripts, the same trigger for all names or none; nothing was received.
Init ==
  /\ received = <<>> /\ at = 0 /\ pc = "idle"
  /\ confirmed = FALSE /\ exitOnErr \in BOOLEAN
  /\ result = None /\ name = None /\ action = None /\ code = None
  /\ reading = FALSE /\ locked = FALSE /\ edits = 0
  /\ scripts \in [Scripts \union {"preprocess"} -> Texts \union {None}]
  /\ \E a \in Scripts \union {None} : trigaction = [s \in Names |-> a]
  /\ triglog = [s \in Names |-> 0]
  /\ hbeatlog = [t \in Tags |-> 0]
  /\ pre = [i \in Numbers |-> Unread]
  /\ missed = {}

Current == received[at]

----------------------------------------------------------------------------
(* Other nodes and other processes.                                        *)

Receive(m) ==
  /\ Len(received) < MaxMessages
  /\ received' = Append(received, m)
  /\ UNCHANGED <<at, pc, confirmed, exitOnErr, theCall, reading, locked, edits,
                 tables, logs, pre>>

HubConfirmed ==
  /\ ~confirmed
  /\ confirmed' = TRUE
  /\ UNCHANGED <<received, at, pc, exitOnErr, theCall, reading, locked, edits,
                 tables, logs, pre>>

\* BEGIN EXCLUSIVE of another process.
Lock ==
  /\ ~locked /\ ~reading /\ edits < MaxEdits
  /\ locked' = TRUE
  /\ edits' = edits + 1
  /\ UNCHANGED <<received, at, pc, confirmed, exitOnErr, theCall, reading,
                 tables, logs, pre>>

\* Its COMMIT: a script or a trigger is changed, added or removed.
Commit ==
  /\ locked
  /\ locked' = FALSE
  /\ \/ \E s \in DOMAIN scripts, t \in Texts \union {None} :
          /\ scripts' = [scripts EXCEPT ![s] = t]
          /\ UNCHANGED trigaction
     \/ \E s \in Names, a \in Scripts \union {None} :
          /\ trigaction' = [trigaction EXCEPT ![s] = a]
          /\ UNCHANGED scripts
  /\ UNCHANGED <<received, at, pc, confirmed, exitOnErr, theCall, reading,
                 edits, logs, pre>>

----------------------------------------------------------------------------
(* The listener.                                                           *)

\* The messages that xPLListener looks at.
Wanted(m) == confirmed /\ m.all

\* DBUpdateHeartbeatLog.
HeartbeatLogged(m) ==
  IF locked
  THEN missed' = missed \union {at'} /\ UNCHANGED hbeatlog
  ELSE hbeatlog' = [hbeatlog EXCEPT ![m.tag] = at'] /\ UNCHANGED missed

\* xPLListener: a message that is not wanted is done; so is a heartbeat, with
\* logHeartBeatMessage; a trigger goes on to checkTriggerMessage.
Listen ==
  /\ pc = "idle" /\ at < Len(received)
  /\ at' = at + 1
  /\ LET m == received[at + 1]
     IN  /\ IF Wanted(m) /\ m.type = "stat" /\ m.hbeat
            THEN HeartbeatLogged(m) ELSE UNCHANGED <<hbeatlog, missed>>
         /\ pc' = IF Wanted(m) /\ m.type = "trig" THEN "name" ELSE "idle"
  /\ UNCHANGED <<others, exitOnErr, theCall, reading, tables, triglog, pre>>

\* dbReadField: an error is the same as no row.
Read(value) == IF locked THEN None ELSE value

\* Without a preprocess script: for a schema other than these three subAddress
\* is read without having been assigned.
CannedSubs(m) ==
  CASE m.schema = "sensor.basic" -> {m.pair["device"]}
    [] m.schema \in {"hvac.zone", "security.gateway"} -> {m.pair["zone"]}
    [] OTHER -> Subs \union {None}

\* A mutant of NewResult: the hashes of the last script are still there.
KeptResult(t) == result

\* trigExec makes a new p-code header, with empty hashes.
NewResult(t) == None

PairTaken(t, m) ==
  LET p == Takes[t][m.schema] IN IF p = None THEN None ELSE m.pair[p]

\* What the result may be after script t was parsed and executed: if the
\* execution fails, it does so before or after the assignment.
Results(t, m) ==
  IF t \notin Parses THEN {NewResult(t)}
  ELSE LET v == PairTaken(t, m)
           r == IF v = None THEN NewResult(t) ELSE v
       IN  IF t \in Completes THEN {r} ELSE {r, NewResult(t)}

\* A mutant of EndsDaemon: the option is not looked at.
EndsAtError(t) == t \notin Parses \intersect Completes

\* parseHCL and execPcode exit at an error if they were told to.
EndsDaemon(t) == exitOnErr /\ t \notin Parses \intersect Completes

\* parseAndExecTrig fills %xplnvin with the pairs of the message and walks
\* through it: without pairs there is no such hash, and it has no head.
Executes == ~Current.bare

\* The missing hash, or an assertion of ParserExecPcode or sendXPLCommand.
MayAbort(t) == ~Executes \/ t \in Aborts

\* The first half of checkTriggerMessage, up to the name.  A failed read of
\* the script is taken for "not found".
Name ==
  /\ pc = "name"
  /\ LET t == Read(scripts["preprocess"]) IN
     /\ pre' = [pre EXCEPT ![at] = t]
     /\ IF t = None
        THEN /\ \E sub \in CannedSubs(Current) : name' = <<Current.tag, sub>>
             /\ pc' = "lookup"
             /\ UNCHANGED result
        ELSE /\ Executes
             /\ \E sub \in Results(t, Current) :
                  /\ result' = sub
                  /\ name' = IF EndsDaemon(t) THEN name ELSE <<Current.tag, sub>>
             /\ pc' = IF EndsDaemon(t) THEN "exited" ELSE "lookup"
  /\ UNCHANGED <<others, at, exitOnErr, action, code, reading, tables, logs>>

\* The unassigned subAddress points nowhere, or the execution of the script
\* ends the daemon.
Fault ==
  /\ \/ /\ pc = "name"
        /\ LET t == Read(scripts["preprocess"])
           IN  IF t = None THEN Current.schema = "other" ELSE MayAbort(t)
     \/ pc = "act" /\ MayAbort(code)
  /\ pc' = "crashed"
  /\ UNCHANGED <<others, at, exitOnErr, theCall, reading, tables, logs, pre>>

\* A mutant of KeepsLock: the two reads are not in a transaction.
KeepsNoLock(a) == FALSE

\* The first read of a transaction takes the shared lock, which is kept to its
\* end: after the second read, or at once if there is none.
KeepsLock(a) == a # None

\* DBFetchScriptByTag: the trigger table, then the script table.
Lookup ==
  /\ pc = "lookup"
  /\ LET a == Read(trigaction[name]) IN
     /\ action' = a
     /\ reading' = KeepsLock(a)
     /\ pc' = IF a = None THEN "log" ELSE "fetch"
  /\ UNCHANGED <<others, at, exitOnErr, result, name, code, tables, logs, pre>>

Fetch ==
  /\ pc = "fetch"
  /\ code' = Read(scripts[action])
  /\ reading' = FALSE
  /\ pc' = IF code' = None THEN "log" ELSE "act"
  /\ UNCHANGED <<others, at, exitOnErr, result, name, action, tables, logs, pre>>

\* actOnXPLTrig, with hashes of its own.
Act ==
  /\ pc = "act" /\ Executes
  /\ result' \in Results(code, Current)
  /\ pc' = IF EndsDaemon(code) THEN "exited" ELSE "log"
  /\ UNCHANGED <<others, at, exitOnErr, name, action, code, reading, tables,
                 logs, pre>>

\* A mutant of LogName: the source tag alone.
LogTag == <<Current.tag, None>>

\* checkTriggerMessage hands the name back to xPLListener.
LogName == name

\* logTriggerMessage.
Log ==
  /\ pc = "log"
  /\ pc' = "idle"
  /\ IF locked
     THEN missed' = missed \union {at} /\ UNCHANGED triglog
     ELSE triglog' = [triglog EXCEPT ![LogName] = at] /\ UNCHANGED missed
  /\ UNCHANGED <<others, at, exitOnErr, theCall, reading, tables, hbeatlog, pre>>

Daemon == Listen \/ Name \/ Fault \/ Lookup \/ Fetch \/ Act \/ Log

Next ==
  \/ \E m \in Messages : Receive(m)
  \/ HubConfirmed \/ Lock \/ Commit
  \/ Daemon

SafeSpec == Init /\ [][Next]_vars

\* The daemon's loop goes on; the others need not do anything.
Spec == SafeSpec /\ WF_vars(Daemon)

----------------------------------------------------------------------------
(* Properties.                                                             *)

\* Message m has a name if its preprocess script, or the lack of one, gives
\* it one.
HasName(m, t) ==
  IF t = None THEN m.schema # "other" ELSE t \notin Parses \ Completes

NameOf(m, t) ==
  LET p == IF t \in Texts
           THEN IF t \in Parses THEN Takes[t][m.schema] ELSE None
           ELSE IF m.schema = "sensor.basic" THEN "device" ELSE "zone"
  IN  <<m.tag, IF p = None THEN None ELSE m.pair[p]>>

(***************************************************************************)
(* The name under which a trigger is looked up comes from this message and *)
(* the preprocess script that was read for it, never from an earlier       *)
(* message or script (checkTriggerMessage).                                *)
(***************************************************************************)
NameRight ==
  pc \in {"lookup", "fetch", "act", "log"} /\ HasName(Current, pre[at])
    => name = NameOf(Current, pre[at])

(***************************************************************************)
(* The script that is executed is the one that the two tables together     *)
(* have for the name, at one moment, whatever other processes edit between *)
(* the two reads (DBFetchScriptByTag).                                     *)
(***************************************************************************)
PairedRight ==
  [][pc = "fetch" /\ pc' # "fetch"
       => /\ action = trigaction'[name]
          /\ code' = scripts'[trigaction'[name]]]_vars

\* Message i was handled as a trigger, and may have been logged under name s.
Triggered(i) == pre[i] # Unread
MayBeNamed(i, s) ==
  /\ Triggered(i)
  /\ HasName(received[i], pre[i]) => s = NameOf(received[i], pre[i])

(***************************************************************************)
(* "The database keeps track of the most recent heartbeat and trigger      *)
(* messages received" (README): between messages, the log has for a name   *)
(* the last trigger that was handled under it, except where the update     *)
(* itself failed; no message has more than one row, and the heartbeat log  *)
(* has heartbeats.                                                         *)
(***************************************************************************)
MostRecent ==
  pc = "idle" =>
    \A i \in 1 .. at :
      /\ \A t \in Tags : hbeatlog[t] = i =>
           received[i].hbeat /\ received[i].tag = t /\ ~Triggered(i)
      /\ \A s, t \in Names : triglog[s] = i /\ triglog[t] = i => s = t
      /\ Triggered(i) /\ i \notin missed /\ HasName(received[i], pre[i]) =>
           LET s == NameOf(received[i], pre[i])
           IN  triglog[s] = i \/ \E j \in i + 1 .. at :
                                   MayBeNamed(j, s) /\ triglog[s] >= i

\* A trigger for which the listener itself does not end the daemon: it has a
\* pair, and its sub-address is assigned without a preprocess script.
Harmless(m) == m.type = "trig" => ~m.bare /\ m.schema # "other"

\* No script that may fail an assertion is there.
Sound == \A s \in DOMAIN scripts : scripts[s] \notin Aborts

(***************************************************************************)
(* No script with an error that the code reports - it does not parse, its  *)
(* execution fails - and no locked database keeps the daemon from handling *)
(* what comes next, unless it was told to end at an error.  Excepted are   *)
(* what ends the daemon at once: a trigger without pairs or with a schema  *)
(* that leaves subAddress unassigned, and a script that fails an assertion *)
(* (parseAndExecTrig, checkTriggerMessage, ParserExecPcode).               *)
(***************************************************************************)
Handled ==
  []Sound =>
    \A i \in Numbers :
      (/\ Len(received) >= i /\ ~exitOnErr
       /\ \A j \in 1 .. i : Harmless(received[j]))
        ~> (at > i \/ (at = i /\ pc = "idle"))

============================================================================
