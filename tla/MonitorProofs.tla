--------------------------- MODULE MonitorProofs ----------------------------
(***************************************************************************)
(* Theorems about the two parts of monitor.c that run without a client:    *)
(* the dispatch of triggers (Trigger), for all messages, scripts and edits *)
(* by other processes, and the schedule (Scheduler), for all tables,       *)
(* times, ticks and reloads.  They share no state.                         *)
(***************************************************************************)
EXTENDS Trigger, Scheduler, SequenceTheorems, FiniteSetTheorems, TLAPS

----------------------------------------------------------------------------
(* The dispatch of triggers.                                               *)

PCs == {"idle", "name", "lookup", "fetch", "act", "log", "exited", "crashed"}

\* The part of the types that the names rest on.
TypeInv ==
  /\ received \in Seq(Messages) /\ Len(received) <= MaxMessages
  /\ at \in 0 .. Len(received)
  /\ pc \in PCs
  /\ pc # "idle" => at >= 1
  /\ DOMAIN pre = Numbers

\* The daemon and another process are never in the database together, and the
\* daemon stays there between its two reads.
LockInv ==
  /\ locked \in BOOLEAN /\ reading \in BOOLEAN
  /\ ~(locked /\ reading)
  /\ pc = "fetch" => reading /\ action = trigaction[name]

\* The daemon has a name for the message that it handles.
Handling == {"lookup", "fetch", "act", "log"}

\* It is the name that the message should have.
NameInv ==
  pc \in Handling /\ HasName(Current, pre[at])
    => name = NameOf(Current, pre[at])

ScriptsInv == scripts \in [Scripts \union {"preprocess"} -> Texts \union {None}]

IInv == TypeInv /\ LockInv /\ ScriptsInv /\ NameInv

----------------------------------------------------------------------------

\* The initial states.
LEMMA InitInv == Init => IInv
<1> SUFFICES ASSUME Init PROVE IInv
  OBVIOUS
<1>1. <<>> \in Seq(Messages) /\ Len(<<>>) = 0 /\ MaxMessages \in Nat
  BY TriggerAssumption DEF TriggerAssumption
<1>2. TypeInv
  BY <1>1 DEF Init, TypeInv, PCs
<1>3. LockInv /\ ScriptsInv /\ NameInv
  BY DEF Init, LockInv, ScriptsInv, NameInv, Handling
<1>4. QED
  BY <1>2, <1>3 DEF IInv

\* The message that is handled stays while others arrive.
LEMMA CurrentStays ==
  ASSUME TypeInv, NEW m \in Messages, Receive(m)
  PROVE  /\ received' \in Seq(Messages) /\ Len(received') = Len(received) + 1
         /\ at >= 1 => Current' = Current
<1>1. /\ received \in Seq(Messages) /\ Len(received) \in Nat
      /\ at \in 0 .. Len(received)
  BY LenProperties DEF TypeInv
<1>2. received' = Append(received, m) /\ at' = at
  BY DEF Receive
<1>3. /\ received' \in Seq(Messages) /\ Len(received') = Len(received) + 1
      /\ \A i \in 1 .. Len(received) : received'[i] = received[i]
  BY <1>1, <1>2, AppendProperties
<1>4. QED
  BY <1>1, <1>2, <1>3 DEF Current

\* The message that is handled is one.
LEMMA CurrentType ==
  ASSUME TypeInv, at >= 1
  PROVE  /\ Current \in Messages /\ Current \in Message /\ at \in Numbers
<1>1. received \in Seq(Messages) /\ at \in 1 .. Len(received)
  BY LenProperties DEF TypeInv
<1>2. Current \in Messages
  BY <1>1, ElementOfSeq DEF Current
<1>3. at \in Numbers
  BY <1>1, TriggerAssumption, LenProperties DEF TypeInv, Numbers,
         TriggerAssumption
<1>4. QED
  BY <1>2, <1>3, TriggerAssumption DEF TriggerAssumption

\* Types.
LEMMA TypeKept == TypeInv /\ [Next]_vars => TypeInv'
<1> SUFFICES ASSUME TypeInv, [Next]_vars PROVE TypeInv'
  OBVIOUS
<1>a. Len(received) \in Nat /\ MaxMessages \in Nat
  BY TriggerAssumption, LenProperties DEF TypeInv, TriggerAssumption
<1> USE DEF TypeInv, PCs
<1>1. ASSUME NEW m \in Messages, Receive(m) PROVE TypeInv'
  BY <1>1, <1>a, CurrentStays DEF Receive
<1>2. CASE HubConfirmed
  BY <1>2 DEF HubConfirmed
<1>3. CASE Lock
  BY <1>3 DEF Lock
<1>4. CASE Commit
  BY <1>4 DEF Commit
<1>5. CASE Listen
  BY <1>5, <1>a DEF Listen, others
<1>6. CASE Name
  <2>1. pc' \in {"lookup", "exited"} /\ pc = "name"
    BY <1>6 DEF Name
  <2>2. received' = received /\ at' = at /\ DOMAIN pre' = DOMAIN pre
    BY <1>6 DEF Name, others
  <2>3. QED
    BY <2>1, <2>2
<1>7. CASE Fault
  BY <1>7 DEF Fault, others
<1>8. CASE Lookup
  BY <1>8 DEF Lookup, others
<1>9. CASE Fetch
  BY <1>9 DEF Fetch, others
<1>10. CASE Act
  BY <1>10 DEF Act, others
<1>11. CASE Log
  BY <1>11 DEF Log, others
<1>12. CASE UNCHANGED vars
  BY <1>12 DEF vars, others
<1>13. QED
  BY <1>1, <1>2, <1>3, <1>4, <1>5, <1>6, <1>7, <1>8, <1>9, <1>10, <1>11, <1>12
     DEF Next, Daemon

\* Locks: nobody edits between the two reads.
LEMMA LockKept == TypeInv /\ LockInv /\ [Next]_vars => LockInv'
<1> SUFFICES ASSUME TypeInv, LockInv, [Next]_vars PROVE LockInv'
  OBVIOUS
<1> USE DEF LockInv
<1>1. ASSUME NEW m \in Messages, Receive(m) PROVE LockInv'
  BY <1>1 DEF Receive, theCall, tables
<1>2. CASE HubConfirmed
  BY <1>2 DEF HubConfirmed, theCall, tables
<1>3. CASE Lock
  BY <1>3 DEF Lock, theCall, tables
<1>4. CASE Commit
  BY <1>4 DEF Commit, theCall
<1>5. CASE Listen
  BY <1>5 DEF Listen, others, theCall, tables
<1>6. CASE Name
  BY <1>6 DEF Name, others, tables
<1>7. CASE Fault
  BY <1>7 DEF Fault, others, theCall, tables
<1>8. CASE Lookup
  BY <1>8 DEF Lookup, Read, KeepsLock, others, tables
<1>9. CASE Fetch
  BY <1>9 DEF Fetch, others, tables
<1>10. CASE Act
  BY <1>10 DEF Act, others, tables
<1>11. CASE Log
  BY <1>11 DEF Log, others, theCall, tables
<1>12. CASE UNCHANGED vars
  BY <1>12 DEF vars, others, theCall, tables
<1>13. QED
  BY <1>1, <1>2, <1>3, <1>4, <1>5, <1>6, <1>7, <1>8, <1>9, <1>10, <1>11, <1>12
     DEF Next, Daemon

\* The name that is made without a preprocess script.
LEMMA CannedName ==
  ASSUME NEW m \in Message, m.schema # "other", NEW sub \in CannedSubs(m)
  PROVE  <<m.tag, sub>> = NameOf(m, None)
<1>1. m.schema \in Schemas /\ None \notin Texts /\ None \notin Pairs
  BY TriggerAssumption DEF Message, TriggerAssumption
<1>2. CASE m.schema = "sensor.basic"
  <2>1. sub = m.pair["device"]
    BY <1>2, Zenon DEF CannedSubs
  <2>2. None # "device"
    BY <1>1 DEF Pairs
  <2>3. QED
    BY <1>1, <1>2, <2>1, <2>2 DEF NameOf
<1>3. CASE m.schema # "sensor.basic"
  <2>1. m.schema \in {"hvac.zone", "security.gateway"}
    BY <1>1, <1>3 DEF Schemas
  <2>2. sub = m.pair["zone"]
    BY <1>3, <2>1, Zenon DEF CannedSubs
  <2>3. None # "zone"
    BY <1>1 DEF Pairs
  <2>4. QED
    BY <1>1, <1>3, <2>2, <2>3 DEF NameOf
<1>4. QED
  BY <1>2, <1>3

\* The name that a preprocess script makes, if it completes or does not parse.
LEMMA ScriptName ==
  ASSUME NEW m \in Message, NEW t, t # None, HasName(m, t),
         t \in Texts, NEW sub \in Results(t, m)
  PROVE  <<m.tag, sub>> = NameOf(m, t)
<1>1. t \notin Parses \/ t \in Completes
  BY DEF HasName
<1>2. CASE t \notin Parses
  BY <1>2 DEF Results, NewResult, NameOf
<1>3. CASE t \in Parses /\ t \in Completes
  BY <1>3 DEF Results, NewResult, PairTaken, NameOf
<1>4. QED
  BY <1>1, <1>2, <1>3

\* Names: checkTriggerMessage makes one from the message and the script that
\* it has read, and keeps it until the log is written.
LEMMA NameKept == TypeInv /\ ScriptsInv /\ NameInv /\ [Next]_vars => NameInv'
<1> SUFFICES ASSUME TypeInv, ScriptsInv, NameInv, [Next]_vars PROVE NameInv'
  OBVIOUS
\* A step that leaves the message, its script and the name alone.
<1>a. ASSUME UNCHANGED <<received, at, name, pre>>,
             pc' \in Handling => pc \in Handling
      PROVE  NameInv'
  BY <1>a DEF NameInv, Current
<1>b. pc \in Handling => pc # "idle"
  BY DEF Handling
<1>1. ASSUME NEW m \in Messages, Receive(m) PROVE NameInv'
  <2>1. pc' = pc /\ at' = at /\ name' = name /\ pre' = pre
    BY <1>1 DEF Receive, theCall
  <2>2. pc \in Handling => Current' = Current
    BY <1>1, <1>b, CurrentStays DEF TypeInv
  <2>3. QED
    BY <2>1, <2>2 DEF NameInv
<1>2. CASE HubConfirmed
  BY <1>2, <1>a DEF HubConfirmed, theCall
<1>3. CASE Lock
  BY <1>3, <1>a DEF Lock, theCall
<1>4. CASE Commit
  BY <1>4, <1>a DEF Commit, theCall
<1>5. CASE Listen
  <2>1. pc' \in {"name", "idle"}
    BY <1>5 DEF Listen
  <2>2. QED
    BY <2>1 DEF NameInv, Handling
<1>6. CASE Name
  <2> DEFINE t == Read(scripts["preprocess"])
  <2>1. /\ Current' = Current /\ Current \in Message /\ at' = at
        /\ at \in DOMAIN pre /\ pre' = [pre EXCEPT ![at] = t] /\ pc = "name"
    BY <1>6, CurrentType DEF Name, others, Current, TypeInv
  <2>2. pre'[at'] = t
    BY <2>1
  <2>3. SUFFICES ASSUME pc' \in Handling, HasName(Current, t)
                 PROVE  name' = NameOf(Current, t)
    BY <2>1, <2>2 DEF NameInv
  <2>4. CASE t = None
    <3>1. PICK sub \in CannedSubs(Current) : name' = <<Current.tag, sub>>
      BY <1>6, <2>4 DEF Name
    <3>2. Current.schema # "other"
      BY <2>3, <2>4 DEF HasName
    <3>3. QED
      BY <2>1, <2>4, <3>1, <3>2, CannedName
  <2>5. CASE t # None
    <3>1. t \in Texts
      BY <2>5 DEF Read, ScriptsInv
    <3>2. ~EndsDaemon(t)
      BY <1>6, <2>3, <2>5 DEF Name, Handling
    <3>3. PICK sub \in Results(t, Current) : name' = <<Current.tag, sub>>
      BY <1>6, <2>5, <3>2 DEF Name
    <3>4. QED
      BY <2>1, <2>3, <2>5, <3>1, <3>3, ScriptName
  <2>6. QED
    BY <2>4, <2>5
<1>7. CASE Fault
  BY <1>7 DEF Fault, NameInv, Handling
<1>8. CASE Lookup
  BY <1>8, <1>a DEF Lookup, others, Handling
<1>9. CASE Fetch
  BY <1>9, <1>a DEF Fetch, others, Handling
<1>10. CASE Act
  BY <1>10, <1>a DEF Act, others, Handling
<1>11. CASE Log
  BY <1>11 DEF Log, NameInv, Handling
<1>12. CASE UNCHANGED vars
  BY <1>12, <1>a DEF vars, others, theCall
<1>13. QED
  BY <1>1, <1>2, <1>3, <1>4, <1>5, <1>6, <1>7, <1>8, <1>9, <1>10, <1>11, <1>12
     DEF Next, Daemon

\* The table of scripts has texts.
LEMMA ScriptsKept == ScriptsInv /\ [Next]_vars => ScriptsInv'
<1> SUFFICES ASSUME ScriptsInv, [Next]_vars PROVE ScriptsInv'
  OBVIOUS
<1>1. CASE Commit
  BY <1>1 DEF Commit, ScriptsInv
<1>2. CASE ~Commit
  <2>1. scripts' = scripts
    BY <1>2 DEF Next, Daemon, Receive, HubConfirmed, Lock, Listen, Name,
           Fault,
                Lookup, Fetch, Act, Log, vars, tables
  <2>2. QED
    BY <2>1 DEF ScriptsInv
<1>3. QED
  BY <1>1, <1>2

\* The name of a trigger is one of the names of the logs, however it was made.
LEMMA NameTyped ==
  ASSUME TypeOK, Name, pc' = "lookup"
  PROVE  name' \in Names
<1> DEFINE t == Read(scripts["preprocess"])
           m == Current
<1>1. TypeInv /\ at >= 1
  BY LenProperties DEF TypeOK, TypeInv, Name, PCs
<1>2. /\ m \in Message /\ m.tag \in Tags /\ m.schema \in Schemas
      /\ \A p \in Pairs : m.pair[p] \in Subs \union {None}
  BY <1>1, CurrentType DEF Message
<1>3. t \in Texts \union {None}
  BY DEF Read, TypeOK
<1> HIDE DEF m
<1>4. \E sub \in Subs \union {None} : name' = <<m.tag, sub>>
  <2>1. CASE t = None
    <3>1. PICK sub \in CannedSubs(m) : name' = <<m.tag, sub>>
      BY <2>1 DEF Name, m
    <3>2. CASE m.schema = "sensor.basic"
      <4>1. sub = m.pair["device"]
        BY <3>1, <3>2, Zenon DEF CannedSubs
      <4>2. QED
        BY <1>2, <3>1, <4>1 DEF Pairs
    <3>3. CASE m.schema \in {"hvac.zone", "security.gateway"}
      <4>1. sub = m.pair["zone"]
        <5>1. m.schema # "sensor.basic"
          BY <3>3
        <5>2. QED
          BY <3>1, <3>3, <5>1, Zenon DEF CannedSubs
      <4>2. QED
        BY <1>2, <3>1, <4>1 DEF Pairs
    <3>4. CASE m.schema = "other"
      <4>1. CannedSubs(m) = Subs \union {None}
        <5>1. /\ m.schema # "sensor.basic"
              /\ m.schema \notin {"hvac.zone", "security.gateway"}
          BY <3>4
        <5>2. QED
          BY <5>1, Zenon DEF CannedSubs
      <4>2. QED
        BY <3>1, <4>1
    <3>5. QED
      BY <1>2, <3>2, <3>3, <3>4 DEF Schemas
  <2>2. CASE t # None
    <3>1. ~EndsDaemon(t)
      BY <2>2 DEF Name
    <3>2. PICK sub \in Results(t, m) : name' = <<m.tag, sub>>
      BY <2>2, <3>1 DEF Name, m
    <3>3. Takes[t][m.schema] \in Pairs \union {None}
      BY <1>2, <1>3, <2>2, TriggerAssumption DEF TriggerAssumption
    <3>4. PairTaken(t, m) \in Subs \union {None}
      BY <1>2, <3>3 DEF PairTaken
    <3>5. sub \in Subs \union {None}
      BY <3>2, <3>4 DEF Results, NewResult
    <3>6. QED
      BY <3>2, <3>5
  <2>3. QED
    BY <2>1, <2>2
<1>5. QED
  BY <1>2, <1>4 DEF Names

\* What a script leaves in the hash is a value, or none.
LEMMA ResultsTyped ==
  ASSUME TypeOK, at >= 1, NEW t \in Texts
  PROVE  Results(t, Current) \subseteq Subs \union {None}
<1> DEFINE m == Current
<1>1. TypeInv
  BY LenProperties DEF TypeOK, TypeInv, PCs
<1>2. /\ m.schema \in Schemas
      /\ \A p \in Pairs : m.pair[p] \in Subs \union {None}
  BY <1>1, CurrentType DEF Message
<1> HIDE DEF m
<1>3. Takes[t][m.schema] \in Pairs \union {None}
  BY <1>2, TriggerAssumption DEF TriggerAssumption
<1>4. PairTaken(t, m) \in Subs \union {None}
  BY <1>2, <1>3 DEF PairTaken
<1>5. QED
  BY <1>4 DEF Results, NewResult, m

\* The initial states are in the types.
LEMMA TypeOKInit == Init => TypeOK
<1> SUFFICES ASSUME Init PROVE TypeOK
  OBVIOUS
<1>1. /\ <<>> \in Seq(Messages) /\ Len(<<>>) = 0
      /\ MaxMessages \in Nat /\ MaxEdits \in Nat
  BY TriggerAssumption DEF TriggerAssumption
<1>2. /\ received = <<>> /\ at = 0 /\ pc = "idle" /\ edits = 0
      /\ confirmed = FALSE /\ exitOnErr \in BOOLEAN
      /\ reading = FALSE /\ locked = FALSE
      /\ result = None /\ name = None /\ action = None /\ code = None
      /\ scripts \in [Scripts \union {"preprocess"} -> Texts \union {None}]
      /\ missed = {}
  BY DEF Init
<1>3. trigaction \in [Names -> Scripts \union {None}]
  BY DEF Init
<1>4. /\ triglog \in [Names -> 0 .. MaxMessages]
      /\ hbeatlog \in [Tags -> 0 .. MaxMessages]
  BY <1>1 DEF Init
<1>5. pre \in [Numbers -> Texts \union {None, Unread}]
  BY DEF Init
<1>6. /\ received \in Seq(Messages) /\ Len(received) <= MaxMessages
      /\ at \in 0 .. Len(received) /\ edits \in 0 .. MaxEdits
  BY <1>1, <1>2
<1>7. QED
  BY <1>2, <1>3, <1>4, <1>5, <1>6 DEF TypeOK

\* Types: each step keeps all of them.
LEMMA TypeOKKept == TypeOK /\ [Next]_vars => TypeOK'
<1> SUFFICES ASSUME TypeOK, [Next]_vars PROVE TypeOK'
  OBVIOUS
<1>a. Len(received) \in Nat /\ MaxMessages \in Nat /\ MaxEdits \in Nat
  BY TriggerAssumption, LenProperties DEF TypeOK, TriggerAssumption
<1>b. TypeInv
  BY LenProperties DEF TypeOK, TypeInv, PCs
<1>c. at >= 1 => at \in Numbers
  BY <1>a DEF TypeOK, Numbers
<1> USE DEF TypeOK
<1>1. ASSUME NEW m \in Messages, Receive(m) PROVE TypeOK'
  <2>1. received' \in Seq(Messages) /\ Len(received') = Len(received) + 1
    BY <1>1, <1>b, CurrentStays
  <2>2. Len(received) < MaxMessages
    BY <1>1 DEF Receive
  <2>3. /\ Len(received') <= MaxMessages /\ at \in 0 .. Len(received')
        /\ at \in 1 .. Len(received) => at \in 1 .. Len(received')
    BY <1>a, <2>1, <2>2
  <2>4. QED
    BY <1>1, <2>1, <2>3 DEF Receive, theCall, tables, logs
<1>2. CASE HubConfirmed
  BY <1>2 DEF HubConfirmed, theCall, tables, logs
<1>3. CASE Lock
  BY <1>3, <1>a DEF Lock, theCall, tables, logs
<1>4. CASE Commit
  <2>1. scripts' \in [Scripts \union {"preprocess"} -> Texts \union {None}]
    BY <1>4 DEF Commit
  <2>2. trigaction' \in [Names -> Scripts \union {None}]
    BY <1>4 DEF Commit
  <2>3. QED
    BY <1>4, <2>1, <2>2 DEF Commit, theCall, logs
<1>5. CASE Listen
  <2>1. /\ at' \in 1 .. Len(received) /\ at' \in 0 .. MaxMessages
        /\ at' \in Numbers /\ at' \in 0 .. Len(received)
    BY <1>5, <1>a DEF Listen, Numbers
  <2>2. received[at + 1] \in Message /\ received[at + 1].tag \in Tags
    <3>1. received[at + 1] \in Messages
      BY <1>5, <1>a, <2>1, ElementOfSeq DEF Listen
    <3>2. QED
      BY <3>1, TriggerAssumption DEF TriggerAssumption, Message
  <2>3. hbeatlog' \in [Tags -> 0 .. MaxMessages] /\ missed' \subseteq Numbers
    BY <1>5, <2>1, <2>2 DEF Listen, HeartbeatLogged
  <2>4. pc = "idle" /\ pc' \in {"idle", "name"}
    BY <1>5 DEF Listen
  <2>5. UNCHANGED <<others, exitOnErr, theCall, reading, tables, triglog, pre>>
    BY <1>5 DEF Listen
  <2>6. QED
    BY <2>1, <2>3, <2>4, <2>5 DEF others, theCall, tables
<1>6. CASE Name
  <2> DEFINE t == Read(scripts["preprocess"])
  <2>1. t \in Texts \union {None}
    BY DEF Read
  <2>2. /\ pc = "name" /\ pc' \in {"lookup", "exited"}
        /\ pre' = [pre EXCEPT ![at] = t]
        /\ UNCHANGED <<others, at, exitOnErr, action, code, reading, tables,
                       logs>>
    BY <1>6 DEF Name
  <2>3. pre' \in [Numbers -> Texts \union {None, Unread}]
    BY <2>1, <2>2
  <2>4. pc' = "lookup" => name' \in Names
    BY <1>6, NameTyped
  <2>5. at >= 1
    BY <2>2
  <2>6. result' \in Subs \union {None}
    <3>1. CASE t = None
      BY <1>6, <3>1 DEF Name
    <3>2. CASE t # None
      BY <1>6, <2>1, <2>5, <3>2, ResultsTyped DEF Name
    <3>3. QED
      BY <3>1, <3>2
  <2>7. name' \in Names \union {None}
    <3>1. CASE pc' = "exited"
      BY <1>6, <3>1 DEF Name
    <3>2. QED
      BY <2>2, <2>4, <3>1
  <2>8. QED
    BY <2>2, <2>3, <2>4, <2>6, <2>7 DEF others, tables, logs
<1>7. CASE Fault
  <2>1. pc \in {"name", "act"} /\ pc' = "crashed"
    BY <1>7 DEF Fault
  <2>2. UNCHANGED <<others, at, exitOnErr, theCall, reading, tables, logs, pre>>
    BY <1>7 DEF Fault
  <2>3. QED
    BY <2>1, <2>2 DEF others, theCall, tables, logs
<1>8. CASE Lookup
  <2>1. /\ pc = "lookup" /\ name \in Names
        /\ action' \in Scripts \union {None}
        /\ reading' = (action' # None)
        /\ pc' = IF action' = None THEN "log" ELSE "fetch"
        /\ locked => action' = None
    BY <1>8 DEF Lookup, Read, KeepsLock
  <2>2. UNCHANGED <<others, at, exitOnErr, result, name, code, tables, logs,
                    pre>>
    BY <1>8 DEF Lookup
  <2>3. QED
    BY <2>1, <2>2 DEF others, tables, logs
<1>9. CASE Fetch
  <2>1. /\ pc = "fetch" /\ code' \in Texts \union {None} /\ reading' = FALSE
        /\ pc' = IF code' = None THEN "log" ELSE "act"
    BY <1>9 DEF Fetch, Read
  <2>2. UNCHANGED <<others, at, exitOnErr, result, name, action, tables, logs,
                    pre>>
    BY <1>9 DEF Fetch
  <2>3. QED
    BY <2>1, <2>2 DEF others, tables, logs
<1>10. CASE Act
  <2>1. /\ pc = "act" /\ code \in Texts /\ pc' \in {"log", "exited"}
        /\ result' \in Results(code, Current)
    BY <1>10 DEF Act
  <2>2. result' \in Subs \union {None}
    BY <2>1, ResultsTyped
  <2>3. UNCHANGED <<others, at, exitOnErr, name, action, code, reading, tables,
                    logs, pre>>
    BY <1>10 DEF Act
  <2>4. QED
    BY <2>1, <2>2, <2>3 DEF others, tables, logs
<1>11. CASE Log
  <2>1. pc = "log" /\ pc' = "idle" /\ at \in Numbers /\ at \in 0 .. MaxMessages
    BY <1>11, <1>a, <1>c DEF Log
  <2>2. triglog' \in [Names -> 0 .. MaxMessages] /\ missed' \subseteq Numbers
    BY <1>11, <2>1 DEF Log
  <2>3. UNCHANGED <<others, at, exitOnErr, theCall, reading, tables, hbeatlog,
                    pre>>
    BY <1>11 DEF Log
  <2>4. QED
    BY <2>1, <2>2, <2>3 DEF others, theCall, tables
<1>12. CASE UNCHANGED vars
  BY <1>12 DEF vars, others, theCall, tables, logs
<1>13. QED
  BY <1>1, <1>2, <1>3, <1>4, <1>5, <1>6, <1>7, <1>8, <1>9, <1>10, <1>11, <1>12
     DEF Next, Daemon

\* The messages that the daemon is done with.
Done == IF pc = "idle" THEN at ELSE at - 1

\* A script is read for a message when its name is made, and not before.
HistoryInv ==
  /\ \A i \in Numbers :
       i > at \/ (i = at /\ pc = "name") => ~Triggered(i)
  /\ pc \in Handling => Triggered(at)

\* The logs have messages that the daemon is done with; a script was read for
\* none of those in the heartbeat log.
LogsInv ==
  /\ \A s \in Names : triglog[s] <= Done
  /\ \A t \in Tags : hbeatlog[t] <= Done
  /\ \A i \in 1 .. Done, t \in Tags : hbeatlog[t] = i =>
       received[i].hbeat /\ received[i].tag = t /\ ~Triggered(i)
  /\ \A i \in 1 .. Done, s, t \in Names :
       triglog[s] = i /\ triglog[t] = i => s = t

\* Message i, or a later one that may have had its name, is in the log under
\* the name s.
Kept(i, s) ==
  \/ triglog[s] = i
  \/ \E j \in i + 1 .. Done : MayBeNamed(j, s) /\ triglog[s] >= i

\* Each trigger that was logged is there, or a later one under its name.
RecentInv ==
  \A i \in 1 .. Done :
    Triggered(i) /\ i \notin missed /\ HasName(received[i], pre[i]) =>
      Kept(i, NameOf(received[i], pre[i]))

\* What MostRecent rests on; with TypeOK and NameInv it is inductive.
LogInv == HistoryInv /\ LogsInv /\ RecentInv

\* The logs are empty.
LEMMA LogInvInit == Init => LogInv
<1> SUFFICES ASSUME Init PROVE LogInv
  OBVIOUS
<1>1. Done = 0 /\ pc = "idle"
  BY DEF Init, Done
<1>2. \A i \in Numbers : ~Triggered(i)
  BY DEF Init, Triggered
<1>3. (\A s \in Names : triglog[s] = 0) /\ (\A t \in Tags : hbeatlog[t] = 0)
  BY DEF Init
<1>4. QED
  BY <1>1, <1>2, <1>3 DEF LogInv, HistoryInv, LogsInv, RecentInv, Handling

\* What is done, in numbers.
LEMMA DoneType ==
  ASSUME TypeOK
  PROVE  /\ Done \in Nat /\ at \in Nat /\ Done <= at /\ Len(received) \in Nat
         /\ 1 .. Done \subseteq 1 .. Len(received)
         /\ 1 .. Done \subseteq Numbers
         /\ \A s \in Names : triglog[s] \in Nat
         /\ \A t \in Tags : hbeatlog[t] \in Nat
<1>1. Len(received) \in Nat /\ MaxMessages \in Nat
  BY LenProperties, TriggerAssumption DEF TypeOK, TriggerAssumption
<1>2. QED
  BY <1>1 DEF TypeOK, Done, Numbers

\* A step that leaves the logs, and what is known of the messages that the
\* daemon is done with, as they are.
LEMMA LogStays ==
  ASSUME TypeOK, LogInv, HistoryInv', UNCHANGED <<triglog, hbeatlog, missed>>,
         Done' = Done,
         \A i \in 1 .. Done : received'[i] = received[i] /\ pre'[i] = pre[i]
  PROVE  LogInv'
<1>1. /\ Done \in Nat
      /\ \A i \in 1 .. Done :
           (Triggered(i) <=> Triggered(i)') /\ received'[i] = received[i]
      /\ \A i \in 1 .. Done : \A s : MayBeNamed(i, s) <=> MayBeNamed(i, s)'
      /\ \A i \in 1 .. Done : pre'[i] = pre[i]
  BY DoneType DEF Triggered, MayBeNamed
<1>2. LogsInv'
  BY <1>1 DEF LogInv, LogsInv
<1>3. ASSUME NEW i \in 1 .. Done, NEW s, Kept(i, s)
      PROVE  Kept(i, s)'
  <2>1. \A j \in i + 1 .. Done : j \in 1 .. Done
    BY <1>1
  <2>2. triglog' = triglog /\ Done' = Done
    OBVIOUS
  <2>3. QED
    BY <1>1, <1>3, <2>1, <2>2 DEF Kept
<1>4. RecentInv'
  <2>1. ASSUME NEW i \in 1 .. Done', Triggered(i)', i \notin missed',
               HasName(received'[i], pre'[i])
        PROVE  Kept(i, NameOf(received[i], pre[i]))'
    <3>1. /\ i \in 1 .. Done /\ Triggered(i) /\ i \notin missed
          /\ HasName(received[i], pre[i])
      BY <1>1, <2>1
    <3>2. PICK s : s = NameOf(received[i], pre[i])
      OBVIOUS
    <3>3. Kept(i, s) /\ NameOf(received'[i], pre'[i]) = s
      BY <1>1, <3>1, <3>2 DEF LogInv, RecentInv
    <3>4. Kept(i, s)'
      BY <1>3, <3>1, <3>3
    <3>5. QED
      BY <3>3, <3>4 DEF Kept
  <2>2. QED
    BY <2>1 DEF RecentInv
<1>5. QED
  BY <1>2, <1>4 DEF LogInv

\* xPLListener: a heartbeat has the next number.
LEMMA ListenLogs ==
  ASSUME TypeOK, LogInv, Listen
  PROVE  LogInv'
<1> DEFINE n == at + 1
           m == received[n]
<1>1. /\ pc = "idle" /\ n <= Len(received) /\ at' = n /\ received' = received
      /\ UNCHANGED <<triglog, pre>>
      /\ pc' \in {"idle", "name"}
      /\ \/ UNCHANGED <<hbeatlog, missed>>
         \/ /\ pc' = "idle" /\ m.hbeat /\ missed \subseteq missed'
            /\ \/ UNCHANGED hbeatlog
               \/ hbeatlog' = [hbeatlog EXCEPT ![m.tag] = n]
  <2>1. /\ pc = "idle" /\ n <= Len(received) /\ at' = n
        /\ UNCHANGED <<others, triglog, pre>>
        /\ pc' = IF Wanted(m) /\ m.type = "trig" THEN "name" ELSE "idle"
        /\ IF Wanted(m) /\ m.type = "stat" /\ m.hbeat
           THEN HeartbeatLogged(m) ELSE UNCHANGED <<hbeatlog, missed>>
    <3>1. at < Len(received) /\ at \in Nat /\ Len(received) \in Nat
      BY DoneType DEF Listen
    <3>2. QED
      BY <3>1 DEF Listen
  <2>2. CASE Wanted(m) /\ m.type = "stat" /\ m.hbeat
    <3>1. pc' = "idle"
      BY <2>1, <2>2
    <3>2. \/ missed' = missed \union {at'} /\ UNCHANGED hbeatlog
          \/ hbeatlog' = [hbeatlog EXCEPT ![m.tag] = at'] /\ UNCHANGED missed
      BY <2>1, <2>2 DEF HeartbeatLogged
    <3>3. QED
      BY <2>1, <2>2, <3>1, <3>2 DEF others
  <2>3. CASE ~(Wanted(m) /\ m.type = "stat" /\ m.hbeat)
    BY <2>1, <2>3 DEF others
  <2>4. QED
    BY <2>2, <2>3
<1>2. /\ Done \in Nat /\ at = Done /\ at \in Nat /\ Len(received) \in Nat
      /\ \A s \in Names : triglog[s] \in Nat
      /\ \A t \in Tags : hbeatlog[t] \in Nat
  BY <1>1, DoneType DEF Done
<1>3. Done' = IF pc' = "idle" THEN n ELSE at
  BY <1>1, <1>2 DEF Done
<1>4. n \in Numbers /\ n \in 1 .. Len(received)
  BY <1>1, <1>2, TriggerAssumption DEF TypeOK, Numbers, TriggerAssumption
<1>5. m.tag \in Tags
  BY <1>4, ElementOfSeq, TriggerAssumption DEF TypeOK, Message,
         TriggerAssumption
<1>6. \A i \in Numbers : i > at => ~Triggered(i) /\ ~Triggered(i)'
  BY <1>1 DEF LogInv, HistoryInv, Triggered
<1>7. HistoryInv'
  <2>1. \A i \in Numbers : i > n \/ i = n => i > at
    BY <1>2, TriggerAssumption DEF Numbers, TriggerAssumption
  <2>2. QED
    BY <1>1, <1>6, <2>1 DEF HistoryInv, Handling
<1>8. /\ Done' \in Nat /\ Done <= Done' /\ Done' <= n
      /\ \A i \in 1 .. Done' : i \in 1 .. Done \/ i = n
  BY <1>2, <1>3
<1> HIDE DEF m, n
<1>9. \A t \in Tags : \/ hbeatlog'[t] = hbeatlog[t]
                      \/ hbeatlog'[t] = n /\ t = m.tag /\ m.hbeat /\ Done' = n
  BY <1>1, <1>3, <1>5 DEF TypeOK
<1>10. \A i \in 1 .. n :
         (Triggered(i) <=> Triggered(i)') /\ received'[i] = received[i]
  BY <1>1 DEF Triggered
<1>11. ~Triggered(n)
  BY <1>2, <1>4, <1>6 DEF n
<1>12. LogsInv'
  <2>1. \A s \in Names : triglog'[s] <= Done'
    BY <1>1, <1>2, <1>8 DEF LogInv, LogsInv
  <2>2. \A t \in Tags : hbeatlog'[t] <= Done'
    BY <1>2, <1>8, <1>9 DEF LogInv, LogsInv
  <2>3. ASSUME NEW i \in 1 .. Done', NEW t \in Tags, hbeatlog'[t] = i
        PROVE  received'[i].hbeat /\ received'[i].tag = t /\ ~Triggered(i)'
    <3>1. CASE i = n
      <4>1. hbeatlog[t] # n
        BY <1>2 DEF LogInv, LogsInv, n
      <4>2. t = m.tag /\ m.hbeat
        BY <1>9, <2>3, <3>1, <4>1
      <4>3. received'[i] = m
        BY <1>1, <3>1 DEF m
      <4>4. QED
        BY <1>1, <1>11, <3>1, <4>2, <4>3 DEF Triggered
    <3>2. CASE i # n
      <4>1. i \in 1 .. Done /\ hbeatlog[t] = i
        BY <1>8, <1>9, <2>3, <3>2
      <4>2. received[i].hbeat /\ received[i].tag = t /\ ~Triggered(i)
        BY <4>1 DEF LogInv, LogsInv
      <4>3. QED
        BY <1>1, <4>2 DEF Triggered
    <3>3. QED
      BY <3>1, <3>2
  <2>4. ASSUME NEW i \in 1 .. Done', NEW s \in Names, NEW t \in Names,
               triglog'[s] = i, triglog'[t] = i
        PROVE  s = t
    <3>1. i \in 1 .. Done
      BY <1>1, <1>2, <1>8, <2>4 DEF LogInv, LogsInv, n
    <3>2. QED
      BY <1>1, <2>4, <3>1 DEF LogInv, LogsInv
  <2>5. QED
    BY <2>1, <2>2, <2>3, <2>4 DEF LogsInv
<1>13. RecentInv'
  <2>1. ASSUME NEW i \in 1 .. Done, NEW s, Kept(i, s)
        PROVE  Kept(i, s)'
    <3>1. \A j \in i + 1 .. Done : j \in i + 1 .. Done'
      BY <1>2, <1>8
    <3>2. \A j : MayBeNamed(j, s) => MayBeNamed(j, s)'
      BY <1>1 DEF MayBeNamed, Triggered
    <3>3. triglog' = triglog
      BY <1>1
    <3>4. QED
      BY <2>1, <3>1, <3>2, <3>3 DEF Kept
  <2>2. ASSUME NEW i \in 1 .. Done', Triggered(i)', i \notin missed',
               HasName(received'[i], pre'[i])
        PROVE  Kept(i, NameOf(received[i], pre[i]))'
    <3>1. /\ i \in 1 .. Done /\ Triggered(i) /\ i \notin missed
          /\ HasName(received[i], pre[i])
      BY <1>1, <1>8, <1>11, <2>2 DEF Triggered
    <3>2. PICK s : s = NameOf(received[i], pre[i])
      OBVIOUS
    <3>3. Kept(i, s) /\ NameOf(received'[i], pre'[i]) = s
      BY <1>1, <3>1, <3>2 DEF LogInv, RecentInv
    <3>4. Kept(i, s)'
      BY <2>1, <3>1, <3>3
    <3>5. QED
      BY <3>3, <3>4
  <2>3. QED
    BY <2>2 DEF RecentInv
<1>14. QED
  BY <1>7, <1>12, <1>13 DEF LogInv

\* The name that a message should have is one of the names of the logs.
LEMMA NameOfType ==
  ASSUME NEW m \in Message, NEW t
  PROVE  NameOf(m, t) \in Names
<1> DEFINE p == IF t \in Texts
                THEN IF t \in Parses THEN Takes[t][m.schema] ELSE None
                ELSE IF m.schema = "sensor.basic" THEN "device" ELSE "zone"
<1>1. /\ m.tag \in Tags /\ m.schema \in Schemas
      /\ \A q \in Pairs : m.pair[q] \in Subs \union {None}
  BY DEF Message
<1>2. p \in Pairs \union {None}
  BY <1>1, TriggerAssumption DEF TriggerAssumption, Pairs
<1>3. NameOf(m, t) = <<m.tag, IF p = None THEN None ELSE m.pair[p]>>
  BY DEF NameOf
<1> HIDE DEF p
<1>4. QED
  BY <1>1, <1>2, <1>3 DEF Names

\* logTriggerMessage: a trigger has the number of its message, in one row.
LEMMA LogLogs ==
  ASSUME TypeOK, NameInv, LogInv, Log
  PROVE  LogInv'
<1>0. PICK n, v : n = at /\ v = name
  OBVIOUS
<1>1. /\ pc = "log" /\ pc' = "idle" /\ at' = n /\ v \in Names
      /\ UNCHANGED <<received, pre, hbeatlog>>
      /\ \/ missed' = missed \union {n} /\ UNCHANGED triglog
         \/ triglog' = [triglog EXCEPT ![v] = n] /\ UNCHANGED missed
  BY <1>0 DEF Log, LogName, others, TypeOK
<1>2. /\ Done \in Nat /\ n \in Nat /\ Done = n - 1 /\ n >= 1 /\ Done' = n
      /\ \A s \in Names : triglog[s] \in Nat
      /\ \A t \in Tags : hbeatlog[t] \in Nat
  BY <1>0, <1>1, DoneType DEF Done
<1>3. /\ \A i \in 1 .. n : i \in 1 .. Done \/ i = n
      /\ \A i \in 1 .. Done : i \in 1 .. n /\ i # n /\ i < n
  BY <1>2
<1>4. \A i : (Triggered(i) <=> Triggered(i)') /\ received'[i] = received[i]
             /\ pre'[i] = pre[i]
  BY <1>1 DEF Triggered
<1>5. HistoryInv'
  BY <1>0, <1>1, <1>4 DEF LogInv, HistoryInv, Handling
<1>6. \A s \in Names : \/ triglog'[s] = triglog[s]
                       \/ triglog'[s] = n /\ s = v
  BY <1>1 DEF TypeOK
<1>7. \A s \in Names : triglog[s] <= Done /\ triglog[s] < n
  BY <1>2 DEF LogInv, LogsInv
<1>8. \A t \in Tags : hbeatlog[t] <= Done /\ hbeatlog[t] < n
  BY <1>2 DEF LogInv, LogsInv
<1>9. LogsInv'
  <2>1. \A s \in Names : triglog'[s] <= Done'
    BY <1>2, <1>6, <1>7
  <2>2. \A t \in Tags : hbeatlog'[t] <= Done'
    BY <1>1, <1>2, <1>8
  <2>3. ASSUME NEW i \in 1 .. Done', NEW t \in Tags, hbeatlog'[t] = i
        PROVE  received'[i].hbeat /\ received'[i].tag = t /\ ~Triggered(i)'
    <3>1. hbeatlog[t] = i
      BY <1>1, <2>3
    <3>2. i \in 1 .. Done
      BY <1>2, <1>3, <1>8, <3>1
    <3>3. QED
      BY <1>4, <3>1, <3>2 DEF LogInv, LogsInv
  <2>4. ASSUME NEW i \in 1 .. Done', NEW s \in Names, NEW t \in Names,
               triglog'[s] = i, triglog'[t] = i
        PROVE  s = t
    <3>1. CASE i = n
      BY <1>2, <1>6, <1>7, <2>4, <3>1
    <3>2. CASE i # n
      BY <1>2, <1>3, <1>6, <2>4, <3>2 DEF LogInv, LogsInv
    <3>3. QED
      BY <3>1, <3>2
  <2>5. QED
    BY <2>1, <2>2, <2>3, <2>4 DEF LogsInv
<1>10. MayBeNamed(n, v)' /\ Current = received[n]
  <2>1. Current = received[n]
    BY <1>0 DEF Current
  <2>2. Triggered(n)
    BY <1>0, <1>1 DEF LogInv, HistoryInv, Handling
  <2>3. QED
    BY <1>0, <1>1, <1>4, <2>1, <2>2 DEF MayBeNamed, NameInv, Handling
<1>11. RecentInv'
  <2>1. ASSUME NEW i \in 1 .. Done, NEW s \in Names, Kept(i, s)
        PROVE  Kept(i, s)'
    <3>1. /\ \A j \in i + 1 .. Done : j \in i + 1 .. n
          /\ n \in i + 1 .. n
      BY <1>2, <1>3
    <3>2. \A j : MayBeNamed(j, s) => MayBeNamed(j, s)'
      BY <1>4 DEF MayBeNamed
    <3>3. CASE triglog'[s] = triglog[s]
      BY <1>2, <2>1, <3>1, <3>2, <3>3 DEF Kept
    <3>4. CASE triglog'[s] = n /\ s = v
      BY <1>2, <1>3, <1>10, <3>1, <3>4 DEF Kept
    <3>5. QED
      BY <1>6, <3>3, <3>4
  <2>2. ASSUME NEW i \in 1 .. Done', Triggered(i)', i \notin missed',
               HasName(received'[i], pre'[i])
        PROVE  Kept(i, NameOf(received[i], pre[i]))'
    <3>1. /\ Triggered(i) /\ i \notin missed /\ HasName(received[i], pre[i])
      BY <1>1, <1>4, <2>2
    <3>2. PICK s : s = NameOf(received[i], pre[i])
      OBVIOUS
    <3>3. CASE i = n
      <4>1. s = v
        BY <1>0, <1>1, <1>10, <3>1, <3>2, <3>3 DEF NameInv, Handling
      <4>2. triglog'[s] = i
        BY <1>1, <2>2, <3>3, <4>1 DEF TypeOK
      <4>3. QED
        BY <1>4, <3>2, <4>2 DEF Kept
    <3>4. CASE i \in 1 .. Done
      <4>1. Kept(i, s) /\ NameOf(received'[i], pre'[i]) = s
        BY <1>4, <3>1, <3>2, <3>4 DEF LogInv, RecentInv
      <4>2. s \in Names
        <5>1. received \in Seq(Messages) /\ i \in 1 .. Len(received)
          BY <3>4, DoneType DEF TypeOK
        <5>2. received[i] \in Message
          BY <5>1, ElementOfSeq, TriggerAssumption DEF TriggerAssumption
        <5>3. QED
          BY <3>2, <5>2, NameOfType
      <4>3. Kept(i, s)'
        BY <2>1, <3>4, <4>1, <4>2
      <4>4. QED
        BY <4>1, <4>3 DEF Kept
    <3>5. QED
      BY <1>2, <1>3, <3>3, <3>4
  <2>3. QED
    BY <2>2 DEF RecentInv
<1>12. QED
  BY <1>5, <1>9, <1>11 DEF LogInv

\* The other steps leave the logs alone.
LEMMA LogInvKept ==
  TypeOK /\ NameInv /\ LogInv /\ [Next]_vars => LogInv'
<1> SUFFICES ASSUME TypeOK, NameInv, LogInv, [Next]_vars PROVE LogInv'
  OBVIOUS
\* The message that is handled goes on to the next read, or no further.
<1>b. ASSUME UNCHANGED <<received, at, pre, logs>>, pc # "idle", pc' # "idle",
             pc' # "name", pc' \in Handling => pc \in Handling
      PROVE  LogInv'
  <2>1. Done' = Done
    BY <1>b DEF Done
  <2>2. HistoryInv'
    BY <1>b DEF LogInv, HistoryInv, Triggered
  <2>3. QED
    BY <1>b, <2>1, <2>2, LogStays DEF logs
<1>c. ASSUME UNCHANGED <<received, at, pre, logs, pc>>
      PROVE  LogInv'
  <2>1. Done' = Done
    BY <1>c DEF Done
  <2>2. HistoryInv'
    BY <1>c DEF LogInv, HistoryInv, Triggered
  <2>3. QED
    BY <1>c, <2>1, <2>2, LogStays DEF logs
<1>1. ASSUME NEW m \in Messages, Receive(m) PROVE LogInv'
  <2>1. UNCHANGED <<at, pc, pre, logs>> /\ received' = Append(received, m)
    BY <1>1 DEF Receive
  <2>2. \A i \in 1 .. Len(received) : received'[i] = received[i]
    BY <2>1, AppendProperties DEF TypeOK
  <2>3. Done' = Done /\ HistoryInv'
    BY <2>1 DEF Done, LogInv, HistoryInv, Triggered
  <2>4. \A i \in 1 .. Done : received'[i] = received[i] /\ pre'[i] = pre[i]
    BY <2>1, <2>2, DoneType
  <2>5. QED
    BY <2>1, <2>3, <2>4, LogStays DEF logs
<1>2. CASE HubConfirmed
  BY <1>2, <1>c DEF HubConfirmed
<1>3. CASE Lock
  BY <1>3, <1>c DEF Lock
<1>4. CASE Commit
  BY <1>4, <1>c DEF Commit
<1>5. CASE Listen
  BY <1>5, ListenLogs
<1>6. CASE Name
  <2> DEFINE t == Read(scripts["preprocess"])
  <2>1. /\ pc = "name" /\ pc' \in {"lookup", "exited"}
        /\ pre' = [pre EXCEPT ![at] = t] /\ t \in Texts \union {None}
        /\ UNCHANGED <<received, at, logs>>
    BY <1>6 DEF Name, Read, TypeOK, others
  <2> HIDE DEF t
  <2>2. at \in Numbers /\ at \in Nat /\ Done = at - 1 /\ Done' = Done
    BY <2>1, DoneType, TriggerAssumption
       DEF Done, TypeOK, Numbers, TriggerAssumption
  <2>3. Triggered(at)'
    BY <2>1, <2>2, TriggerAssumption DEF Triggered, TypeOK, TriggerAssumption
  <2>4. \A i \in Numbers : i # at => pre'[i] = pre[i]
    BY <2>1, <2>2 DEF TypeOK
  <2>5. HistoryInv'
    <3>1. \A i \in Numbers : i > at => i # at
      BY <2>2
    <3>2. QED
      BY <2>1, <2>3, <2>4, <3>1 DEF LogInv, HistoryInv, Triggered
  <2>6. \A i \in 1 .. Done : i \in Numbers /\ i # at
    BY <2>2, DoneType
  <2>7. QED
    BY <2>1, <2>2, <2>4, <2>5, <2>6, LogStays DEF logs
<1>7. CASE Fault
  BY <1>7, <1>b DEF Fault, others, Handling
<1>8. CASE Lookup
  BY <1>8, <1>b DEF Lookup, others, Handling
<1>9. CASE Fetch
  BY <1>9, <1>b DEF Fetch, others, Handling
<1>10. CASE Act
  BY <1>10, <1>b DEF Act, others, Handling
<1>11. CASE Log
  BY <1>11, LogLogs
<1>12. CASE UNCHANGED vars
  BY <1>12, <1>c DEF vars, others
<1>13. QED
  BY <1>1, <1>2, <1>3, <1>4, <1>5, <1>6, <1>7, <1>8, <1>9, <1>10, <1>11, <1>12
     DEF Next, Daemon

----------------------------------------------------------------------------

\* Of each step of the listener and of other processes.
LEMMA Invariant == Spec => []IInv
<1>1. IInv /\ [Next]_vars => IInv'
  BY TypeKept, LockKept, ScriptsKept, NameKept DEF IInv
<1>2. QED
  BY InitInv, <1>1, PTL DEF Spec, SafeSpec

(***************************************************************************)
(* The listener, the two tables and the two logs stay in their types; the  *)
(* daemon is in a transaction of its own only between its two reads.       *)
(***************************************************************************)
THEOREM TypeCorrect == Spec => []TypeOK
  BY TypeOKInit, TypeOKKept, PTL DEF Spec, SafeSpec

(***************************************************************************)
(* NameRight for all messages, scripts and edits: an earlier message or    *)
(* script never names a trigger (checkTriggerMessage).                     *)
(***************************************************************************)
THEOREM NamesAreRight == Spec => []NameRight
<1>1. IInv => NameRight
  BY DEF IInv, NameInv, NameRight, Handling
<1>2. QED
  BY Invariant, <1>1, PTL

(***************************************************************************)
(* MostRecent for all messages, scripts, edits and failed updates: each    *)
(* trigger is in the log under its name until a later one replaces it, and *)
(* under no other name; the heartbeat log has heartbeats                   *)
(* (logHeartBeatMessage, logTriggerMessage).                               *)
(***************************************************************************)
THEOREM LogsAreRecent == Spec => []MostRecent
<1>1. TypeOK /\ LogInv => MostRecent
  <2> SUFFICES ASSUME TypeOK, LogInv, pc = "idle" PROVE MostRecent
    BY DEF MostRecent
  <2>1. Done = at
    BY DEF Done
  <2>2. QED
    BY <2>1 DEF MostRecent, LogInv, LogsInv, RecentInv, Kept
<1>2. IInv => NameInv
  BY DEF IInv
<1>3. QED
  BY <1>1, <1>2, Invariant, TypeCorrect, LogInvInit, LogInvKept, PTL
     DEF Spec, SafeSpec

(***************************************************************************)
(* PairedRight for all edits by other processes: the shared lock is kept   *)
(* from the read of the trigger table to that of the script table          *)
(* (DBFetchScriptByTag).                                                   *)
(***************************************************************************)
THEOREM PairsAreRight == Spec => PairedRight
<1>1. IInv /\ [Next]_vars =>
        [pc = "fetch" /\ pc' # "fetch"
           => /\ action = trigaction'[name]
              /\ code' = scripts'[trigaction'[name]]]_vars
  <2> SUFFICES ASSUME IInv, Next, pc = "fetch", pc' # "fetch"
               PROVE  /\ action = trigaction'[name]
                      /\ code' = scripts'[trigaction'[name]]
    OBVIOUS
  <2>1. Fetch
    BY DEF Next, Daemon, Receive, HubConfirmed, Lock, Commit, Listen, Name,
           Fault,
           Lookup, Act, Log
  <2>2. QED
    BY <2>1 DEF IInv, LockInv, Fetch, Read, tables
<1>2. QED
  BY Invariant, <1>1, PTL DEF Spec, SafeSpec, PairedRight

----------------------------------------------------------------------------
(* The scheduler.                                                          *)

\* Products of a smaller factor are smaller.
LEMMA Scaled ==
  ASSUME NEW b \in Nat, NEW p \in Nat, NEW q \in Nat, p <= q
  PROVE  p * b \in Nat /\ p * b <= q * b
  OBVIOUS

\* Quotient and remainder.
LEMMA Quotient ==
  ASSUME NEW b \in Nat, b # 0, NEW i \in Nat
  PROVE  /\ i \div b \in Nat /\ i % b \in 0 .. b - 1 /\ (i \div b) * b \in Nat
         /\ i = (i \div b) * b + (i % b)
<1> DEFINE q == i \div b
           r == i % b
<1>1. q \in Nat /\ r \in 0 .. b - 1 /\ i = q * b + r
  OBVIOUS
<1> HIDE DEF q
<1>2. q * b \in Nat
  BY <1>1, Scaled
<1>3. QED
  BY <1>1, <1>2 DEF q

\* A smaller quotient is smaller by the divisor at least.
LEMMA Apart ==
  ASSUME NEW b \in Nat, NEW p \in Nat, NEW q \in Nat, p < q
  PROVE  p * b + b <= q * b
<1>1. (p + 1) * b <= q * b
  BY Scaled
<1>2. (p + 1) * b = p * b + b
  OBVIOUS
<1>3. QED
  BY <1>1, <1>2

\* Times with the same minute of the hour, less than an hour apart.
LEMMA SameMinute ==
  ASSUME NEW b \in Nat, b # 0, NEW m \in Nat, NEW n \in Nat,
         m <= n, n < m + b, m % b = n % b
  PROVE  m = n
<1>1. PICK p \in Nat, q \in Nat, r \in 0 .. b - 1, x \in Nat, y \in Nat :
        x = p * b /\ y = q * b /\ m = x + r /\ n = y + r
  <2>1. /\ m \div b \in Nat /\ m % b \in 0 .. b - 1 /\ (m \div b) * b \in Nat
        /\ m = (m \div b) * b + (m % b)
    BY Quotient
  <2>2. /\ n \div b \in Nat /\ n % b \in 0 .. b - 1 /\ (n \div b) * b \in Nat
        /\ n = (n \div b) * b + (n % b)
    BY Quotient
  <2>3. QED
    BY <2>1, <2>2
<1>2. ASSUME p < q PROVE FALSE
  <2>1. x + b <= y
    BY <1>1, <1>2, Apart
  <2>2. QED
    BY <1>1, <2>1
<1>3. ASSUME q < p PROVE FALSE
  <2>1. y + b <= x
    BY <1>1, <1>3, Apart
  <2>2. QED
    BY <1>1, <2>1
<1>4. p = q
  BY <1>2, <1>3
<1>5. QED
  BY <1>1, <1>4

\* The next minute is one of the next day exactly at midnight.
LEMMA NextDay ==
  ASSUME NEW b \in Nat, b # 0, NEW m \in Nat
  PROVE  /\ (m + 1) % b # 0 => (m + 1) \div b = m \div b
         /\ (m + 1) % b = 0 => \A s \in 0 .. m : s \div b < (m + 1) \div b
<1> DEFINE p == m \div b
           q == (m + 1) \div b
           r == m % b
           u == (m + 1) % b
<1>0. m + 1 \in Nat
  OBVIOUS
<1>1. PICK x \in Nat : x = p * b /\ p \in Nat /\ r \in 0 .. b - 1 /\ m = x + r
  BY Quotient
<1>2. PICK y \in Nat : /\ y = q * b /\ q \in Nat /\ u \in 0 .. b - 1
                      /\ m + 1 = y + u
  <2>1. q \in Nat /\ u \in 0 .. b - 1 /\ q * b \in Nat /\ m + 1 = q * b + u
    BY <1>0, Quotient
  <2>2. QED
    BY <2>1
<1> HIDE DEF p, q, r, u
<1>3. ASSUME u # 0 PROVE q = p
  <2>1. ASSUME p < q PROVE FALSE
    <3>1. x + b <= y
      BY <1>1, <1>2, <2>1, Apart
    <3>2. QED
      BY <1>1, <1>2, <1>3, <3>1
  <2>2. ASSUME q < p PROVE FALSE
    <3>1. y + b <= x
      BY <1>1, <1>2, <2>2, Apart
    <3>2. QED
      BY <1>1, <1>2, <1>3, <3>1
  <2>3. QED
    BY <1>1, <1>2, <2>1, <2>2
<1>4. ASSUME u = 0, NEW s \in 0 .. m PROVE s \div b < q
  <2> DEFINE v == s \div b
             w == s % b
  <2>1. PICK z \in Nat : z = v * b /\ v \in Nat /\ w \in 0 .. b - 1 /\ s = z + w
    <3>1. s \in Nat
      OBVIOUS
    <3>2. v \in Nat /\ w \in 0 .. b - 1 /\ v * b \in Nat /\ s = v * b + w
      BY <3>1, Quotient
    <3>3. QED
      BY <3>2
  <2> HIDE DEF v, w
  <2>2. ASSUME q <= v PROVE FALSE
    <3>1. y <= z
      BY <1>2, <2>1, <2>2, Scaled
    <3>2. QED
      BY <1>2, <1>4, <2>1, <3>1
  <2>3. v < q
    BY <1>2, <2>1, <2>2
  <2>4. QED
    BY <2>3 DEF v
<1>5. QED
  BY <1>3, <1>4 DEF p, q, u

\* The types, and the limit of schedulerLoad.
SchTypeInv == SchTypeOK /\ Len(list) <= Limit

ClockInv ==
  /\ enabled => created
  /\ created => hub /\ ~crashed
  /\ since <= now
  /\ ~created => runs = Idle
  /\ runs = Idle \/ prevMin = now % Hour
  /\ startups = IF startupRan THEN 1 ELSE 0
  /\ ~created => startups = 0
  /\ lastWalk # Never =>
       created /\ lastWalk <= now /\ prevMin = lastWalk % Hour

\* The last walk is less than an hour ago.
Close == lastWalk # Never /\ now < lastWalk + Hour

\* After a tick, a scheduler that was enabled before the minute has walked in
\* it, if the last walk is close: the minute of the hour tells them apart.
WalkInv == enabled /\ ticked /\ since < now /\ Close => lastWalk = now

\* The sun is that of the day since a start on the day, or since its midnight
\* walk, if walks were never an hour apart between the two.
SunInv ==
  /\ enabled
  /\ \/ since \div Day = now \div Day
     \/ /\ chain \div Day < now \div Day
        /\ Close
        /\ lastWalk = now \/ ~AtMidnight(now)
  => sun = SunTime[now \div Day]

\* What is due in the minute of the last walk has been run.
DueInv ==
  enabled /\ lastWalk = now /\ since < now =>
    \A i \in 1 .. Len(list) :
      IsDue(list[i], now) /\ (Kind[list[i]] = "sun" => SunKnown(now))
        => runs[list[i]] > 0

----------------------------------------------------------------------------
(* The steps.                                                              *)

\* The table is loaded, by the first tick or by a client.
Loads ==
  /\ LoadAndStart(<<>>)
  /\ created' = TRUE /\ hub /\ ~crashed
  /\ \/ ~created /\ startupRan' = FALSE /\ prevMin' = 0
     \/ created /\ UNCHANGED <<startupRan, prevMin>>
  /\ ticked' \in {ticked, TRUE}
  /\ UNCHANGED <<now, hub, table, crashed, lastWalk, chain, runs, startups>>

\* A tick walks the schedule.
Walks ==
  /\ created /\ enabled /\ MinuteChanged(now)
  /\ IF AtMidnight(now) THEN CalcDawnDusk(now) ELSE UNCHANGED sun
  /\ Walk(now)
  /\ prevMin' = now % Hour
  /\ ticked' = TRUE
  /\ UNCHANGED <<now, hub, table, crashed, created, enabled, list, since>>

\* A tick does nothing.
Ticks ==
  /\ ~created \/ ~enabled \/ ~MinuteChanged(now)
  /\ ticked' = TRUE
  /\ UNCHANGED <<now, hub, table, crashed, schVars, histVars>>

\* Nothing of the scheduler changes.
Rests ==
  /\ hub' \in BOOLEAN /\ (hub => hub')
  /\ table' \in Tables \/ table' = table
  /\ crashed' \in {crashed, ~created}
  /\ UNCHANGED <<clockVars, schVars, histVars>>

\* Every step is one of these, or a minute passes.
LEMMA Steps ==
  ASSUME SchTypeInv, ClockInv, [SchNext]_allVars
  PROVE  Loads \/ Walks \/ Ticks \/ Rests \/ MinutePasses
<1>1. CASE TickHandler
  <2>1. CASE ~hub
    BY <1>1, <2>1 DEF TickHandler, ClockInv, SchTypeInv, SchTypeOK, Ticks
  <2>2. CASE hub /\ ~created
    BY <1>1, <2>2 DEF TickHandler, Loads, LoadFirst
  <2>3. CASE hub /\ created
    BY <1>1, <2>3 DEF TickHandler, SchedulerDo, Walks, Ticks
  <2>4. QED
    BY <2>1, <2>2, <2>3
<1>2. CASE SchReload
  <2>1. CASE ~created
    BY <1>2, <2>1 DEF SchReload, Rests, SchTypeInv, SchTypeOK,
           clockVars
  <2>2. CASE created
    BY <1>2, <2>2 DEF SchReload, Loads, ForgetEntries, SchTypeInv,
           SchTypeOK, ClockInv, clockVars
  <2>3. QED
    BY <2>1, <2>2
<1>3. CASE HubIsConfirmed
  BY <1>3 DEF HubIsConfirmed, Rests
<1>4. CASE EditTable
  BY <1>4 DEF EditTable, Rests, SchTypeInv, SchTypeOK
<1>5. CASE UNCHANGED allVars
  BY <1>5 DEF allVars, clockVars, schVars, histVars, Rests,
         SchTypeInv, SchTypeOK
<1>6. QED
  BY <1>1, <1>2, <1>3, <1>4, <1>5 DEF SchNext

\* What a load reads is a sequence of entries, of at most Limit records.
LEMMA Loaded ==
  ASSUME SchTypeInv, Loads
  PROVE  /\ list' \in Seq(Entries) /\ Len(list') <= Limit
         /\ sun' \in 0 .. Day - 1 \union {NoSun} /\ enabled' \in BOOLEAN
         /\ \/ enabled' = TRUE /\ since' = now /\ sun' = SunTime[now \div Day]
            \/ enabled' = FALSE /\ since' = since
<1>1. table \in Seq(Entries) /\ Limit \in Nat
  BY SchedulerAssumption DEF SchedulerAssumption, SchTypeInv, SchTypeOK
<1>2. ASSUME NEW s \in Seq(Entries), NEW n \in Nat, n <= Limit
      PROVE  /\ Prefix(s, n) \in Seq(Entries)
             /\ Len(Prefix(s, n)) <= Limit
             /\ <<>> \o Prefix(s, n) = Prefix(s, n)
  <2> DEFINE k == IF Len(s) < n THEN Len(s) ELSE n
  <2>1. k \in Nat /\ k <= Len(s) /\ k <= n
    BY <1>1
  <2>2. \A j \in 1 .. k : s[j] \in Entries
    BY <2>1
  <2>3. SubSeq(s, 1, k) = [j \in 1 .. k |-> s[j]] /\ Len(SubSeq(s, 1, k)) = k
    BY <2>1
  <2>4. SubSeq(s, 1, k) \in Seq(Entries)
    BY <2>1, <2>2, <2>3
  <2> HIDE DEF k
  <2>5. Len(SubSeq(s, 1, k)) <= Limit
    BY <1>1, <1>2, <2>1, <2>3
  <2>6. <<>> \o SubSeq(s, 1, k) = SubSeq(s, 1, k)
    BY <2>4
  <2>7. QED
    BY <2>4, <2>5, <2>6 DEF Prefix, k
<1>3. now \div Day \in Times
  <2>1. now \in Nat /\ Day \in Nat \ {0} /\ now <= MaxTime /\ MaxTime \in Nat
    BY SchedulerAssumption DEF SchedulerAssumption, SchTypeInv, SchTypeOK,
           Times
  <2>2. now \div Day \in Nat /\ now \div Day <= now
    BY <2>1
  <2>3. QED
    BY <2>1, <2>2 DEF Times
<1>4. SunTime[now \div Day] \in 0 .. Day - 1 \union {NoSun}
  BY <1>3, SchedulerAssumption DEF SchedulerAssumption
<1>5. CASE /\ list' = <<>> \o Prefix(table, Limit)
           /\ CalcDawnDusk(now) /\ enabled' = TRUE /\ since' = now
  BY <1>1, <1>2, <1>4, <1>5 DEF CalcDawnDusk
<1>6. CASE /\ \E n \in 0 .. Len(Prefix(table, Limit)) :
                 list' = <<>> \o Prefix(table, n)
           /\ enabled' = FALSE /\ UNCHANGED <<sun, since>>
  <2>1. PICK n \in 0 .. Len(Prefix(table, Limit)) :
          list' = <<>> \o Prefix(table, n)
    BY <1>6
  <2>2. /\ Prefix(table, Limit) \in Seq(Entries)
        /\ Len(Prefix(table, Limit)) <= Limit
    BY <1>1, <1>2
  <2>3. n \in Nat /\ n <= Limit
    BY <1>1, <2>2
  <2>4. QED
    BY <1>1, <1>2, <1>6, <2>1, <2>3 DEF SchTypeInv, SchTypeOK
<1>7. QED
  BY <1>5, <1>6 DEF Loads, LoadAndStart

\* The sun is calculated for the day of the walk, or left.
LEMMA SunWalked ==
  ASSUME SchTypeInv, Walks
  PROVE  /\ sun' \in 0 .. Day - 1 \union {NoSun}
         /\ AtMidnight(now) => sun' = SunTime[now \div Day]
         /\ ~AtMidnight(now) => sun' = sun
<1>1. now \div Day \in Times
  <2>1. now \in Nat /\ Day \in Nat \ {0} /\ now <= MaxTime /\ MaxTime \in Nat
    BY SchedulerAssumption DEF SchedulerAssumption, SchTypeInv, SchTypeOK,
           Times
  <2>2. now \div Day \in Nat /\ now \div Day <= now
    BY <2>1
  <2>3. QED
    BY <2>1, <2>2 DEF Times
<1>2. SunTime[now \div Day] \in 0 .. Day - 1 \union {NoSun}
  BY <1>1, SchedulerAssumption DEF SchedulerAssumption
<1>3. QED
  BY <1>2 DEF Walks, CalcDawnDusk, SchTypeInv, SchTypeOK

\* What a walk counts: it starts from nothing, because the minute is another
\* than that of the last walk, and runs no place of the list twice.
LEMMA Counted ==
  ASSUME SchTypeInv, ClockInv, Walks
  PROVE  /\ runs = Idle
         /\ runs' \in [Entries -> 0 .. Limit]
         /\ \A e \in Entries : runs'[e] <= Occurrences(e)
         /\ \A i \in 1 .. Len(list) :
              Triggers(list[i], now) => runs'[list[i]] > 0
<1> DEFINE run == {i \in 1 .. Len(list) :
                     Triggers(list[i], now) \/ StartupAt(i)}
           Ran(e) == {i \in run : list[i] = e}
           All(e) == {i \in 1 .. Len(list) : list[i] = e}
<1>1. runs = Idle
  BY DEF ClockInv, Walks, MinuteChanged
<1>2. runs' = [e \in Entries |-> runs[e] + Cardinality(Ran(e))]
  BY DEF Walks, Walk
<1>3. Limit \in Nat /\ Len(list) \in Nat /\ Len(list) <= Limit
  BY SchedulerAssumption DEF SchedulerAssumption, SchTypeInv, SchTypeOK
<1>4. IsFiniteSet(1 .. Len(list)) /\ Cardinality(1 .. Len(list)) = Len(list)
  <2>1. 1 \in Int /\ Len(list) \in Int
    BY <1>3
  <2>2. /\ IsFiniteSet(1 .. Len(list))
        /\ Cardinality(1 .. Len(list)) =
             IF 1 > Len(list) THEN 0 ELSE Len(list) - 1 + 1
    BY <2>1, FS_Interval
  <2>3. QED
    BY <1>3, <2>2
<1>5. ASSUME NEW e \in Entries
      PROVE  /\ IsFiniteSet(Ran(e)) /\ Cardinality(Ran(e)) \in Nat
             /\ Cardinality(Ran(e)) <= Cardinality(All(e))
             /\ Cardinality(Ran(e)) <= Limit
  <2>1. Ran(e) \subseteq All(e) /\ All(e) \subseteq 1 .. Len(list)
    OBVIOUS
  <2> HIDE DEF run, Ran, All
  <2>2. /\ IsFiniteSet(All(e)) /\ Cardinality(All(e)) <= Len(list)
    BY <1>4, <2>1, FS_Subset
  <2>3. /\ IsFiniteSet(Ran(e)) /\ Cardinality(Ran(e)) <= Cardinality(All(e))
    BY <2>1, <2>2, FS_Subset
  <2>4. Cardinality(All(e)) \in Nat /\ Cardinality(Ran(e)) \in Nat
    BY <2>2, <2>3, FS_CardinalityType
  <2>5. QED
    BY <1>3, <2>2, <2>3, <2>4
<1> HIDE DEF run
<1>6. \A e \in Entries : runs'[e] = Cardinality(Ran(e))
  <2> HIDE DEF Ran
  <2>1. SUFFICES ASSUME NEW e \in Entries
                 PROVE  runs'[e] = Cardinality(Ran(e))
    OBVIOUS
  <2>2. runs'[e] = runs[e] + Cardinality(Ran(e)) /\ runs[e] = 0
    BY <1>1, <1>2 DEF Idle
  <2>3. Cardinality(Ran(e)) \in Nat
    BY <1>5
  <2>4. QED
    BY <2>2, <2>3
<1>7. runs' \in [Entries -> 0 .. Limit]
  <2> HIDE DEF Ran
  <2>1. ASSUME NEW e \in Entries
        PROVE  runs[e] + Cardinality(Ran(e)) \in 0 .. Limit
    <3>1. runs[e] = 0
      BY <1>1 DEF Idle
    <3>2. Cardinality(Ran(e)) \in Nat /\ Cardinality(Ran(e)) <= Limit
      BY <1>5
    <3>3. QED
      BY <1>3, <3>1, <3>2
  <2> QED BY <1>2, <2>1
<1>8. \A e \in Entries : runs'[e] <= Occurrences(e)
  <2>1. \A e \in Entries : Occurrences(e) = Cardinality(All(e))
    BY DEF Occurrences
  <2> HIDE DEF Ran, All
  <2> QED BY <1>5, <1>6, <2>1
<1>9. ASSUME NEW i \in 1 .. Len(list), Triggers(list[i], now)
      PROVE  runs'[list[i]] > 0
  <2>1. list[i] \in Entries
    BY DEF SchTypeInv, SchTypeOK
  <2>2. i \in Ran(list[i])
    BY <1>9 DEF run
  <2> DEFINE R == Ran(list[i])
  <2>3. IsFiniteSet(R) /\ R # {} /\ Cardinality(R) \in Nat
    <3> HIDE DEF Ran
    <3> QED BY <1>5, <2>1, <2>2
  <2> HIDE DEF Ran, R
  <2>4. Cardinality(R) # 0
    BY <2>3, FS_EmptySet
  <2>5. runs'[list[i]] = Cardinality(R)
    BY <1>6, <2>1 DEF R
  <2>6. QED
    BY <2>3, <2>4, <2>5
<1>10. QED
  BY <1>1, <1>7, <1>8, <1>9

\* The first of the startup entries is one or none.
LEMMA StartedUp ==
  ASSUME SchTypeInv, ClockInv, Walks
  PROVE  /\ startupRan' \in BOOLEAN /\ startups' \in 0 .. 1
         /\ startups' = IF startupRan' THEN 1 ELSE 0
<1> DEFINE first == {i \in 1 .. Len(list) : StartupAt(i)}
<1>1. startupRan' = (startupRan \/ first # {})
      /\ startups' = startups + Cardinality(first)
  BY DEF Walks, Walk
<1>2. \A i, j \in first : i = j
  <2>1. ASSUME NEW i \in first, NEW j \in first, i < j PROVE FALSE
    <3>1. i \in 1 .. j - 1
      BY <2>1
    <3>2. QED
      BY <3>1 DEF StartupAt
  <2>2. first \subseteq Nat
    BY DEF SchTypeInv, SchTypeOK
  <2>3. ASSUME NEW i \in first, NEW j \in first PROVE i = j
    <3>1. i \in Nat /\ j \in Nat /\ ~(i < j) /\ ~(j < i)
      BY <2>1, <2>2
    <3>2. QED
      BY <3>1
  <2>4. QED
    BY <2>3
<1>3. startupRan => first = {}
  BY DEF StartupAt
<1> HIDE DEF first
<1>4. CASE first = {}
  <2>1. Cardinality(first) = 0
    BY <1>4, FS_EmptySet
  <2>2. QED
    BY <1>1, <1>4, <2>1 DEF SchTypeInv, SchTypeOK, ClockInv
<1>5. CASE first # {}
  <2>1. PICK i \in first : TRUE
    BY <1>5
  <2>2. first = {i}
    BY <1>2, <2>1
  <2>3. Cardinality(first) = 1
    BY <2>2, FS_Singleton
  <2>4. startupRan = FALSE
    BY <1>3, <1>5 DEF SchTypeInv, SchTypeOK
  <2>5. startups = 0
    BY <2>4 DEF ClockInv
  <2>6. startupRan' = TRUE
    <3>1. startupRan' = (startupRan \/ first # {})
      BY <1>1
    <3>2. QED
      BY <1>5, <3>1
  <2>7. startups' = 1
    BY <1>1, <2>3, <2>5
  <2>8. QED
    BY <2>6, <2>7
<1>6. QED
  BY <1>4, <1>5

----------------------------------------------------------------------------
(* The invariant.                                                          *)

\* The initial states.
LEMMA SchInitInv ==
  ASSUME SchInit
  PROVE  SchTypeInv /\ ClockInv /\ WalkInv /\ SunInv /\ DueInv
<1>1. /\ MaxTime \in Nat /\ Day \in Nat \ {0} /\ Hour \in Nat \ {0, 1}
      /\ Limit \in Nat
  BY SchedulerAssumption DEF SchedulerAssumption
<1>2. now \in Times /\ since \in Times
  BY <1>1 DEF SchInit, Times
<1>3. list \in Seq(Entries) /\ Len(list) <= Limit
  BY <1>1 DEF SchInit
<1>4. prevMin \in 0 .. Hour - 1 /\ startups \in 0 .. 1
  BY <1>1 DEF SchInit
<1>5. runs \in [Entries -> 0 .. Limit]
  BY <1>1 DEF SchInit, Idle
<1>6. SchTypeInv
  BY <1>2, <1>3, <1>4, <1>5 DEF SchInit, SchTypeInv, SchTypeOK
<1>7. since <= now
  BY <1>1 DEF SchInit
<1>8. ClockInv
  BY <1>7 DEF SchInit, ClockInv
<1>9. QED
  BY <1>6, <1>8 DEF SchInit, WalkInv, SunInv, DueInv

\* Every step keeps the types.
LEMMA TypeStep ==
  ASSUME SchTypeInv, ClockInv, [SchNext]_allVars
  PROVE  SchTypeInv'
<1>0. now \in Nat /\ Hour \in Nat \ {0, 1} /\ MaxTime \in Nat /\ Limit \in Nat
  BY SchedulerAssumption DEF SchedulerAssumption, SchTypeInv, SchTypeOK, Times
<1>1. CASE Loads
  <2>1. prevMin' \in 0 .. Hour - 1 /\ startupRan' \in BOOLEAN
    <3>1. \/ startupRan' = FALSE /\ prevMin' = 0
          \/ startupRan' = startupRan /\ prevMin' = prevMin
      BY <1>1 DEF Loads
    <3>2. 0 \in 0 .. Hour - 1
      BY <1>0
    <3>3. QED
      BY <3>1, <3>2 DEF SchTypeInv, SchTypeOK
  <2>2. since' \in Times
    BY <1>1, Loaded DEF SchTypeInv, SchTypeOK
  <2>3. QED
    BY <1>1, <2>1, <2>2, Loaded DEF Loads, SchTypeInv, SchTypeOK,
           Times, Never
<1>2. CASE Walks
  <2>1. prevMin' \in 0 .. Hour - 1
    BY <1>0, <1>2 DEF Walks
  <2>2. /\ lastWalk' \in Times \union {Never}
        /\ chain' \in Times \union {Never}
    BY <1>2 DEF Walks, Walk, SchTypeInv, SchTypeOK
  <2>3. runs' \in [Entries -> 0 .. Limit]
    BY <1>2, Counted
  <2>4. startupRan' \in BOOLEAN /\ startups' \in 0 .. 1
    BY <1>2, StartedUp
  <2>5. sun' \in 0 .. Day - 1 \union {NoSun}
    BY <1>2, SunWalked
  <2>6. QED
    BY <1>2, <2>1, <2>2, <2>3, <2>4, <2>5 DEF Walks, SchTypeInv, SchTypeOK,
           Times, Never
<1>3. CASE Ticks
  BY <1>3 DEF Ticks, schVars, histVars, SchTypeInv, SchTypeOK,
         Times, Never
<1>4. CASE Rests
  BY <1>4 DEF Rests, clockVars, schVars, histVars, SchTypeInv,
         SchTypeOK, Times, Never
<1>5. CASE MinutePasses
  <2>1. now' \in Times
    BY <1>0, <1>5 DEF MinutePasses, Times
  <2>2. runs' \in [Entries -> 0 .. Limit]
    BY <1>0, <1>5 DEF MinutePasses, Idle
  <2>3. QED
    BY <1>5, <2>1, <2>2 DEF MinutePasses, schVars, SchTypeInv,
           SchTypeOK, Times, Never
<1>6. QED
  BY <1>1, <1>2, <1>3, <1>4, <1>5, Steps

\* Every step keeps what the scheduler knows of the clock.
LEMMA ClockStep ==
  ASSUME SchTypeInv, ClockInv, [SchNext]_allVars
  PROVE  ClockInv'
<1>0. now \in Nat /\ Hour \in Nat \ {0, 1} /\ MaxTime \in Nat
  BY SchedulerAssumption DEF SchedulerAssumption, SchTypeInv, SchTypeOK, Times
<1>1. CASE Loads
  <2>1. since' <= now'
    <3>1. now' = now /\ (since' = now \/ since' = since)
      BY <1>1, Loaded DEF Loads
    <3>2. QED
      BY <1>0, <3>1 DEF ClockInv
  <2>2. lastWalk # Never => created
    BY DEF ClockInv
  <2>3. Never' = Never /\ Idle' = Idle
    BY DEF Never, Idle
  <2>4. runs' = Idle \/ prevMin' = now' % Hour
    BY <1>1 DEF Loads, ClockInv
  <2>5. startups' = IF startupRan' THEN 1 ELSE 0
    BY <1>1 DEF Loads, ClockInv
  <2>6. QED
    BY <1>1, <2>1, <2>2, <2>3, <2>4, <2>5 DEF Loads, ClockInv
<1>2. CASE Walks
  <2>1. lastWalk' = now /\ prevMin' = now % Hour /\ now' = now
    BY <1>2 DEF Walks, Walk
  <2>2. startups' = IF startupRan' THEN 1 ELSE 0
    BY <1>2, StartedUp
  <2>3. QED
    BY <1>0, <1>2, <2>1, <2>2 DEF Walks, ClockInv
<1>3. CASE Ticks
  BY <1>3 DEF Ticks, schVars, histVars, ClockInv, Idle, Never
<1>4. CASE Rests
  BY <1>4 DEF Rests, clockVars, schVars, histVars, ClockInv,
         Idle, Never,
              SchTypeInv
<1>5. CASE MinutePasses
  <2>1. now' = now + 1 /\ since' = since /\ since \in Nat /\ runs' = Idle
    BY <1>5 DEF MinutePasses, SchTypeInv, SchTypeOK, Times
  <2>2. since' <= now'
    BY <1>0, <2>1 DEF ClockInv
  <2>3. lastWalk # Never => lastWalk \in Nat /\ lastWalk <= now + 1
    BY <1>0 DEF SchTypeInv, SchTypeOK, ClockInv, Times
  <2>4. Idle' = Idle /\ Never' = Never
    BY DEF Idle, Never
  <2>5. QED
    BY <1>5, <2>1, <2>2, <2>3, <2>4 DEF MinutePasses, schVars,
           ClockInv
<1>6. QED
  BY <1>1, <1>2, <1>3, <1>4, <1>5, Steps

\* In a minute with a tick, an enabled scheduler has walked - if the last walk
\* is close, so that a change of the minute of the hour is seen.
LEMMA WalkStep ==
  ASSUME SchTypeInv, ClockInv, WalkInv,
         [SchNext]_allVars
  PROVE  WalkInv'
<1>0. /\ now \in Nat /\ Hour \in Nat \ {0, 1} /\ MaxTime \in Nat
      /\ Never' = Never
  BY SchedulerAssumption DEF SchedulerAssumption, SchTypeInv, SchTypeOK,
         Times, Never
<1>1. CASE Loads
  <2>1. enabled' = FALSE \/ since' = now'
    BY <1>1, Loaded DEF Loads
  <2>2. QED
    BY <1>0, <1>1, <2>1 DEF WalkInv, Loads
<1>2. CASE Walks
  BY <1>2 DEF Walks, Walk, WalkInv
<1>3. CASE Ticks
  <2>1. UNCHANGED <<now, enabled, since, lastWalk>>
    BY <1>3 DEF Ticks, schVars, histVars
  <2>2. SUFFICES ASSUME enabled, since < now, Close PROVE lastWalk = now
    BY <1>0, <2>1 DEF WalkInv, Close
  <2>3. ~MinuteChanged(now)
    BY <1>3, <2>2 DEF Ticks, ClockInv
  <2>4. /\ lastWalk \in Nat /\ lastWalk <= now /\ now < lastWalk + Hour
        /\ lastWalk % Hour = now % Hour
    <3>1. lastWalk # Never /\ now < lastWalk + Hour
      BY <2>2 DEF Close
    <3>2. lastWalk \in Nat
      BY <3>1 DEF SchTypeInv, SchTypeOK, Times
    <3>3. lastWalk <= now /\ prevMin = lastWalk % Hour
      BY <3>1 DEF ClockInv
    <3>4. now % Hour = prevMin
      BY <2>3 DEF MinuteChanged
    <3>5. QED
      BY <3>1, <3>2, <3>3, <3>4
  <2>5. QED
    BY <1>0, <2>4, SameMinute
<1>4. CASE Rests
  BY <1>0, <1>4 DEF Rests, clockVars, schVars, histVars,
         WalkInv, Close
<1>5. CASE MinutePasses
  BY <1>5 DEF MinutePasses, WalkInv
<1>6. QED
  BY <1>1, <1>2, <1>3, <1>4, <1>5, Steps

\* The sun that is known is that of the day.
LEMMA SunStep ==
  ASSUME SchTypeInv, ClockInv, WalkInv, SunInv,
         [SchNext]_allVars
  PROVE  SunInv'
<1>0. /\ now \in Nat /\ Hour \in Nat \ {0, 1} /\ MaxTime \in Nat
      /\ Day \in Nat \ {0} /\ Never' = Never
  BY SchedulerAssumption DEF SchedulerAssumption, SchTypeInv, SchTypeOK,
         Times, Never
<1>1. CASE Loads
  <2>1. \/ enabled' = FALSE
        \/ sun' = SunTime[now \div Day] /\ now' = now
    BY <1>1, Loaded DEF Loads
  <2>2. QED
    BY <2>1 DEF SunInv
<1>2. CASE Walks
  <2>1. /\ now' = now /\ enabled /\ enabled' = enabled /\ since' = since
        /\ chain' = IF Close THEN chain ELSE now
    BY <1>2 DEF Walks, Walk, Close
  <2>2. CASE AtMidnight(now)
    BY <1>2, <2>1, <2>2, SunWalked DEF SunInv
  <2>3. CASE ~AtMidnight(now)
    <3>1. sun' = sun
      BY <1>2, <2>3, SunWalked
    <3>2. ~(now \div Day < now \div Day)
      <4>1. now \div Day \in Nat
        BY <1>0
      <4>2. QED
        BY <4>1
    <3>3. QED
      BY <2>1, <2>3, <3>1, <3>2 DEF SunInv
  <2>4. QED
    BY <2>2, <2>3
<1>3. CASE Ticks
  BY <1>3, <1>0 DEF Ticks, schVars, histVars, SunInv, Close,
         AtMidnight
<1>4. CASE Rests
  BY <1>4, <1>0 DEF Rests, clockVars, schVars, histVars, SunInv,
         Close, AtMidnight
<1>5. CASE MinutePasses
  <2>1. /\ now' = now + 1 /\ UNCHANGED <<enabled, since, lastWalk, chain, sun>>
        /\ ticked \/ crashed
    BY <1>5 DEF MinutePasses, schVars
  <2>2. /\ (now + 1) % Day # 0 => (now + 1) \div Day = now \div Day
        /\ (now + 1) % Day = 0 => since \div Day < (now + 1) \div Day
    <3>1. since \in 0 .. now
      BY <1>0 DEF SchTypeInv, SchTypeOK, ClockInv, Times
    <3>2. QED
      BY <1>0, <3>1, NextDay
  <2>3. SUFFICES ASSUME enabled,
                        \/ since \div Day = now' \div Day
                        \/ /\ chain \div Day < now' \div Day
                           /\ Close'
                           /\ lastWalk = now' \/ ~AtMidnight(now')
                 PROVE  sun = SunTime[now' \div Day]
    BY <2>1 DEF SunInv
  <2>4. CASE since \div Day = now' \div Day
    <3>1. (now + 1) \div Day = now \div Day
      <4>1. since \div Day \in Nat /\ (now + 1) \div Day \in Nat
        <5>1. since \in Nat /\ now + 1 \in Nat
          BY <1>0 DEF SchTypeInv, SchTypeOK, Times
        <5>2. QED
          BY <1>0, <5>1, Quotient
      <4>2. (now + 1) % Day # 0
        BY <2>1, <2>2, <2>4, <4>1
      <4>3. QED
        BY <2>2, <4>2
    <3>2. QED
      BY <2>1, <2>3, <2>4, <3>1 DEF SunInv
  <2>5. CASE /\ chain \div Day < now' \div Day
             /\ Close'
             /\ lastWalk = now' \/ ~AtMidnight(now')
    <3>1. /\ lastWalk # Never /\ lastWalk \in Nat /\ lastWalk <= now
          /\ now + 1 < lastWalk + Hour
      BY <1>0, <2>1, <2>5 DEF Close, ClockInv, SchTypeInv, SchTypeOK,
             Times
    <3>2. Close
      BY <1>0, <3>1 DEF Close
    <3>3. (now + 1) \div Day = now \div Day
      BY <1>0, <2>1, <2>2, <2>5, <3>1 DEF AtMidnight
    <3>4. CASE since < now
      <4>1. lastWalk = now
        BY <2>1, <2>3, <3>2, <3>4 DEF WalkInv, ClockInv
      <4>2. QED
        BY <2>1, <2>3, <2>5, <3>2, <3>3, <4>1 DEF SunInv
    <3>5. CASE since = now
      BY <2>1, <2>3, <3>3, <3>5 DEF SunInv
    <3>6. QED
      BY <1>0, <3>4, <3>5 DEF ClockInv, SchTypeInv, SchTypeOK, Times
  <2>6. QED
    BY <2>3, <2>4, <2>5
<1>6. QED
  BY <1>1, <1>2, <1>3, <1>4, <1>5, Steps

\* After a walk, what is due in this minute has been run.
LEMMA DueStep ==
  ASSUME SchTypeInv, ClockInv, WalkInv, SunInv, DueInv,
         [SchNext]_allVars
  PROVE  DueInv'
<1>0. now \in Nat /\ MaxTime \in Nat /\ Never' = Never
  BY SchedulerAssumption DEF SchedulerAssumption, SchTypeInv, SchTypeOK,
         Times, Never
<1>1. CASE Loads
  <2>1. enabled' = FALSE \/ since' = now'
    BY <1>1, Loaded DEF Loads
  <2>2. QED
    BY <1>0, <1>1, <2>1 DEF DueInv, Loads
<1>2. CASE Walks
  <2>1. UNCHANGED <<now, enabled, since, list>> /\ enabled /\ lastWalk' = now
    BY <1>2 DEF Walks, Walk
  <2>2. SUFFICES ASSUME NEW i \in 1 .. Len(list), IsDue(list[i], now),
                        Kind[list[i]] = "sun" => SunKnown(now)'
                 PROVE  Triggers(list[i], now)
    <3>1. \A i \in 1 .. Len(list) :
            Triggers(list[i], now) => runs'[list[i]] > 0
      BY <1>2, Counted
    <3>2. QED
      BY <2>1, <3>1 DEF DueInv, IsDue
  <2>3. CASE Kind[list[i]] = "cron"
    BY <2>2, <2>3 DEF IsDue, Triggers
  <2>4. CASE Kind[list[i]] = "sun"
    <3>1. SunInv'
      BY SunStep
    <3>2. Close'
      <4>1. lastWalk' = now /\ now' = now /\ now <= MaxTime
        BY <2>1 DEF SchTypeInv, SchTypeOK, Times
      <4>2. Hour \in Nat \ {0, 1}
        BY SchedulerAssumption DEF SchedulerAssumption
      <4>3. QED
        BY <1>0, <4>1, <4>2 DEF Close, Never
    <3>3. sun' = SunTime[now \div Day]
      BY <2>1, <2>2, <2>4, <3>1, <3>2 DEF SunInv, SunKnown
    <3>4. QED
      BY <2>2, <2>4, <3>3 DEF IsDue, Triggers
  <2>5. QED
    BY <2>2, <2>3, <2>4 DEF IsDue
<1>3. CASE Ticks
  BY <1>3 DEF Ticks, schVars, histVars, DueInv, IsDue,
         SunKnown
<1>4. CASE Rests
  BY <1>4 DEF Rests, clockVars, schVars, histVars, DueInv,
         IsDue, SunKnown
<1>5. CASE MinutePasses
  <2>1. lastWalk' # now'
    BY <1>0, <1>5 DEF MinutePasses, ClockInv, SchTypeInv, SchTypeOK,
           Times, Never
  <2>2. QED
    BY <2>1 DEF DueInv
<1>6. QED
  BY <1>1, <1>2, <1>3, <1>4, <1>5, Steps

\* The inductive invariant.
SchInv == SchTypeInv /\ ClockInv /\ WalkInv /\ SunInv /\ DueInv

\* The invariant holds in every reachable state.
LEMMA SchInvariant ==
  SchSpec => []SchInv
<1>1. SchInit => SchInv
  BY SchInitInv DEF SchInv
<1>2. SchInv /\ [SchNext]_allVars => SchInv'
  BY TypeStep, ClockStep, WalkStep, SunStep, DueStep DEF SchInv
<1>3. QED
  BY <1>1, <1>2, PTL DEF SchSpec, SchSafeSpec

----------------------------------------------------------------------------
(* Theorems.                                                               *)

(***************************************************************************)
(* The clock, the loaded list, the sun, the minute of the last walk and    *)
(* the counts of runs stay in their types; the list never exceeds the      *)
(* records that schedulerLoad reads.                                       *)
(***************************************************************************)
THEOREM SchedulerTypes ==
  SchSpec => [](SchTypeOK /\ Len(list) <= Limit)
<1>1. SchInv => SchTypeOK /\ Len(list) <= Limit
  BY DEF SchInv, SchTypeInv, SchTypeOK
<1>2. QED
  BY <1>1, SchInvariant, PTL

(***************************************************************************)
(* RunOnce for all tables, lengths of a day and an hour, ticks, reloads    *)
(* and edits: a walk follows a change of the minute of the hour, so it is  *)
(* the first of its minute (SchedulerDo).                                  *)
(***************************************************************************)
THEOREM RunsOnce ==
  SchSpec => RunOnce
<1>1. ASSUME SchInv, [SchNext]_allVars
      PROVE  [\A e \in Entries : runs'[e] > runs[e] =>
                runs[e] = 0 /\ runs'[e] <= Occurrences(e)]_allVars
  <2>0. SchTypeInv /\ ClockInv
    BY <1>1 DEF SchInv
  <2>1. \/ runs' = runs \/ runs' = Idle \/ Walks
    BY <1>1, <2>0, Steps DEF Loads, Ticks, Rests, histVars,
           MinutePasses
  <2>2. \A e \in Entries : runs[e] \in Nat
    BY <2>0, SchedulerAssumption
       DEF SchTypeInv, SchTypeOK, SchedulerAssumption
  <2>3. CASE Walks
    <3>1. runs = Idle /\ \A e \in Entries : runs'[e] <= Occurrences(e)
      BY <2>0, <2>3, Counted
    <3>2. QED
      BY <3>1 DEF Idle
  <2>4. CASE runs' = runs \/ runs' = Idle
    <3>1. \A e \in Entries : ~(runs'[e] > runs[e])
      BY <2>2, <2>4 DEF Idle
    <3>2. QED
      BY <3>1
  <2>5. QED
    BY <2>1, <2>3, <2>4
<1>2. QED
  BY <1>1, SchInvariant, PTL DEF SchSpec, SchSafeSpec, RunOnce

(***************************************************************************)
(* NothingMissed for all tables, times of the sun, ticks, reloads and      *)
(* edits: what is due in a minute that an enabled scheduler began is run   *)
(* before the minute ends, if the last walk is less than an hour ago       *)
(* (SchedulerDo, schedulerWalk).                                           *)
(***************************************************************************)
THEOREM NothingIsMissed ==
  SchSpec => NothingMissed
<1>1. ASSUME SchInv, [SchNext]_allVars
      PROVE  [\A i \in 1 .. Len(list) :
                /\ now' = now + 1
                /\ enabled /\ since < now
                /\ lastWalk # Never /\ now < lastWalk + Hour
                /\ IsDue(list[i], now)
                /\ Kind[list[i]] = "sun" => SunKnown(now)
                => runs[list[i]] > 0]_allVars
  <2>0. SchTypeInv /\ ClockInv /\ WalkInv /\ DueInv
    BY <1>1 DEF SchInv
  <2>1. now' = now \/ MinutePasses
    BY <1>1, <2>0, Steps DEF Loads, Walks, Ticks, Rests, clockVars
  <2>2. now \in Nat
    BY <2>0 DEF SchTypeInv, SchTypeOK, Times
  <2>3. SUFFICES ASSUME NEW i \in 1 .. Len(list),
                        now' = now + 1, enabled, since < now, Close,
                        IsDue(list[i], now),
                        Kind[list[i]] = "sun" => SunKnown(now)
                 PROVE  runs[list[i]] > 0
    BY DEF Close
  <2>4. ticked \/ crashed
    BY <2>1, <2>2, <2>3 DEF MinutePasses
  <2>5. lastWalk = now
    BY <2>0, <2>3, <2>4 DEF ClockInv, WalkInv
  <2>6. QED
    BY <2>0, <2>3, <2>5 DEF DueInv
<1>2. QED
  BY <1>1, SchInvariant, PTL DEF SchSpec, SchSafeSpec, NothingMissed

=============================================================================
