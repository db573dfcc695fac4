---------------------------- MODULE SessionProofs ---------------------------
(***************************************************************************)
(* Proofs about Session, for every number of runs, of descriptors and of   *)
(* scripts of any length: the types; the poll entries, the descriptors and *)
(* the batch of events belong together; a script is saved whole; answers   *)
(* are true; buffers hold what is in them.                                 *)
(*                                                                         *)
(* EntriesLive is inductive once it says which connections have a          *)
(* descriptor and that a connection has one entry only (IInv): then the    *)
(* first entry with a descriptor, the one that PollUnRegEvent takes out,   *)
(* is the only one, and the connection that is dropped has it.             *)
(*                                                                         *)
(* The other properties are about lines and their order.  Their invariant  *)
(* (CInv, for each run) says how far the one who writes lines and the one  *)
(* who reads them are: what is on its way is what is left of the request,  *)
(* or of the answer, after the lines that the receiver has had, and the    *)
(* receiver has the text of those lines.  It needs of the lines of a       *)
(* script only that they are a sequence of lines, which is proved of the   *)
(* recursive function NonBlank with the least element of a set of numbers. *)
(***************************************************************************)
EXTENDS Session, SequenceTheorems, WellFoundedInduction, TLAPS

\* The parts of TypeOK that the argument needs.
JobType == job \in [Clients -> Jobs]

FDType ==
  /\ pc \in [Clients -> {"start", "send", "wait"} \union Ended]
  /\ srv \in [Clients -> {"none", "backlog", "open", "denied", "closed"}]
  /\ fd \in [Clients -> 0 .. MaxFD]
  /\ entries \in Seq([fd : 1 .. MaxFD, conn : Clients])
  /\ batch \subseteq Clients \union {Listener}

\* A run that has not connected has no connection.
StartInv == \A c \in Clients : pc[c] = "start" => srv[c] = "none"

\* The connections that were accepted and not dropped have a descriptor, each
\* its own.
FDInv ==
  /\ \A c \in Clients : fd[c] # 0 <=> srv[c] \in {"open", "denied"}
  /\ \A c, d \in Clients : c # d /\ fd[c] = fd[d] => fd[c] = 0

\* The open connections have an entry, each one.
EntryInv ==
  /\ \A i \in 1 .. Len(entries) :
       /\ srv[entries[i].conn] = "open"
       /\ entries[i].fd = fd[entries[i].conn]
  /\ \A i, j \in 1 .. Len(entries) : entries[i].conn = entries[j].conn => i = j
  /\ \A c \in Clients :
       srv[c] = "open" => \E i \in 1 .. Len(entries) : entries[i].conn = c

\* What is in a batch is still registered.
BatchInv == \A c \in batch : c = Listener \/ (c \in Clients /\ srv[c] = "open")

IInv == FDType /\ StartInv /\ FDInv /\ EntryInv /\ BatchInv

\* The other types.
DataType ==
  /\ sent \in [Clients -> Nat]
  /\ file \in [Clients -> Receivers]
  /\ up \in [Clients -> Seq(Lines)] /\ down \in [Clients -> Seq(Lines)]
  /\ rcv \in [Clients -> Receivers \union {None}]
  /\ db \in [Names -> Texts \union {None}]
  /\ saved \in [Clients -> Texts \union {None}]
  /\ fetched \in [Clients -> Texts \union {None}]
  /\ running \in BOOLEAN
  /\ slow \subseteq Clients /\ eof \subseteq Clients

\* A run writes its request, all of it before it waits.
SentInv(c) ==
  /\ sent[c] <= Len(Request(c))
  /\ pc[c] \in {"start", "send"} => sent[c] < Len(Request(c))
  /\ pc[c] = "start" => sent[c] = 0 /\ up[c] = <<>>

\* A line that only a run of the kind, and about the script, writes.
Own(c, l) ==
  /\ l.tag = "cl" => job[c].kind = "cmd"
  /\ l.tag = "ss" => job[c].kind = "get" /\ l.arg = job[c].name
  /\ l.tag = "rs" => job[c].kind = "put"
  /\ l.tag = "sb" => l.arg = job[c].name

UpInv(c) == \A i \in 1 .. Len(up[c]) : Own(c, up[c][i])

\* The end of the string is within the buffer, and the buffer has room for
\* one more line at least once it was enlarged.
Fits(ri) == ri.size >= FirstSize /\ ri.len < ri.size

\* The daemon's receiver belongs to an upload on an open connection.
RcvInv(c) ==
  rcv[c] # None =>
    /\ job[c].kind = "put" /\ srv[c] = "open"
    /\ rcv[c].state \in {"idle", "waitline"}
    /\ rcv[c].state = "waitline" => rcv[c].name = job[c].name
    /\ Fits(rcv[c])

\* A receiver that goes on after n of the lines that ScriptLines has for a
\* text: it has the lines of the text so far.
Follows(ri, text, n) ==
  \/ n = 0 /\ ri.state = "idle" /\ ri.text = <<>>
  \/ /\ n \in 1 .. Len(NonBlank(text)) + 1
     /\ ri.state = "waitline" /\ ri.text = SubSeq(NonBlank(text), 1, n - 1)

\* The lines are what is left, after k of them, of the first m of others.
Left(lines, whole, m, k) ==
  /\ Len(lines) + k = m
  /\ \A i \in 1 .. Len(lines) : lines[i] = whole[k + i]

\* What is on its way to the daemon is what it has not taken of the lines
\* that were written, and its receiver follows.
UpSync(c) ==
  c \notin slow /\ srv[c] \in {"backlog", "open"} =>
    \E k \in Nat :
      /\ Left(up[c], Request(c), sent[c], k)
      /\ rcv[c] # None => k >= 1 /\ Follows(rcv[c], job[c].text, k - 1)

\* What was saved.
SavedInv(c) ==
  c \notin slow /\ saved[c] # None =>
    job[c].kind = "put" /\ saved[c] = NonBlank(job[c].text)

\* An answer to an upload that is no error says that it was saved.
OkInv(c) ==
  job[c].kind = "put" =>
    \A i \in 1 .. Len(down[c]) : down[c][i].tag # "er" => saved[c] # None

\* A download: not answered yet, refused, or what the daemon has is on its way
\* and the run's receiver follows.
Waiting(c) == fetched[c] = None /\ down[c] = <<>> /\ file[c] = NewReceiver

Refused(c) ==
  /\ sent[c] = 1 /\ up[c] = <<>> /\ fetched[c] = None
  /\ \A i \in 1 .. Len(down[c]) : down[c][i].tag = "er"

Served(c) ==
  /\ sent[c] = 1 /\ up[c] = <<>> /\ fetched[c] # None
  /\ pc[c] = "wait" =>
       \E k \in Nat :
         /\ Left(down[c], ScriptLines(job[c].name, fetched[c]),
                 Len(ScriptLines(job[c].name, fetched[c])), k)
         /\ Follows(file[c], fetched[c], k)

GetInv(c) ==
  job[c].kind = "get" =>
    /\ Len(up[c]) <= sent[c]
    /\ Waiting(c) \/ Refused(c) \/ Served(c)

FileInv(c) == Fits(file[c]) /\ (c \notin eof => Truly(c))

CInv(c) ==
  /\ SentInv(c) /\ UpInv(c) /\ RcvInv(c) /\ UpSync(c)
  /\ SavedInv(c) /\ OkInv(c) /\ GetInv(c) /\ FileInv(c)

\* The database has the scripts of before and those that were saved.
DbInv ==
  \A n \in Names :
    \/ db[n] = Stored[n]
    \/ \E c \in Clients : job[c].name = n /\ saved[c] # None /\ db[n] = saved[c]

DInv == DataType /\ DbInv /\ \A c \in Clients : CInv(c)

----------------------------------------------------------------------------
(***************************************************************************)
(* The elements of two sequences, one after the other.                     *)
(***************************************************************************)
LEMMA Joined ==
  ASSUME NEW S, NEW a \in Seq(S), NEW b \in Seq(S)
  PROVE  /\ a \o b \in Seq(S)
         /\ Len(a \o b) = Len(a) + Len(b)
         /\ \A j \in 1 .. Len(a) : (a \o b)[j] = a[j]
         /\ \A j \in 1 .. Len(b) : (a \o b)[Len(a) + j] = b[j]
<1>1. a \o b \in Seq(S) /\ Len(a \o b) = Len(a) + Len(b)
  OBVIOUS
<1>2. \A j \in 1 .. Len(a) : (a \o b)[j] = a[j]
  OBVIOUS
<1>3. \A j \in 1 .. Len(b) : (a \o b)[Len(a) + j] = b[j]
  OBVIOUS
<1>4. QED
  BY <1>1, <1>2, <1>3

(***************************************************************************)
(* removePollItem takes out one element and leaves the others in order.    *)
(***************************************************************************)
LEMMA Removed ==
  ASSUME NEW S, entries \in Seq(S), NEW k \in 1 .. Len(entries)
  PROVE  /\ Without(k) \in Seq(S)
         /\ Len(entries) \in Nat
         /\ Len(Without(k)) = Len(entries) - 1
         /\ \A j \in 1 .. Len(entries) : j < k => Without(k)[j] = entries[j]
         /\ \A j \in 1 .. Len(entries) : j > k => Without(k)[j - 1] = entries[j]
<1> DEFINE a == SubSeq(entries, 1, k - 1)
           b == SubSeq(entries, k + 1, Len(entries))
<1>1. a \in Seq(S) /\ Len(a) = k - 1 /\ \A j \in 1 .. k - 1 : a[j] = entries[j]
  OBVIOUS
<1>2. /\ b \in Seq(S)
      /\ Len(b) = Len(entries) - k
      /\ \A j \in 1 .. Len(entries) - k : b[j] = entries[j + k]
  OBVIOUS
<1>3. Len(entries) \in Nat /\ k \in Nat /\ 1 <= k /\ k <= Len(entries)
  OBVIOUS
<1> HIDE DEF a, b
<1>4. a \o b \in Seq(S) /\ Len(a \o b) = Len(a) + Len(b)
  BY <1>1, <1>2, Joined
<1>5. ASSUME NEW j \in 1 .. Len(entries), j < k
      PROVE  (a \o b)[j] = entries[j]
  <2>1. j \in 1 .. k - 1 /\ j \in 1 .. Len(a)
    BY <1>5, <1>1, <1>3
  <2>2. (a \o b)[j] = a[j]
    BY <1>1, <1>2, <2>1, Joined
  <2>3. QED
    BY <1>1, <2>1, <2>2
<1>6. ASSUME NEW j \in 1 .. Len(entries), j > k
      PROVE  (a \o b)[j - 1] = entries[j]
  <2>1. j - k \in 1 .. Len(entries) - k /\ j - k \in 1 .. Len(b)
    BY <1>6, <1>2, <1>3
  <2>2. Len(a) + (j - k) = j - 1 /\ (j - k) + k = j
    BY <1>1, <1>3
  <2>3. (a \o b)[Len(a) + (j - k)] = b[j - k]
    BY <1>1, <1>2, <2>1, Joined
  <2>4. b[j - k] = entries[j]
    BY <1>2, <2>1, <2>2
  <2>5. QED
    BY <2>2, <2>3, <2>4
<1>7. Len(a \o b) = Len(entries) - 1
  BY <1>1, <1>2, <1>3, <1>4
<1>8. QED
  BY <1>3, <1>4, <1>5, <1>6, <1>7 DEF a, b, Without

(***************************************************************************)
(* The entries, one by one.                                                *)
(***************************************************************************)
LEMMA EntryTypes ==
  ASSUME FDType
  PROVE  \A i \in 1 .. Len(entries) :
           /\ entries[i].fd \in 1 .. MaxFD
           /\ entries[i].conn \in Clients
<1> DEFINE E == [fd : 1 .. MaxFD, conn : Clients]
<1>1. entries \in Seq(E)
  BY DEF FDType
<1> HIDE DEF E
<1>2. \A i \in 1 .. Len(entries) : entries[i] \in E
  BY <1>1
<1>3. QED
  BY <1>2 DEF E

(***************************************************************************)
(* At first nothing is connected and the list is empty.                    *)
(***************************************************************************)
LEMMA InitInv == SessionAssumption /\ Init => IInv
<1> SUFFICES ASSUME SessionAssumption, Init
             PROVE  IInv
  OBVIOUS
<1>1. FDType
  BY DEF Init, FDType, SessionAssumption
<1>2. StartInv /\ FDInv
  BY DEF Init, StartInv, FDInv
<1>3. EntryInv /\ BatchInv
  BY DEF Init, EntryInv, BatchInv
<1>4. QED
  BY <1>1, <1>2, <1>3 DEF IInv

(***************************************************************************)
(* The steps of the utility, other than its connection, and those of the   *)
(* daemon that do not touch its end of a connection.                       *)
(***************************************************************************)
LEMMA OtherSteps ==
  ASSUME IInv, UNCHANGED <<srv, fd, entries>>,
         pc' \in [Clients -> {"start", "send", "wait"} \union Ended],
         \A c \in Clients : pc'[c] = "start" => pc[c] = "start",
         \/ batch' \subseteq batch
         \/ batch' \subseteq Registered \union {Listener}
  PROVE  IInv'
<1>1. BatchInv' /\ batch' \subseteq Clients \union {Listener}
  <2>1. CASE batch' \subseteq batch
    BY <2>1 DEF IInv, FDType, BatchInv
  <2>2. CASE batch' \subseteq Registered \union {Listener}
    <3>1. ASSUME NEW c \in Registered
          PROVE  c \in Clients /\ srv[c] = "open"
      <4>1. PICK i \in 1 .. Len(entries) : c = entries[i].conn
        BY DEF Registered
      <4>2. entries[i].conn \in Clients
        BY EntryTypes DEF IInv
      <4>3. QED
        BY <4>1, <4>2 DEF IInv, EntryInv
    <3>2. QED
      BY <2>2, <3>1 DEF BatchInv
  <2>3. QED
    BY <2>1, <2>2
<1>2. FDType'
  BY <1>1 DEF IInv, FDType
<1>3. StartInv' /\ FDInv'
  BY DEF IInv, StartInv, FDInv
<1>4. EntryInv'
  BY DEF IInv, EntryInv
<1>5. QED
  BY <1>1, <1>2, <1>3, <1>4 DEF IInv

(***************************************************************************)
(* A connection waits in the backlog, without descriptor and entry.        *)
(***************************************************************************)
LEMMA ConnectStep ==
  ASSUME SessionAssumption, IInv, NEW c \in Clients, Connect(c)
  PROVE  IInv'
<1>1. CASE running
  <2>1. srv' = [srv EXCEPT ![c] = "backlog"] /\ pc' = [pc EXCEPT ![c] = "send"]
    BY <1>1 DEF Connect
  <2>2. UNCHANGED <<fd, entries, batch>>
    BY DEF Connect
  <2>3. srv[c] = "none"
    BY DEF Connect, IInv, StartInv
  <2>4. \A d \in Clients : /\ srv'[d] = "open" <=> srv[d] = "open"
                           /\ srv'[d] = "denied" <=> srv[d] = "denied"
    BY <2>1, <2>3 DEF IInv, FDType
  <2>5. FDType'
    BY <2>1, <2>2 DEF IInv, FDType
  <2>6. StartInv'
    BY <2>1 DEF IInv, FDType, StartInv
  <2>7. FDInv'
    BY <2>2, <2>4 DEF IInv, FDInv
  <2>8. BatchInv'
    BY <2>2, <2>4 DEF IInv, BatchInv
  <2>9. \A i \in 1 .. Len(entries) : entries[i].conn \in Clients
    BY EntryTypes DEF IInv
  <2>10. EntryInv'
    BY <2>2, <2>4, <2>9 DEF IInv, EntryInv
  <2>11. QED
    BY <2>5, <2>6, <2>7, <2>8, <2>10 DEF IInv
<1>2. CASE ~running
  <2>1. /\ pc' = [pc EXCEPT ![c] = "failed"]
        /\ UNCHANGED <<srv, fd, entries, batch>>
    BY <1>2 DEF Connect, srvVars
  <2>2. /\ pc' \in [Clients -> {"start", "send", "wait"} \union Ended]
        /\ \A d \in Clients : pc'[d] = "start" => pc[d] = "start"
    BY <2>1 DEF IInv, FDType, Ended
  <2>3. QED
    BY <2>1, <2>2, OtherSteps
<1>3. QED
  BY <1>1, <1>2

(***************************************************************************)
(* A connection that is accepted gets a descriptor that no other has, and  *)
(* an entry at the end of the list unless it is denied                     *)
(* (commandSocketListener).                                                *)
(***************************************************************************)
LEMMA AcceptStep ==
  ASSUME SessionAssumption, IInv, Accept
  PROVE  IInv'
<1>1. CASE UNCHANGED <<srv, fd, entries>>
  BY <1>1, OtherSteps DEF Accept, cliVars, IInv, FDType
<1>2. ASSUME NEW c \in Clients, NEW f \in 1 .. MaxFD,
             srv[c] = "backlog", f \in FreeFDs,
             fd' = [fd EXCEPT ![c] = f],
             \/ srv' = [srv EXCEPT ![c] = "denied"] /\ UNCHANGED entries
             \/ /\ srv' = [srv EXCEPT ![c] = "open"]
                /\ entries' = Append(entries, [fd |-> f, conn |-> c])
      PROVE  IInv'
  <2> DEFINE e == [fd |-> f, conn |-> c]
             E == [fd : 1 .. MaxFD, conn : Clients]
  <2>1. UNCHANGED pc /\ batch' \subseteq batch
    BY DEF Accept, cliVars
  <2>2. f # 0 /\ \A d \in Clients : fd[d] # f
    BY <1>2 DEF FreeFDs, SessionAssumption
  <2>3. MaxFD \in Nat /\ fd \in [Clients -> 0 .. MaxFD] /\ entries \in Seq(E)
    BY DEF SessionAssumption, IInv, FDType
  <2>4. fd'[c] = f /\ \A d \in Clients : d # c => fd'[d] = fd[d]
    BY <1>2, <2>3
  <2>5. /\ srv'[c] \in {"open", "denied"}
        /\ \A d \in Clients : d # c => srv'[d] = srv[d]
    BY <1>2 DEF IInv, FDType
  <2>6. \A i \in 1 .. Len(entries) :
          entries[i].conn \in Clients /\ entries[i].conn # c
    BY <1>2, EntryTypes DEF IInv, EntryInv
  <2>7. FDType'
    <3>1. e \in E
      OBVIOUS
    <3>2. fd' \in [Clients -> 0 .. MaxFD]
      BY <1>2, <2>3
    <3>3. entries' \in Seq(E)
      <4> HIDE DEF E, e
      <4>1. entries' = entries \/ entries' = Append(entries, e)
        BY <1>2 DEF e
      <4>2. QED
        BY <2>3, <3>1, <4>1
    <3>4. srv' \in [Clients -> {"none", "backlog", "open", "denied", "closed"}]
      BY <1>2 DEF IInv, FDType
    <3>5. QED
      BY <2>1, <3>2, <3>3, <3>4 DEF IInv, FDType
  <2>8. StartInv'
    BY <1>2, <2>1, <2>5 DEF IInv, StartInv
  <2>9. FDInv'
    BY <2>2, <2>4, <2>5 DEF IInv, FDInv
  <2>10. BatchInv'
    BY <1>2, <2>1, <2>5 DEF IInv, BatchInv
  <2>11. EntryInv'
    <3>1. CASE srv' = [srv EXCEPT ![c] = "denied"] /\ UNCHANGED entries
      <4>1. srv'[c] = "denied"
        BY <3>1 DEF IInv, FDType
      <4>2. QED
        BY <2>4, <2>5, <2>6, <3>1, <4>1 DEF IInv, EntryInv
    <3>2. CASE /\ srv' = [srv EXCEPT ![c] = "open"]
               /\ entries' = Append(entries, e)
      <4>1. srv'[c] = "open"
        BY <3>2 DEF IInv, FDType
      <4>2. /\ Len(entries) \in Nat
            /\ Len(entries') = Len(entries) + 1
            /\ entries'[Len(entries) + 1] = e
            /\ \A i \in 1 .. Len(entries) : entries'[i] = entries[i]
        <5> HIDE DEF E, e
        <5>1. QED
          BY <2>3, <3>2
      <4>3. \A i \in 1 .. Len(entries') :
              i = Len(entries) + 1 \/ i \in 1 .. Len(entries)
        BY <4>2
      <4>4. \A i \in 1 .. Len(entries') :
              /\ srv'[entries'[i].conn] = "open"
              /\ entries'[i].fd = fd'[entries'[i].conn]
        BY <2>4, <2>5, <2>6, <4>1, <4>2, <4>3 DEF IInv, EntryInv
      <4>5. \A i, j \in 1 .. Len(entries') :
              entries'[i].conn = entries'[j].conn => i = j
        BY <2>6, <4>2, <4>3 DEF IInv, EntryInv
      <4>6. ASSUME NEW d \in Clients, srv'[d] = "open"
            PROVE  \E i \in 1 .. Len(entries') : entries'[i].conn = d
        <5>1. CASE d = c
          BY <4>2, <5>1
        <5>2. CASE d # c
          <6>1. PICK i \in 1 .. Len(entries) : entries[i].conn = d
            BY <2>5, <4>6, <5>2 DEF IInv, EntryInv
          <6>2. i \in 1 .. Len(entries') /\ entries'[i].conn = d
            BY <4>2, <6>1
          <6>3. QED
            BY <6>2
        <5>3. QED
          BY <5>1, <5>2
      <4>7. QED
        BY <4>4, <4>5, <4>6 DEF EntryInv
    <3>3. QED
      BY <1>2, <3>1, <3>2
  <2>12. QED
    BY <2>7, <2>8, <2>9, <2>10, <2>11 DEF IInv
<1>3. CASE ~(UNCHANGED <<srv, fd, entries>>)
  <2>1. PICK c \in {d \in Clients : srv[d] = "backlog"}, f \in 1 .. MaxFD :
          /\ Lowest(f)
          /\ fd' = [fd EXCEPT ![c] = f]
          /\ \/ srv' = [srv EXCEPT ![c] = "denied"] /\ UNCHANGED entries
             \/ /\ srv' = [srv EXCEPT ![c] = "open"]
                /\ entries' = Append(entries, [fd |-> f, conn |-> c])
    BY <1>3 DEF Accept
  <2>2. QED
    BY <1>2, <2>1 DEF Lowest
<1>4. QED
  BY <1>1, <1>3

(***************************************************************************)
(* A connection that is dropped takes its own entry with it: the first     *)
(* with its descriptor is the only one (PollUnRegEvent).                   *)
(***************************************************************************)
LEMMA DropStep ==
  ASSUME SessionAssumption, IInv, NEW c \in Clients, Drop(c)
  PROVE  IInv'
<1> DEFINE E == [fd : 1 .. MaxFD, conn : Clients]
<1>1. /\ entries' = UnReg(fd[c])
      /\ srv' = [srv EXCEPT ![c] = "closed"]
      /\ fd' = [fd EXCEPT ![c] = 0]
      /\ batch' = batch \ {c} /\ c \in batch
      /\ UNCHANGED pc
  BY DEF Drop, Handles, cliVars
<1>2. /\ MaxFD \in Nat /\ entries \in Seq(E)
      /\ srv \in [Clients -> {"none", "backlog", "open", "denied", "closed"}]
      /\ fd \in [Clients -> 0 .. MaxFD]
  BY DEF SessionAssumption, IInv, FDType
<1>3. srv[c] = "open"
  BY <1>1 DEF IInv, BatchInv, SessionAssumption
<1>4. PICK k \in 1 .. Len(entries) : entries[k].conn = c
  BY <1>3 DEF IInv, EntryInv
<1>5. \A i \in 1 .. Len(entries) : entries[i].conn \in Clients
  BY EntryTypes DEF IInv
<1>6. \A i \in 1 .. Len(entries) : entries[i].fd = fd[c] => i = k
  <2>1. fd[c] # 0
    BY <1>3 DEF IInv, FDInv
  <2>2. ASSUME NEW i \in 1 .. Len(entries), entries[i].fd = fd[c]
        PROVE  i = k
    <3>1. fd[entries[i].conn] = fd[c]
      BY <2>2 DEF IInv, EntryInv
    <3>2. entries[i].conn = c
      BY <1>5, <2>1, <3>1 DEF IInv, FDInv
    <3>3. QED
      BY <1>4, <3>2 DEF IInv, EntryInv
  <2>3. QED
    BY <2>2
<1>7. entries' = Without(k)
  <2>1. entries[k].fd = fd[c]
    BY <1>4 DEF IInv, EntryInv
  <2>2. k \in 1 .. Len(entries)
        /\ entries[k].fd = fd[c] /\ \A j \in 1 .. k - 1 : entries[j].fd # fd[c]
    <3>1. Len(entries) \in Nat
      BY <1>2
    <3>2. \A j \in 1 .. k - 1 : j \in 1 .. Len(entries) /\ j # k
      BY <3>1
    <3>3. QED
      BY <1>6, <2>1, <3>2
  <2>3. k = CHOOSE i \in 1 .. Len(entries) :
              /\ entries[i].fd = fd[c]
              /\ \A j \in 1 .. i - 1 : entries[j].fd # fd[c]
    BY <1>6, <2>2
  <2>4. QED
    BY <1>1, <2>3 DEF UnReg
<1>8. /\ entries' \in Seq(E)
      /\ Len(entries) \in Nat
      /\ Len(entries') = Len(entries) - 1
      /\ \A j \in 1 .. Len(entries) : j < k => entries'[j] = entries[j]
      /\ \A j \in 1 .. Len(entries) : j > k => entries'[j - 1] = entries[j]
  BY <1>2, <1>4, <1>7, Removed
<1>9. \A i \in 1 .. Len(entries') :
        \E j \in 1 .. Len(entries) :
          /\ j # k /\ entries'[i] = entries[j]
          /\ j = IF i < k THEN i ELSE i + 1
  <2>1. ASSUME NEW i \in 1 .. Len(entries'), i < k
        PROVE  i \in 1 .. Len(entries) /\ entries'[i] = entries[i]
    BY <1>8, <2>1, SMTT(20)
  <2>2. ASSUME NEW i \in 1 .. Len(entries'), ~(i < k)
        PROVE  /\ i + 1 \in 1 .. Len(entries) /\ i + 1 # k
               /\ entries'[i] = entries[i + 1]
    <3>1. i + 1 \in 1 .. Len(entries) /\ i + 1 > k /\ (i + 1) - 1 = i
      BY <1>8, <2>2
    <3>2. QED
      BY <1>8, <3>1
  <2>3. QED
    BY <1>8, <2>1, <2>2
<1>10. /\ srv'[c] = "closed" /\ fd'[c] = 0
       /\ \A d \in Clients : d # c => srv'[d] = srv[d] /\ fd'[d] = fd[d]
  BY <1>1, <1>2
<1>11. \A j \in 1 .. Len(entries) : j # k => entries[j].conn # c
  BY <1>4 DEF IInv, EntryInv
<1>12. FDType'
  <2>1. srv' \in [Clients -> {"none", "backlog", "open", "denied", "closed"}]
    BY <1>1, <1>2
  <2>2. fd' \in [Clients -> 0 .. MaxFD]
    BY <1>1, <1>2
  <2>3. batch' \subseteq Clients \union {Listener}
    BY <1>1 DEF IInv, FDType
  <2>4. QED
    BY <1>1, <1>8, <2>1, <2>2, <2>3 DEF IInv, FDType
<1>13. StartInv'
  BY <1>1, <1>3, <1>10 DEF IInv, StartInv
<1>14. FDInv'
  BY <1>10 DEF IInv, FDInv
<1>15. BatchInv'
  BY <1>1, <1>10 DEF IInv, BatchInv
<1>16. EntryInv'
  <2>1. \A i \in 1 .. Len(entries') :
          /\ srv'[entries'[i].conn] = "open"
          /\ entries'[i].fd = fd'[entries'[i].conn]
    BY <1>5, <1>9, <1>10, <1>11 DEF IInv, EntryInv
  <2>2. ASSUME NEW i \in 1 .. Len(entries'), NEW j \in 1 .. Len(entries'),
               entries'[i].conn = entries'[j].conn
        PROVE  i = j
    <3>1. PICK p \in 1 .. Len(entries) :
            /\ entries'[i] = entries[p]
            /\ p = IF i < k THEN i ELSE i + 1
      BY <1>9
    <3>2. PICK q \in 1 .. Len(entries) :
            /\ entries'[j] = entries[q]
            /\ q = IF j < k THEN j ELSE j + 1
      BY <1>9
    <3>3. p = q
      BY <2>2, <3>1, <3>2 DEF IInv, EntryInv
    <3>4. i \in Nat /\ j \in Nat /\ k \in Nat
      BY <1>8
    <3>5. (IF i < k THEN i ELSE i + 1) = (IF j < k THEN j ELSE j + 1)
      BY <3>1, <3>2, <3>3
    <3>6. QED
      BY <3>4, <3>5
  <2>3. ASSUME NEW d \in Clients, srv'[d] = "open"
        PROVE  \E i \in 1 .. Len(entries') : entries'[i].conn = d
    <3>1. d # c /\ srv[d] = "open"
      BY <1>10, <2>3
    <3>2. PICK j \in 1 .. Len(entries) : entries[j].conn = d
      BY <3>1 DEF IInv, EntryInv
    <3>3. j # k
      BY <1>4, <3>1, <3>2
    <3>4. CASE j < k
      <4>1. j \in 1 .. Len(entries') /\ entries'[j] = entries[j]
        BY <1>8, <3>4
      <4>2. QED
        BY <3>2, <4>1
    <3>5. CASE j > k
      <4>1. j - 1 \in 1 .. Len(entries') /\ entries'[j - 1] = entries[j]
        BY <1>8, <3>5
      <4>2. QED
        BY <3>2, <4>1
    <3>6. QED
      BY <1>8, <3>3, <3>4, <3>5
  <2>4. QED
    BY <2>1, <2>2, <2>3 DEF EntryInv
<1>17. QED
  BY <1>12, <1>13, <1>14, <1>15, <1>16 DEF IInv

(***************************************************************************)
(* All that the daemon had goes with it.                                   *)
(***************************************************************************)
LEMMA StopStep ==
  ASSUME SessionAssumption, IInv, Stop
  PROVE  IInv'
<1>1. /\ UNCHANGED pc /\ batch' = {} /\ entries' = <<>>
      /\ srv' = [c \in Clients |-> IF srv[c] = "none" THEN "none" ELSE "closed"]
      /\ fd' = [c \in Clients |-> 0]
  BY DEF Stop, cliVars
<1>2. FDType'
  BY <1>1 DEF SessionAssumption, IInv, FDType
<1>3. StartInv' /\ FDInv'
  BY <1>1 DEF IInv, StartInv, FDInv
<1>4. EntryInv' /\ BatchInv'
  BY <1>1 DEF EntryInv, BatchInv
<1>5. QED
  BY <1>2, <1>3, <1>4 DEF IInv

(***************************************************************************)
(* What a run may be asked to do.                                          *)
(***************************************************************************)
LEMMA Kinds ==
  ASSUME JobType, NEW c \in Clients
  PROVE  job[c].kind \in {"put", "get", "cmd"}
  BY DEF JobType, Jobs

(***************************************************************************)
(* The outcome for a line that is read, by the kind of the run.            *)
(***************************************************************************)
LEMMA AnswerIs ==
  ASSUME JobType, NEW c \in Clients, NEW l
  PROVE  /\ job[c].kind = "put" =>
              Answer(c, l) = IF l.tag = "er" THEN "failed" ELSE "uploaded"
         /\ job[c].kind = "cmd" => Answer(c, l) = "answered"
         /\ job[c].kind = "get" =>
              \/ /\ Receive(file[c], l).state = "finished"
                 /\ Answer(c, l) = "received"
              \/ /\ Receive(file[c], l).state = "error"
                 /\ Answer(c, l) = "failed"
              \/ /\ Receive(file[c], l).state \notin {"finished", "error"}
                 /\ Answer(c, l) = "wait"
<1>1. ASSUME job[c].kind = "put"
      PROVE  Answer(c, l) = IF l.tag = "er" THEN "failed" ELSE "uploaded"
  BY <1>1, Zenon DEF Answer
<1>2. ASSUME job[c].kind = "cmd"
      PROVE  Answer(c, l) = "answered"
  BY <1>2, Zenon DEF Answer
<1>3. ASSUME job[c].kind = "get"
      PROVE  \/ /\ Receive(file[c], l).state = "finished"
                /\ Answer(c, l) = "received"
             \/ /\ Receive(file[c], l).state = "error"
                /\ Answer(c, l) = "failed"
             \/ /\ Receive(file[c], l).state \notin {"finished", "error"}
                /\ Answer(c, l) = "wait"
  <2> DEFINE st == Receive(file[c], l).state
  <2>1. Answer(c, l) = CASE st = "finished" -> "received"
                         [] st = "error"    -> "failed"
                         [] OTHER           -> "wait"
    BY <1>3, Zenon DEF Answer
  <2> HIDE DEF st
  <2>2. CASE st = "finished"
    <3>1. st # "error"
      BY <2>2
    <3>2. Answer(c, l) = "received"
      BY <2>1, <2>2, <3>1, Zenon
    <3>3. QED
      BY <2>2, <3>2 DEF st
  <2>3. CASE st = "error"
    <3>1. st # "finished"
      BY <2>3
    <3>2. Answer(c, l) = "failed"
      BY <2>1, <2>3, <3>1, Zenon
    <3>3. QED
      BY <2>3, <3>2 DEF st
  <2>4. CASE st # "finished" /\ st # "error"
    <3>1. Answer(c, l) = "wait"
      BY <2>1, <2>4, Zenon
    <3>2. QED
      BY <2>4, <3>1 DEF st
  <2>5. QED
    BY <2>2, <2>3, <2>4
<1>4. QED
  BY <1>1, <1>2, <1>3

(***************************************************************************)
(* No line that is read starts a run again (Answer).                       *)
(***************************************************************************)
LEMMA AnswerEnds ==
  ASSUME JobType, NEW c \in Clients, NEW l
  PROVE  Answer(c, l) \in {"send", "wait"} \union Ended
<1>1. Answer(c, l) \in {"failed", "uploaded", "answered", "received", "wait"}
  BY AnswerIs, Kinds
<1>2. QED
  BY <1>1 DEF Ended

(***************************************************************************)
(* The end of the connection ends the run (ReadEOF).                       *)
(***************************************************************************)
LEMMA EOFEnds ==
  ASSUME JobType, NEW c \in Clients, NEW v,
         v = CASE job[c].kind = "put" -> "uploaded"
               [] job[c].kind = "get" -> "received"
               [] job[c].kind = "cmd" -> "failed"
  PROVE  v \in Ended
<1>1. v \in {"uploaded", "received", "failed"}
  BY Kinds, Zenon
<1>2. QED
  BY <1>1 DEF Ended

(***************************************************************************)
(* Every step keeps the four parts.                                        *)
(***************************************************************************)
LEMMA NextInv ==
  ASSUME SessionAssumption, JobType, IInv, [Next]_vars
  PROVE  IInv'
<1> DEFINE PCs == [Clients -> {"start", "send", "wait"} \union Ended]
<1>1. pc \in PCs
  BY DEF IInv, FDType
<1>2. ASSUME NEW c \in Clients, Connect(c)
      PROVE  IInv'
  BY <1>2, ConnectStep
<1>3. ASSUME NEW c \in Clients,
             Write(c) \/ Read(c) \/ ReadEOF(c) \/ GiveUp(c)
      PROVE  IInv'
  <2>1. UNCHANGED <<srv, fd, entries, batch>> /\ pc[c] # "start"
    BY <1>3 DEF Write, Read, ReadEOF, GiveUp, Connected, srvVars
  <2>2. PICK v \in {"send", "wait"} \union Ended : pc' = [pc EXCEPT ![c] = v]
    <3>1. CASE Write(c)
      BY <1>1, <3>1 DEF Write
    <3>2. CASE Read(c)
      BY <1>1, <3>2, AnswerEnds DEF Read
    <3>3. CASE ReadEOF(c)
      BY <1>1, <3>3, EOFEnds DEF ReadEOF
    <3>4. CASE GiveUp(c)
      BY <3>4 DEF GiveUp, Ended
    <3>5. QED
      BY <1>3, <3>1, <3>2, <3>3, <3>4
  <2>3. v # "start"
    BY DEF Ended
  <2>4. pc' \in PCs /\ \A d \in Clients : pc'[d] = "start" => pc[d] = "start"
    BY <1>1, <2>2, <2>3
  <2>5. QED
    BY <2>1, <2>4, OtherSteps
<1>4. CASE PollWait
  <2>1. UNCHANGED <<pc, srv, fd, entries>> /\ batch' \subseteq Ready
    BY <1>4 DEF PollWait, cliVars
  <2>2. Ready \subseteq Registered \union {Listener}
    BY DEF Ready
  <2>3. QED
    BY <1>1, <2>1, <2>2, OtherSteps
<1>5. CASE Accept
  BY <1>5, AcceptStep
<1>6. ASSUME NEW c \in Clients, Drop(c)
      PROVE  IInv'
  BY <1>6, DropStep
<1>7. ASSUME NEW c \in Clients, TimeOut(c) \/ Command(c) \/ ReceiveLine(c)
      PROVE  IInv'
  <2>1. UNCHANGED <<pc, srv, fd, entries>> /\ batch' \subseteq batch
    BY <1>7 DEF TimeOut, Command, ReceiveLine, Takes, Handles, cliVars
  <2>2. QED
    BY <1>1, <2>1, OtherSteps
<1>8. CASE Stop \/ BrokenPipe
  BY <1>8, StopStep DEF BrokenPipe
<1>9. CASE UNCHANGED vars
  BY <1>1, <1>9, OtherSteps DEF vars, cliVars, srvVars
<1>10. CASE Written
  <2>1. UNCHANGED <<pc, srv, fd, entries, batch>>
    BY <1>10 DEF Written, cliVars
  <2>2. QED
    BY <1>1, <2>1, OtherSteps
<1>11. QED
  BY <1>2, <1>3, <1>4, <1>5, <1>6, <1>7, <1>8, <1>9, <1>10
     DEF Next, Utility, Daemon, Handler

----------------------------------------------------------------------------
(* Texts, and the transfer of one.                                         *)

(***************************************************************************)
(* Each set of numbers that is not empty has a least element.              *)
(***************************************************************************)
LEMMA Least ==
  ASSUME NEW S \in SUBSET Nat, S # {}
  PROVE  \E m \in S : \A k \in S : ~(k < m)
<1> DEFINE Less == OpToRel(<, Nat)
<1>1. \A x, y \in Nat : x < y => <<x, y>> \in Less
  BY DEF OpToRel
<1>2. IsWellFoundedOn(Less, Nat)
  BY NatLessThanWellFounded
<1> HIDE DEF Less
<1>3. PICK x \in S : \A y \in S : ~(<<y, x>> \in Less)
  BY <1>2, WFMin
<1>4. QED
  BY <1>1, <1>3

\* NonBlank, as a function up to a line.
KeptTo(text, g, n) ==
  IF n = 0 THEN <<>>
  ELSE IF LineLength[text[n]] # 0 THEN Append(g[n - 1], text[n])
  ELSE g[n - 1]

Kept(text, N, g) ==
  /\ g \in [0 .. N -> Seq(TextLines)]
  /\ \A n \in 0 .. N : g[n] = KeptTo(text, g, n)

(***************************************************************************)
(* A function that keeps the lines of a text which are not blank, one line *)
(* after the other, exists for any part of the text: there is no least     *)
(* part without one.                                                       *)
(***************************************************************************)
LEMMA KeptExists ==
  ASSUME NEW text \in Seq(TextLines)
  PROVE  \A N \in 0 .. Len(text) : \E g : Kept(text, N, g)
<1> DEFINE Bad == {N \in 0 .. Len(text) : ~\E g : Kept(text, N, g)}
<1>0. Len(text) \in Nat
  BY LenProperties
<1>1. SUFFICES ASSUME NEW b \in Bad
               PROVE  FALSE
  OBVIOUS
<1>2. Bad \in SUBSET Nat
  BY <1>0
<1>3. PICK m \in Bad : \A k \in Bad : ~(k < m)
  <2> HIDE DEF Bad
  <2>1. QED
    BY <1>1, <1>2, Least
<1>4. m # 0
  <2>1. Kept(text, 0, [n \in 0 .. 0 |-> <<>>])
    BY EmptySeq DEF Kept, KeptTo
  <2>2. QED
    BY <2>1
<1>5. PICK g : Kept(text, m - 1, g)
  <2>1. m - 1 \in 0 .. Len(text) /\ (m - 1 < m)
    BY <1>0, <1>2, <1>4
  <2>2. QED
    BY <1>3, <2>1
<1> DEFINE h == [n \in 0 .. m |-> IF n = m THEN KeptTo(text, g, m) ELSE g[n]]
<1>6. m \in Nat /\ m >= 1 /\ m - 1 \in 0 .. m - 1 /\ m \in 1 .. Len(text)
  BY <1>0, <1>2, <1>4
<1>7. text[m] \in TextLines /\ g[m - 1] \in Seq(TextLines)
  BY <1>5, <1>6, ElementOfSeq DEF Kept
<1>8. KeptTo(text, g, m) \in Seq(TextLines)
  BY <1>6, <1>7, AppendProperties DEF KeptTo
<1>9. h \in [0 .. m -> Seq(TextLines)]
  BY <1>5, <1>6, <1>8 DEF Kept
<1>10. ASSUME NEW n \in 0 .. m
       PROVE  h[n] = KeptTo(text, h, n)
  <2>1. n = 0 \/ n - 1 \in 0 .. m - 1
    BY <1>6
  <2>2. h[n - 1] = g[n - 1] \/ n = 0
    BY <1>6, <2>1
  <2>3. KeptTo(text, h, n) = KeptTo(text, g, n)
    BY <2>2 DEF KeptTo
  <2>4. n = m \/ n \in 0 .. m - 1
    BY <1>6
  <2>5. n # m => g[n] = KeptTo(text, g, n)
    BY <1>5, <2>4 DEF Kept
  <2>6. h[n] = KeptTo(text, g, n)
    BY <2>5
  <2>7. QED
    BY <2>3, <2>6
<1>11. QED
  BY <1>9, <1>10 DEF Kept

(***************************************************************************)
(* The lines of a text that are not blank are a text (UtilSplitString):    *)
(* there is no least part of it whose lines are not.                       *)
(***************************************************************************)
LEMMA NonBlankType ==
  ASSUME NEW text \in Seq(TextLines)
  PROVE  NonBlank(text) \in Seq(TextLines)
<1> DEFINE kept[n \in 0 .. Len(text)] ==
        IF n = 0 THEN <<>>
        ELSE IF LineLength[text[n]] # 0 THEN Append(kept[n - 1], text[n])
             ELSE kept[n - 1]
<1>1. Len(text) \in Nat
  BY LenProperties
<1>2. PICK g : Kept(text, Len(text), g)
  BY <1>1, KeptExists
<1>3. g = [n \in 0 .. Len(text) |->
        IF n = 0 THEN <<>>
        ELSE IF LineLength[text[n]] # 0 THEN Append(g[n - 1], text[n])
             ELSE g[n - 1]]
  BY <1>2 DEF Kept, KeptTo
<1>4. kept = [n \in 0 .. Len(text) |->
        IF n = 0 THEN <<>>
        ELSE IF LineLength[text[n]] # 0 THEN Append(kept[n - 1], text[n])
             ELSE kept[n - 1]]
  BY <1>3
<1>5. NonBlank(text) = kept[Len(text)]
  BY DEF NonBlank
<1> HIDE DEF kept
<1>6. kept[0] = <<>>
  BY <1>1, <1>4
<1>7. ASSUME NEW n \in 1 .. Len(text)
      PROVE  kept[n] = IF LineLength[text[n]] # 0
                       THEN Append(kept[n - 1], text[n]) ELSE kept[n - 1]
  <2>1. n \in 0 .. Len(text) /\ n # 0
    BY <1>1
  <2>2. QED
    BY <1>4, <2>1
<1> DEFINE Bad == {n \in 0 .. Len(text) : kept[n] \notin Seq(TextLines)}
<1>8. SUFFICES ASSUME Bad # {}
               PROVE  FALSE
  BY <1>1, <1>5
<1>9. Bad \in SUBSET Nat
  BY <1>1
<1>10. PICK m \in Bad : \A k \in Bad : ~(k < m)
  <2> HIDE DEF Bad
  <2>1. QED
    BY <1>8, <1>9, Least
<1>11. m # 0
  BY <1>6, EmptySeq
<1>12. m \in 1 .. Len(text) /\ m - 1 \in 0 .. Len(text) /\ m - 1 < m
  BY <1>1, <1>9, <1>11
<1>13. kept[m - 1] \in Seq(TextLines)
  BY <1>10, <1>12
<1>14. text[m] \in TextLines
  BY <1>12, ElementOfSeq
<1>15. kept[m] \in Seq(TextLines)
  <2>1. \/ kept[m] = Append(kept[m - 1], text[m])
        \/ kept[m] = kept[m - 1]
    BY <1>7, <1>12
  <2>2. Append(kept[m - 1], text[m]) \in Seq(TextLines)
    BY <1>13, <1>14, AppendProperties, Zenon
  <2>3. QED
    BY <1>13, <2>1, <2>2
<1>16. QED
  BY <1>15

(***************************************************************************)
(* The lines that MonitorSendScript writes for a script.                   *)
(***************************************************************************)
LEMMA ScriptLinesAre ==
  ASSUME NEW name \in Names, NEW text \in Texts
  PROVE  /\ NonBlank(text) \in Texts /\ Len(NonBlank(text)) \in Nat
         /\ ScriptLines(name, text) \in Seq(Lines)
         /\ Len(ScriptLines(name, text)) = Len(NonBlank(text)) + 2
         /\ ScriptLines(name, text)[1] = Line("sb", name)
         /\ \A i \in 1 .. Len(NonBlank(text)) :
              /\ NonBlank(text)[i] \in TextLines
              /\ ScriptLines(name, text)[i + 1] = Line("sl", NonBlank(text)[i])
         /\ ScriptLines(name, text)[Len(NonBlank(text)) + 2] = Line("se", name)
<1> DEFINE b == NonBlank(text)
           p == <<Line("sb", name)>>
           q == [i \in 1 .. Len(b) |-> Line("sl", b[i])]
           r == <<Line("se", name)>>
<1>1. b \in Texts /\ b \in Seq(TextLines) /\ Len(b) \in Nat
  BY NonBlankType, LenProperties DEF Texts
<1>2. \A i \in 1 .. Len(b) : b[i] \in TextLines
  BY <1>1, ElementOfSeq
<1>3. ScriptLines(name, text) = (p \o q) \o r
  BY DEF ScriptLines
<1> HIDE DEF b
<1>4. Line("sb", name) \in Lines /\ Line("se", name) \in Lines
  BY DEF Line, Lines, Tags
<1>5. \A i \in 1 .. Len(b) : Line("sl", b[i]) \in Lines
  BY <1>2 DEF Line, Lines
<1>6. p \in Seq(Lines) /\ Len(p) = 1 /\ p[1] = Line("sb", name)
  BY <1>4
<1>7. r \in Seq(Lines) /\ Len(r) = 1 /\ r[1] = Line("se", name)
  BY <1>4
<1>8. /\ q \in Seq(Lines) /\ Len(q) = Len(b)
      /\ \A i \in 1 .. Len(b) : q[i] = Line("sl", b[i])
  BY <1>1, <1>5
<1> HIDE DEF p, q, r
<1>9. /\ p \o q \in Seq(Lines) /\ Len(p \o q) = 1 + Len(b)
      /\ (p \o q)[1] = Line("sb", name)
      /\ \A i \in 1 .. Len(b) : (p \o q)[1 + i] = Line("sl", b[i])
  BY <1>6, <1>8, Joined
<1>10. /\ (p \o q) \o r \in Seq(Lines) /\ Len((p \o q) \o r) = 1 + Len(b) + 1
       /\ \A i \in 1 .. 1 + Len(b) : ((p \o q) \o r)[i] = (p \o q)[i]
       /\ ((p \o q) \o r)[1 + Len(b) + 1] = Line("se", name)
  <2> DEFINE w == p \o q
  <2>1. w \in Seq(Lines) /\ Len(w) = 1 + Len(b)
    BY <1>9
  <2> HIDE DEF w
  <2>2. 1 \in 1 .. Len(r)
    BY <1>7
  <2>3. /\ w \o r \in Seq(Lines) /\ Len(w \o r) = Len(w) + Len(r)
        /\ \A i \in 1 .. Len(w) : (w \o r)[i] = w[i]
        /\ \A j \in 1 .. Len(r) : (w \o r)[Len(w) + j] = r[j]
    <3>1. w \in Seq(Lines) /\ r \in Seq(Lines)
      BY <1>7, <2>1
    <3>2. QED
      BY <3>1, Joined
  <2>4. (w \o r)[Len(w) + 1] = r[1]
    BY <2>2, <2>3
  <2>5. QED
    BY <1>7, <2>1, <2>3, <2>4 DEF w
<1>11. \A i \in 1 .. Len(b) : i + 1 \in 1 .. 1 + Len(b) /\ i + 1 = 1 + i
  BY <1>1
<1>12. 1 \in 1 .. 1 + Len(b) /\ 1 + Len(b) + 1 = Len(b) + 2
  BY <1>1
<1>13. ScriptLines(name, text)[1] = Line("sb", name)
  BY <1>3, <1>9, <1>10, <1>12
<1>14. \A i \in 1 .. Len(b) : ScriptLines(name, text)[i + 1] = Line("sl", b[i])
  BY <1>3, <1>9, <1>10, <1>11
<1>15. QED
  BY <1>1, <1>2, <1>3, <1>10, <1>12, <1>13, <1>14 DEF b

(***************************************************************************)
(* What MonitorRecvScript does, case by case.                              *)
(***************************************************************************)
LEMMA ReceiveCases ==
  ASSUME NEW ri, NEW l
  PROVE  \/ /\ BadLength(l) \/ l.tag = "er"
            /\ Receive(ri, l) = Failed(ri)
         \/ /\ ~BadLength(l) /\ ri.state = "idle" /\ l.tag = "sb"
            /\ Receive(ri, l) = [ri EXCEPT !.name = l.arg, !.state = "waitline"]
         \/ /\ ~BadLength(l) /\ ri.state = "waitline" /\ l.tag = "se"
            /\ Receive(ri, l) = [ri EXCEPT !.state = "finished"]
         \/ /\ ~BadLength(l) /\ ri.state = "waitline" /\ l.tag = "sl"
            /\ TooLong(ri, l.arg) /\ Receive(ri, l) = Failed(ri)
         \/ /\ ~BadLength(l) /\ ri.state = "waitline" /\ l.tag = "sl"
            /\ ~TooLong(ri, l.arg) /\ Receive(ri, l) = Added(ri, l.arg)
         \/ /\ ~BadLength(l) /\ l.tag # "er"
            /\ ~(ri.state = "idle" /\ l.tag = "sb")
            /\ ~(ri.state = "waitline" /\ l.tag \in {"se", "sl"})
            /\ Receive(ri, l) = ri
<1>1. CASE BadLength(l) \/ l.tag = "er"
  <2>1. l.tag = "er" => l.tag # "sb" /\ l.tag # "se" /\ l.tag # "sl"
    OBVIOUS
  <2>2. Receive(ri, l) = Failed(ri)
    BY <1>1, <2>1, Zenon DEF Receive
  <2>3. QED
    BY <1>1, <2>2
<1>2. CASE ~BadLength(l) /\ ri.state = "idle" /\ l.tag = "sb"
  <2>1. l.tag # "er" /\ ri.state # "waitline"
    BY <1>2
  <2>2. Receive(ri, l) = [ri EXCEPT !.name = l.arg, !.state = "waitline"]
    BY <1>2, <2>1, Zenon DEF Receive
  <2>3. QED
    BY <1>2, <2>2
<1>3. CASE ~BadLength(l) /\ ri.state = "waitline" /\ l.tag = "se"
  <2>1. l.tag # "er" /\ l.tag # "sl" /\ ri.state # "idle"
    BY <1>3
  <2>2. Receive(ri, l) = [ri EXCEPT !.state = "finished"]
    BY <1>3, <2>1, Zenon DEF Receive
  <2>3. QED
    BY <1>3, <2>2
<1>4. CASE ~BadLength(l) /\ ri.state = "waitline" /\ l.tag = "sl"
  <2>1. l.tag # "er" /\ l.tag # "se" /\ ri.state # "idle"
    BY <1>4
  <2>2. Receive(ri, l) = IF TooLong(ri, l.arg) THEN Failed(ri)
                         ELSE Added(ri, l.arg)
    BY <1>4, <2>1, Zenon DEF Receive
  <2>3. QED
    BY <1>4, <2>2
<1>5. CASE /\ ~(BadLength(l) \/ l.tag = "er")
           /\ ~(ri.state = "idle" /\ l.tag = "sb")
           /\ ~(ri.state = "waitline" /\ l.tag \in {"se", "sl"})
  <2>1. /\ ~(ri.state = "waitline" /\ l.tag = "se")
        /\ ~(ri.state = "waitline" /\ l.tag = "sl")
    BY <1>5
  <2>2. Receive(ri, l) = ri
    BY <1>5, <2>1, Zenon DEF Receive
  <2>3. QED
    BY <1>5, <2>2
<1>6. QED
  BY <1>1, <1>2, <1>3, <1>4, <1>5

(***************************************************************************)
(* A buffer that is enlarged in time has room for the line, the newline    *)
(* and the end of the string, as no line is longer than it was at first.   *)
(***************************************************************************)
LEMMA GrownIs ==
  ASSUME ReceiverAssumption, NEW ri \in Receivers, NEW n \in Nat
  PROVE  /\ Grown(ri, n) \in Receivers
         /\ Grown(ri, n).text = ri.text /\ Grown(ri, n).len = ri.len
         /\ Grown(ri, n).state = ri.state /\ Grown(ri, n).name = ri.name
         /\ Fits(ri) => Grown(ri, n).size >= FirstSize
         /\ Fits(ri) /\ n <= MaxLine => ri.len + n + 1 < Grown(ri, n).size
<1>1. /\ ri.len \in Nat /\ ri.size \in Nat
      /\ MaxLine \in Nat /\ FirstSize \in Nat /\ FirstSize >= MaxLine + 3
  BY DEF Receivers, ReceiverAssumption
<1>2. CASE ri.len + n + 2 >= ri.size
  <2>1. Grown(ri, n) = [ri EXCEPT !.size = 2 * ri.size]
    BY <1>2 DEF Grown
  <2>2. 2 * ri.size \in Nat
    BY <1>1
  <2>3. /\ Grown(ri, n) \in Receivers
        /\ Grown(ri, n).text = ri.text /\ Grown(ri, n).len = ri.len
        /\ Grown(ri, n).state = ri.state /\ Grown(ri, n).name = ri.name
        /\ Grown(ri, n).size = 2 * ri.size
    BY <2>1, <2>2 DEF Receivers
  <2>4. Fits(ri) => 2 * ri.size >= FirstSize
    BY <1>1 DEF Fits
  <2>5. Fits(ri) /\ n <= MaxLine => ri.len + n + 1 < 2 * ri.size
    BY <1>1 DEF Fits
  <2>6. QED
    BY <2>3, <2>4, <2>5
<1>3. CASE ~(ri.len + n + 2 >= ri.size)
  <2>1. Grown(ri, n) = ri
    BY <1>3 DEF Grown
  <2>2. ri.len + n + 1 < ri.size
    BY <1>1, <1>3
  <2>3. QED
    BY <2>1, <2>2 DEF Fits
<1>4. QED
  BY <1>2, <1>3

(***************************************************************************)
(* A line that is added.                                                   *)
(***************************************************************************)
LEMMA AddedIs ==
  ASSUME ReceiverAssumption, NEW ri \in Receivers, NEW t \in TextLines,
         ~TooLong(ri, t)
  PROVE  /\ Added(ri, t) \in Receivers
         /\ Added(ri, t).text = Append(ri.text, t)
         /\ Added(ri, t).state = ri.state /\ Added(ri, t).name = ri.name
         /\ Fits(ri) /\ LineLength[t] <= MaxLine => Fits(Added(ri, t))
<1> DEFINE n == LineLength[t]
           g == Grown(ri, n)
<1>1. n \in Nat /\ ri.len \in Nat /\ ri.len + n < SizeLimit /\ SizeLimit \in Nat
  BY DEF ReceiverAssumption, Receivers, TooLong
<1>2. /\ g \in Receivers /\ g.text = ri.text /\ g.len = ri.len
      /\ g.state = ri.state /\ g.name = ri.name
      /\ Fits(ri) => g.size >= FirstSize
      /\ Fits(ri) /\ n <= MaxLine => ri.len + n + 1 < g.size
  BY <1>1, GrownIs
<1>3. Added(ri, t) = [g EXCEPT !.text = Append(ri.text, t),
                               !.len = ri.len + n + 1]
  BY <1>2 DEF Added
<1>4. ri.text \in Texts /\ Append(ri.text, t) \in Texts
  BY AppendProperties DEF Receivers, Texts
<1>5. ri.len + n + 1 \in 0 .. SizeLimit
  BY <1>1
<1> HIDE DEF g, n
<1>6. /\ Added(ri, t) \in Receivers
      /\ Added(ri, t).text = Append(ri.text, t)
      /\ Added(ri, t).len = ri.len + n + 1
      /\ Added(ri, t).size = g.size
      /\ Added(ri, t).state = g.state /\ Added(ri, t).name = g.name
  BY <1>2, <1>3, <1>4, <1>5 DEF Receivers
<1>7. QED
  BY <1>2, <1>6 DEF Fits, n

(***************************************************************************)
(* A receiver stays one, and its text within its buffer.                   *)
(***************************************************************************)
LEMMA ReceiveType ==
  ASSUME ReceiverAssumption, NEW ri \in Receivers, NEW l \in Lines
  PROVE  /\ Receive(ri, l) \in Receivers
         /\ Fits(ri) => Fits(Receive(ri, l))
<1>1. /\ l.tag = "sl" => l.arg \in TextLines
      /\ l.tag # "sl" => l.arg \in Names \union {None}
  BY DEF Lines
<1>2. CASE Receive(ri, l) = Failed(ri)
  BY <1>2 DEF Failed, Receivers, Fits
<1>3. CASE /\ l.tag = "sb"
           /\ Receive(ri, l) = [ri EXCEPT !.name = l.arg, !.state = "waitline"]
  BY <1>1, <1>3 DEF Receivers, Fits
<1>4. CASE Receive(ri, l) = [ri EXCEPT !.state = "finished"]
  BY <1>4 DEF Receivers, Fits
<1>5. CASE /\ ~BadLength(l) /\ l.tag = "sl" /\ ~TooLong(ri, l.arg)
           /\ Receive(ri, l) = Added(ri, l.arg)
  <2>1. LineLength[l.arg] \in Nat /\ MaxLine \in Nat
    BY <1>1, <1>5 DEF ReceiverAssumption
  <2>2. LineLength[l.arg] <= MaxLine
    BY <1>5, <2>1 DEF BadLength
  <2>3. QED
    BY <1>1, <1>5, <2>2, AddedIs
<1>6. CASE Receive(ri, l) = ri
  BY <1>6
<1>7. QED
  BY <1>2, <1>3, <1>4, <1>5, <1>6, ReceiveCases

(***************************************************************************)
(* Any one of them.                                                        *)
(***************************************************************************)
LEMMA ScriptLineAt ==
  ASSUME NEW name \in Names, NEW text \in Texts,
         NEW i \in 1 .. Len(ScriptLines(name, text))
  PROVE  LET body == NonBlank(text)
         IN \/ i = 1 /\ ScriptLines(name, text)[i] = Line("sb", name)
            \/ /\ i - 1 \in 1 .. Len(body)
               /\ ScriptLines(name, text)[i] = Line("sl", body[i - 1])
            \/ /\ i = Len(body) + 2
               /\ ScriptLines(name, text)[i] = Line("se", name)
<1> DEFINE b == NonBlank(text)
<1>1. /\ Len(b) \in Nat /\ Len(ScriptLines(name, text)) = Len(b) + 2
      /\ ScriptLines(name, text)[1] = Line("sb", name)
      /\ \A j \in 1 .. Len(b) :
           ScriptLines(name, text)[j + 1] = Line("sl", b[j])
      /\ ScriptLines(name, text)[Len(b) + 2] = Line("se", name)
  BY ScriptLinesAre
<1> HIDE DEF b
<1>2. i \in 1 .. Len(b) + 2
  BY <1>1
<1>3. i = 1 \/ i = Len(b) + 2 \/ (i - 1 \in 1 .. Len(b) /\ (i - 1) + 1 = i)
  BY <1>1, <1>2
<1>4. QED
  BY <1>1, <1>3 DEF b

(***************************************************************************)
(* A receiver takes its name from the line that begins a script and ends   *)
(* with the text that it has.                                              *)
(***************************************************************************)
LEMMA ReceiveStates ==
  ASSUME ReceiverAssumption, NEW ri \in Receivers, NEW l \in Lines,
         ri.state \in {"idle", "waitline"}
  PROVE  \/ Receive(ri, l).state = "error"
         \/ /\ Receive(ri, l).state = "finished" /\ ri.state = "waitline"
            /\ Receive(ri, l).name = ri.name /\ Receive(ri, l).text = ri.text
         \/ /\ Receive(ri, l).state \in {"idle", "waitline"}
            /\ Receive(ri, l).state = "waitline" =>
                 \/ ri.state = "waitline" /\ Receive(ri, l).name = ri.name
                 \/ l.tag = "sb" /\ Receive(ri, l).name = l.arg
<1>1. l.tag = "sl" => l.arg \in TextLines
  BY DEF Lines
<1>2. CASE Receive(ri, l) = Failed(ri)
  BY <1>2 DEF Failed, Receivers
<1>3. CASE /\ l.tag = "sb"
           /\ Receive(ri, l) = [ri EXCEPT !.name = l.arg, !.state = "waitline"]
  BY <1>3 DEF Receivers
<1>4. CASE /\ ri.state = "waitline"
           /\ Receive(ri, l) = [ri EXCEPT !.state = "finished"]
  BY <1>4 DEF Receivers
<1>5. CASE /\ l.tag = "sl" /\ ~TooLong(ri, l.arg)
           /\ Receive(ri, l) = Added(ri, l.arg)
  BY <1>1, <1>5, AddedIs
<1>6. CASE Receive(ri, l) = ri
  BY <1>6
<1>7. QED
  BY <1>2, <1>3, <1>4, <1>5, <1>6, ReceiveCases

(***************************************************************************)
(* A part of a sequence and the next element.                              *)
(***************************************************************************)
LEMMA Longer ==
  ASSUME NEW S, NEW s \in Seq(S), NEW n \in 1 .. Len(s)
  PROVE  Append(SubSeq(s, 1, n - 1), s[n]) = SubSeq(s, 1, n)
<1> DEFINE a == SubSeq(s, 1, n - 1)
           b == SubSeq(s, 1, n)
           w == Append(a, s[n])
<1>1. n \in Nat /\ n >= 1 /\ Len(s) \in Nat /\ n <= Len(s) /\ s[n] \in S
  OBVIOUS
<1>2. /\ a \in Seq(S) /\ Len(a) = n - 1
      /\ \A i \in 1 .. n - 1 : a[i] = s[i]
  BY <1>1
<1>3. /\ b \in Seq(S) /\ Len(b) = n
      /\ \A i \in 1 .. n : b[i] = s[i]
  BY <1>1
<1> HIDE DEF a, b
<1>4. /\ w \in Seq(S) /\ Len(w) = n
      /\ \A i \in 1 .. n - 1 : w[i] = a[i]
      /\ w[n] = s[n]
  BY <1>1, <1>2
<1> HIDE DEF w
<1>5. \A i \in 1 .. n : w[i] = b[i]
  <2>1. \A i \in 1 .. n : i = n \/ i \in 1 .. n - 1
    BY <1>1
  <2>2. QED
    BY <1>2, <1>3, <1>4, <2>1
<1>6. w = b
  BY <1>3, <1>4, <1>5, SeqEqual
<1>7. QED
  BY <1>6 DEF w, a, b

(***************************************************************************)
(* A receiver that has followed a script for some lines follows it for one *)
(* more, or fails, or has all of it at the last one.                       *)
(***************************************************************************)
LEMMA ReceiveFollows ==
  ASSUME ReceiverAssumption, NEW ri \in Receivers,
         NEW name \in Names, NEW text \in Texts, NEW n \in Nat,
         n < Len(ScriptLines(name, text)), Follows(ri, text, n)
  PROVE  LET q == Receive(ri, ScriptLines(name, text)[n + 1])
         IN \/ q.state = "error"
            \/ q.state = "finished" /\ q.text = NonBlank(text)
            \/ /\ Follows(q, text, n + 1)
               /\ n + 1 < Len(ScriptLines(name, text))
<1> DEFINE b == NonBlank(text)
           l == ScriptLines(name, text)[n + 1]
           q == Receive(ri, l)
<1>1. /\ b \in Texts /\ b \in Seq(TextLines) /\ Len(b) \in Nat
      /\ Len(ScriptLines(name, text)) = Len(b) + 2
      /\ \A i \in 1 .. Len(b) : b[i] \in TextLines
  BY ScriptLinesAre DEF Texts
<1>2. \/ n = 0 /\ l = Line("sb", name)
      \/ n \in 1 .. Len(b) /\ l = Line("sl", b[n])
      \/ n = Len(b) + 1 /\ l = Line("se", name)
  <2>1. n + 1 \in 1 .. Len(ScriptLines(name, text))
    BY <1>1
  <2>2. (n + 1) - 1 = n /\ (n + 1 = 1 => n = 0)
        /\ (n + 1 = Len(b) + 2 => n = Len(b) + 1)
    BY <1>1
  <2>3. QED
    BY <2>1, <2>2, ScriptLineAt
<1>3. \/ n = 0 /\ ri.state = "idle" /\ ri.text = <<>>
      \/ /\ n \in 1 .. Len(b) + 1 /\ ri.state = "waitline"
         /\ ri.text = SubSeq(b, 1, n - 1)
  BY DEF Follows
<1>4. \/ q = Failed(ri)
      \/ /\ ri.state = "idle" /\ l.tag = "sb"
         /\ q = [ri EXCEPT !.name = l.arg, !.state = "waitline"]
      \/ /\ ri.state = "waitline" /\ l.tag = "se"
         /\ q = [ri EXCEPT !.state = "finished"]
      \/ /\ ri.state = "waitline" /\ l.tag = "sl" /\ ~TooLong(ri, l.arg)
         /\ q = Added(ri, l.arg)
      \/ /\ ~(ri.state = "idle" /\ l.tag = "sb")
         /\ ~(ri.state = "waitline" /\ l.tag \in {"se", "sl"})
         /\ q = ri
  BY ReceiveCases
<1> HIDE DEF b, l, q
<1>5. CASE q = Failed(ri)
  <2>1. q.state = "error"
    BY <1>5 DEF Failed, Receivers
  <2>2. QED
    BY <2>1 DEF q, l
<1>6. CASE n = 0 /\ l = Line("sb", name) /\ ~(q = Failed(ri))
  <2>1. ri.state = "idle" /\ ri.text = <<>> /\ l.tag = "sb"
    BY <1>1, <1>3, <1>6 DEF Line
  <2>2. q = [ri EXCEPT !.name = l.arg, !.state = "waitline"]
    BY <1>4, <1>6, <2>1
  <2>3. q.state = "waitline" /\ q.text = <<>>
    BY <2>1, <2>2 DEF Receivers
  <2>4. SubSeq(b, 1, 0) = <<>> /\ n + 1 \in 1 .. Len(b) + 1 /\ (n + 1) - 1 = 0
    BY <1>1, <1>6
  <2>5. Follows(q, text, n + 1) /\ n + 1 < Len(b) + 2
    BY <1>1, <1>6, <2>3, <2>4 DEF Follows, b
  <2>6. QED
    BY <1>1, <2>5 DEF q, l
<1>7. CASE n \in 1 .. Len(b) /\ l = Line("sl", b[n]) /\ ~(q = Failed(ri))
  <2>1. /\ ri.state = "waitline" /\ ri.text = SubSeq(b, 1, n - 1)
        /\ l.tag = "sl" /\ l.arg = b[n] /\ b[n] \in TextLines
    BY <1>1, <1>3, <1>7 DEF Line
  <2>2. ~TooLong(ri, b[n]) /\ q = Added(ri, b[n])
    BY <1>4, <1>7, <2>1
  <2>3. q.state = "waitline" /\ q.text = Append(SubSeq(b, 1, n - 1), b[n])
    BY <2>1, <2>2, AddedIs
  <2>4. q.text = SubSeq(b, 1, n)
    BY <1>1, <1>7, <2>3, Longer
  <2>5. /\ n + 1 \in 1 .. Len(b) + 1 /\ (n + 1) - 1 = n
        /\ n + 1 < Len(b) + 2
    BY <1>1, <1>7
  <2>6. Follows(q, text, n + 1)
    BY <2>3, <2>4, <2>5 DEF Follows, b
  <2>7. QED
    BY <1>1, <2>5, <2>6 DEF q, l
<1>8. CASE n = Len(b) + 1 /\ l = Line("se", name) /\ ~(q = Failed(ri))
  <2>1. /\ ri.state = "waitline" /\ ri.text = SubSeq(b, 1, n - 1)
        /\ l.tag = "se" /\ n - 1 = Len(b)
    BY <1>1, <1>3, <1>8 DEF Line
  <2>2. q = [ri EXCEPT !.state = "finished"]
    BY <1>4, <1>8, <2>1
  <2>3. q.state = "finished" /\ q.text = SubSeq(b, 1, Len(b))
    BY <2>1, <2>2 DEF Receivers
  <2>4. SubSeq(b, 1, Len(b)) = b
    BY <1>1
  <2>5. QED
    BY <2>3, <2>4 DEF q, l, b
<1>9. QED
  BY <1>2, <1>5, <1>6, <1>7, <1>8

----------------------------------------------------------------------------
(* The lines on their way.                                                 *)

(***************************************************************************)
(* The request of a run, by its kind.                                      *)
(***************************************************************************)
LEMMA RequestIs ==
  ASSUME JobType, NEW c \in Clients
  PROVE  /\ job[c].name \in Names /\ job[c].text \in Texts
         /\ job[c].kind = "get" => Request(c) = <<Line("ss", job[c].name)>>
         /\ job[c].kind = "cmd" => Request(c) = <<Line("cl", None)>>
         /\ job[c].kind = "put" =>
              Request(c) = <<Line("rs", job[c].name)>>
                             \o ScriptLines(job[c].name, job[c].text)
<1>1. job[c].name \in Names /\ job[c].text \in Texts
  BY DEF JobType, Jobs
<1>2. job[c].kind = "get" => Request(c) = <<Line("ss", job[c].name)>>
  <2> SUFFICES ASSUME job[c].kind = "get"
               PROVE  Request(c) = <<Line("ss", job[c].name)>>
    OBVIOUS
  <2>1. job[c].kind # "put" /\ job[c].kind # "cmd"
    OBVIOUS
  <2>2. QED
    BY <2>1, Zenon DEF Request
<1>3. job[c].kind = "cmd" => Request(c) = <<Line("cl", None)>>
  <2> SUFFICES ASSUME job[c].kind = "cmd"
               PROVE  Request(c) = <<Line("cl", None)>>
    OBVIOUS
  <2>1. job[c].kind # "put" /\ job[c].kind # "get"
    OBVIOUS
  <2>2. QED
    BY <2>1, Zenon DEF Request
<1>4. job[c].kind = "put" => Request(c) = <<Line("rs", job[c].name)>>
                             \o ScriptLines(job[c].name, job[c].text)
  <2> SUFFICES ASSUME job[c].kind = "put"
               PROVE  Request(c) = <<Line("rs", job[c].name)>>
                             \o ScriptLines(job[c].name, job[c].text)
    OBVIOUS
  <2>1. job[c].kind # "get" /\ job[c].kind # "cmd"
    OBVIOUS
  <2>2. QED
    BY <2>1, Zenon DEF Request
<1>5. QED
  BY <1>1, <1>2, <1>3, <1>4

(***************************************************************************)
(* The lines of a request: only an upload announces a script, in its first *)
(* line, and it goes on with the lines of the script.                      *)
(***************************************************************************)
LEMMA RequestLines ==
  ASSUME JobType, NEW c \in Clients
  PROVE  /\ Request(c) \in Seq(Lines) /\ Len(Request(c)) \in Nat
         /\ Len(Request(c)) >= 1
         /\ \A i \in 1 .. Len(Request(c)) :
              /\ Request(c)[i] \in Lines /\ Own(c, Request(c)[i])
              /\ Request(c)[i].tag = "rs" => i = 1
         /\ job[c].kind = "get" => Len(Request(c)) = 1
         /\ job[c].kind = "put" =>
              LET S == ScriptLines(job[c].name, job[c].text)
              IN  /\ Len(S) \in Nat /\ Len(Request(c)) = Len(S) + 1
                  /\ Request(c)[1].tag = "rs"
                  /\ \A i \in 1 .. Len(S) : Request(c)[1 + i] = S[i]
<1> DEFINE name == job[c].name
           text == job[c].text
           R == Request(c)
           S == ScriptLines(name, text)
<1>1. job[c].kind \in {"put", "get", "cmd"} /\ name \in Names /\ text \in Texts
  BY Kinds, RequestIs
<1>2. CASE job[c].kind = "get"
  <2>1. R = <<Line("ss", name)>>
    BY <1>2, RequestIs
  <2>2. Line("ss", name) \in Lines /\ Own(c, Line("ss", name))
    BY <1>1, <1>2 DEF Line, Lines, Tags, Own
  <2>3. Line("ss", name).tag = "ss"
    BY DEF Line
  <2> HIDE DEF R
  <2>4. Len(R) = 1 /\ R[1] = Line("ss", name) /\ R \in Seq(Lines)
    BY <2>1, <2>2
  <2>5. QED
    BY <1>2, <2>2, <2>3, <2>4 DEF R
<1>3. CASE job[c].kind = "cmd"
  <2>1. R = <<Line("cl", None)>>
    BY <1>3, RequestIs
  <2>2. Line("cl", None) \in Lines /\ Own(c, Line("cl", None))
    BY <1>1, <1>3 DEF Line, Lines, Tags, Own
  <2>3. Line("cl", None).tag = "cl"
    BY DEF Line
  <2> HIDE DEF R
  <2>4. Len(R) = 1 /\ R[1] = Line("cl", None) /\ R \in Seq(Lines)
    BY <2>1, <2>2
  <2>5. QED
    BY <1>3, <2>2, <2>3, <2>4 DEF R
<1>4. CASE job[c].kind = "put"
  <2> DEFINE p == <<Line("rs", name)>>
  <2>1. R = p \o S
    BY <1>4, RequestIs
  <2>2. Line("rs", name) \in Lines /\ Own(c, Line("rs", name))
        /\ Line("rs", name).tag = "rs"
    BY <1>1, <1>4 DEF Line, Lines, Tags, Own
  <2>3. S \in Seq(Lines) /\ Len(S) \in Nat
    BY <1>1, ScriptLinesAre, LenProperties
  <2>4. \A i \in 1 .. Len(S) : S[i] \in Lines /\ Own(c, S[i]) /\ S[i].tag # "rs"
    <3>1. ASSUME NEW i \in 1 .. Len(S)
          PROVE  Own(c, S[i]) /\ S[i].tag # "rs"
      <4>1. PICK arg : \/ S[i] = Line("sb", name)
                       \/ S[i] = Line("sl", arg)
                       \/ S[i] = Line("se", name)
        BY <1>1, <3>1, ScriptLineAt
      <4> HIDE DEF S
      <4>2. QED
        BY <4>1 DEF Own, Line
    <3>2. \A i \in 1 .. Len(S) : S[i] \in Lines
      BY <2>3, ElementOfSeq
    <3>3. QED
      BY <3>1, <3>2
  <2>5. p \in Seq(Lines) /\ Len(p) = 1 /\ p[1] = Line("rs", name)
    BY <2>2
  <2> HIDE DEF R, S, p
  <2>6. p \in Seq(Lines) /\ S \in Seq(Lines)
    BY <2>3, <2>5
  <2>7. /\ p \o S \in Seq(Lines) /\ Len(p \o S) = Len(p) + Len(S)
        /\ \A j \in 1 .. Len(p) : (p \o S)[j] = p[j]
        /\ \A j \in 1 .. Len(S) : (p \o S)[Len(p) + j] = S[j]
    BY <2>6, Joined
  <2>8. /\ R \in Seq(Lines) /\ Len(R) = 1 + Len(S)
        /\ R[1] = Line("rs", name)
        /\ \A j \in 1 .. Len(S) : R[1 + j] = S[j]
    BY <2>1, <2>5, <2>7
  <2>9. ASSUME NEW i \in 1 .. Len(R)
        PROVE  R[i] \in Lines /\ Own(c, R[i]) /\ (R[i].tag = "rs" => i = 1)
    <3>1. i = 1 \/ (i - 1 \in 1 .. Len(S) /\ i = 1 + (i - 1))
      BY <2>3, <2>8, <2>9
    <3>2. i = 1 \/ R[i] = S[i - 1]
      BY <2>8, <3>1
    <3>3. QED
      BY <2>2, <2>4, <2>8, <3>1, <3>2
  <2>10. Len(R) \in Nat /\ Len(R) >= 1 /\ Len(R) = Len(S) + 1
    BY <2>3, <2>8
  <2>11. QED
    BY <1>4, <2>2, <2>3, <2>8, <2>9, <2>10 DEF R, S
<1>5. QED
  BY <1>1, <1>2, <1>3, <1>4

(***************************************************************************)
(* The request of a run stays the same.                                    *)
(***************************************************************************)
LEMMA SameRequest ==
  ASSUME UNCHANGED job, NEW c \in Clients
  PROVE  Request(c)' = Request(c)
  BY Zenon DEF Request

\* Nothing of a connection changes.
Keeps(d) ==
  /\ UNCHANGED job
  /\ pc'[d] = pc[d] /\ sent'[d] = sent[d] /\ file'[d] = file[d]
  /\ up'[d] = up[d] /\ down'[d] = down[d]
  /\ srv'[d] = srv[d] /\ rcv'[d] = rcv[d]
  /\ saved'[d] = saved[d] /\ fetched'[d] = fetched[d]
  /\ d \in slow' <=> d \in slow
  /\ d \in eof' <=> d \in eof

(***************************************************************************)
(* A run of which nothing changes keeps its part of the invariant.         *)
(***************************************************************************)
LEMMA KeepsInv ==
  ASSUME NEW d \in Clients, Keeps(d), CInv(d)
  PROVE  CInv(d)'
<1>1. Request(d)' = Request(d)
  BY SameRequest DEF Keeps
<1>2. SentInv(d)'
  BY <1>1 DEF Keeps, CInv, SentInv
<1>3. UpInv(d)'
  BY DEF Keeps, CInv, UpInv, Own
<1>4. RcvInv(d)'
  BY DEF Keeps, CInv, RcvInv
<1>5. UpSync(d)'
  BY <1>1 DEF Keeps, CInv, UpSync
<1>6. SavedInv(d)' /\ OkInv(d)'
  BY DEF Keeps, CInv, SavedInv, OkInv
<1>7. GetInv(d)'
  BY DEF Keeps, CInv, GetInv, Waiting, Refused, Served
<1>8. FileInv(d)'
  BY DEF Keeps, CInv, FileInv, Truly
<1>9. QED
  BY <1>2, <1>3, <1>4, <1>5, <1>6, <1>7, <1>8 DEF CInv

(***************************************************************************)
(* At first nothing is written.                                            *)
(***************************************************************************)
LEMMA DInitInv == SessionAssumption /\ ReceiverAssumption /\ Init => DInv
<1> SUFFICES ASSUME SessionAssumption, ReceiverAssumption, Init
             PROVE  DInv
  OBVIOUS
<1>1. NewReceiver \in Receivers /\ Fits(NewReceiver)
  BY EmptySeq DEF ReceiverAssumption, NewReceiver, Receivers, Fits, Texts
<1>2. DataType
  <2>1. <<>> \in Seq(Lines)
    BY EmptySeq
  <2>2. QED
    BY <1>1, <2>1 DEF Init, DataType, SessionAssumption
<1>3. DbInv
  BY DEF Init, DbInv
<1>4. JobType
  BY DEF Init, JobType, SessionAssumption
<1>5. ASSUME NEW c \in Clients
      PROVE  CInv(c)
  <2>1. /\ pc[c] = "start" /\ sent[c] = 0 /\ file[c] = NewReceiver
        /\ up[c] = <<>> /\ down[c] = <<>> /\ srv[c] = "none"
        /\ rcv[c] = None /\ saved[c] = None /\ fetched[c] = None
    BY DEF Init
  <2>2. Len(Request(c)) \in Nat /\ Len(Request(c)) >= 1
    BY <1>4, RequestLines
  <2>3. SentInv(c)
    BY <2>1, <2>2 DEF SentInv
  <2>4. UpInv(c) /\ RcvInv(c) /\ UpSync(c) /\ SavedInv(c) /\ OkInv(c)
    BY <2>1 DEF UpInv, RcvInv, UpSync, SavedInv, OkInv
  <2>5. GetInv(c)
    BY <2>1 DEF GetInv, Waiting
  <2>6. FileInv(c)
    BY <1>1, <2>1 DEF FileInv, Truly
  <2>7. QED
    BY <2>3, <2>4, <2>5, <2>6 DEF CInv
<1>6. QED
  BY <1>2, <1>3, <1>5 DEF DInv

(***************************************************************************)
(* The steps that change one run and leave the database alone.             *)
(***************************************************************************)
LEMMA OneStep ==
  ASSUME DInv, DataType', UNCHANGED <<db, saved, job>>,
         NEW c \in Clients, CInv(c)', \A d \in Clients : d # c => Keeps(d)
  PROVE  DInv'
<1>1. DbInv'
  BY DEF DInv, DbInv
<1>2. \A d \in Clients : CInv(d)'
  <2>1. ASSUME NEW d \in Clients, d # c
        PROVE  CInv(d)'
    BY <2>1, KeepsInv DEF DInv
  <2>2. QED
    BY <2>1
<1>3. QED
  BY <1>1, <1>2 DEF DInv

(***************************************************************************)
(* A run that connects, gives up or reads the end of the connection: no    *)
(* line moves.                                                             *)
(***************************************************************************)
LEMMA StillStep ==
  ASSUME SessionAssumption, JobType, IInv, DInv, NEW c \in Clients,
         Connect(c) \/ ReadEOF(c) \/ GiveUp(c)
  PROVE  DInv'
<1>1. UNCHANGED <<job, sent, file, up, down, rcv, running, db, saved, fetched,
                  slow>>
  BY DEF Connect, ReadEOF, GiveUp, netVars, dataVars, srvVars
<1>2. /\ pc \in [Clients -> {"start", "send", "wait"} \union Ended]
      /\ srv \in [Clients -> {"none", "backlog", "open", "denied", "closed"}]
  BY DEF IInv, FDType
<1>3. /\ \A d \in Clients : d # c => pc'[d] = pc[d] /\ srv'[d] = srv[d]
      /\ \A d \in Clients : d # c => (d \in eof' <=> d \in eof)
      /\ eof' \subseteq Clients
  <2>1. eof \subseteq Clients
    BY DEF DInv, DataType
  <2>2. CASE Connect(c)
    BY <1>2, <2>1, <2>2 DEF Connect
  <2>3. CASE ReadEOF(c)
    BY <1>2, <2>1, <2>3 DEF ReadEOF, srvVars
  <2>4. CASE GiveUp(c)
    BY <1>2, <2>1, <2>4 DEF GiveUp, srvVars
  <2>5. QED
    BY <2>2, <2>3, <2>4
<1>4. DataType'
  BY <1>1, <1>3 DEF DInv, DataType
<1>5. \A d \in Clients : d # c => Keeps(d)
  BY <1>1, <1>3 DEF Keeps
<1>6. \/ /\ pc[c] = "start" /\ pc'[c] = "send" /\ srv'[c] = "backlog"
         /\ eof' = eof
      \/ pc'[c] = "failed" /\ srv'[c] = srv[c] /\ eof' = eof
      \/ pc'[c] \in Ended /\ srv'[c] = srv[c] /\ c \in eof'
  <2>1. CASE Connect(c)
    BY <1>2, <2>1 DEF Connect
  <2>2. CASE ReadEOF(c)
    <3>1. PICK v \in Ended : pc' = [pc EXCEPT ![c] = v]
      BY <2>2, EOFEnds DEF ReadEOF
    <3>2. srv' = srv /\ c \in eof'
      BY <2>2 DEF ReadEOF, srvVars
    <3>3. QED
      BY <1>2, <3>1, <3>2
  <2>3. CASE GiveUp(c)
    BY <1>2, <2>3 DEF GiveUp, srvVars
  <2>4. QED
    BY <2>1, <2>2, <2>3
<1>7. pc'[c] \notin {"start", "wait"}
  BY <1>6 DEF Ended
<1>8. /\ sent[c] \in Nat /\ up[c] \in Seq(Lines)
      /\ Len(Request(c)) \in Nat /\ Len(Request(c)) >= 1
      /\ Request(c)' = Request(c)
  BY <1>1, RequestLines, SameRequest DEF DInv, DataType
<1>9. CInv(c)
  BY DEF DInv
<1>10. SentInv(c)'
  BY <1>1, <1>6, <1>7, <1>8, <1>9 DEF CInv, SentInv, Ended
<1>11. UpInv(c)' /\ SavedInv(c)' /\ OkInv(c)'
  BY <1>1, <1>9 DEF CInv, UpInv, Own, SavedInv, OkInv
<1>12. pc[c] = "start" => rcv[c] = None
  BY <1>9 DEF CInv, RcvInv, IInv, StartInv
<1>13. RcvInv(c)'
  BY <1>1, <1>6, <1>9, <1>12 DEF CInv, RcvInv
<1>14. UpSync(c)'
  <2>1. CASE pc[c] = "start" /\ pc'[c] = "send" /\ srv'[c] = "backlog"
    <3>1. sent[c] = 0 /\ up[c] = <<>> /\ rcv[c] = None
      BY <1>9, <1>12, <2>1 DEF CInv, SentInv
    <3>2. Left(up[c], Request(c), sent[c], 0)
      BY <3>1 DEF Left
    <3>3. QED
      BY <1>1, <1>8, <3>1, <3>2 DEF UpSync
  <2>2. CASE srv'[c] = srv[c]
    BY <1>1, <1>8, <1>9, <2>2 DEF CInv, UpSync
  <2>3. QED
    BY <1>6, <2>1, <2>2
<1>15. GetInv(c)'
  BY <1>1, <1>7, <1>9 DEF CInv, GetInv, Waiting, Refused, Served
<1>16. FileInv(c)'
  BY <1>1, <1>6, <1>9 DEF CInv, FileInv, Truly
<1>17. CInv(c)'
  BY <1>10, <1>11, <1>13, <1>14, <1>15, <1>16 DEF CInv
<1>18. QED
  BY <1>1, <1>4, <1>5, <1>17, OneStep

(***************************************************************************)
(* A run writes the next line of its request (SocketPrintf).               *)
(***************************************************************************)
LEMMA WriteStep ==
  ASSUME SessionAssumption, JobType, IInv, DInv, NEW c \in Clients, Write(c)
  PROVE  DInv'
<1> DEFINE R == Request(c)
           s == sent[c]
<1>1. /\ UNCHANGED <<job, file, eof, down, srv, rcv, running, db, saved,
                     fetched, slow>>
      /\ pc[c] = "send"
      /\ sent' = [sent EXCEPT ![c] = s + 1]
      /\ up' = IF srv[c] \in {"backlog", "open"}
               THEN [up EXCEPT ![c] = Append(up[c], R[s + 1])] ELSE up
      /\ pc' = [pc EXCEPT ![c] = IF sent'[c] = Len(R) THEN "wait" ELSE pc[c]]
  BY DEF Write, srvVars, dataVars
<1>2. /\ pc \in [Clients -> {"start", "send", "wait"} \union Ended]
      /\ sent \in [Clients -> Nat] /\ up \in [Clients -> Seq(Lines)]
      /\ up[c] \in Seq(Lines) /\ s \in Nat /\ Len(up[c]) \in Nat
  BY LenProperties DEF IInv, FDType, DInv, DataType
<1>3. CInv(c) /\ R' = R
  BY <1>1, SameRequest DEF DInv
<1>4. /\ Len(R) \in Nat /\ s < Len(R) /\ s + 1 \in 1 .. Len(R)
      /\ R[s + 1] \in Lines /\ Own(c, R[s + 1])
  <2>1. Len(R) \in Nat
    BY RequestLines
  <2>2. s < Len(R)
    BY <1>1, <1>3 DEF CInv, SentInv
  <2>3. s + 1 \in 1 .. Len(R)
    BY <1>2, <2>1, <2>2
  <2>4. QED
    BY <2>1, <2>2, <2>3, RequestLines
<1> HIDE DEF R
<1>5. /\ sent'[c] = s + 1
      /\ pc'[c] = IF s + 1 = Len(R) THEN "wait" ELSE "send"
      /\ up'[c] = IF srv[c] \in {"backlog", "open"}
                  THEN Append(up[c], R[s + 1]) ELSE up[c]
      /\ \A d \in Clients : d # c => /\ sent'[d] = sent[d] /\ pc'[d] = pc[d]
                                     /\ up'[d] = up[d]
  BY <1>1, <1>2
<1> HIDE DEF s
<1>6. /\ Append(up[c], R[s + 1]) \in Seq(Lines)
      /\ Len(Append(up[c], R[s + 1])) = Len(up[c]) + 1
      /\ \A i \in 1 .. Len(up[c]) : Append(up[c], R[s + 1])[i] = up[c][i]
      /\ Append(up[c], R[s + 1])[Len(up[c]) + 1] = R[s + 1]
  BY <1>2, <1>4, AppendProperties
<1>7. \A i \in 1 .. Len(up[c]) + 1 : i = Len(up[c]) + 1 \/ i \in 1 .. Len(up[c])
  BY <1>2
<1>8. DataType'
  <2>1. sent' \in [Clients -> Nat]
    BY <1>1, <1>2
  <2>2. up' \in [Clients -> Seq(Lines)]
    BY <1>1, <1>2, <1>6
  <2>3. QED
    BY <1>1, <2>1, <2>2 DEF DInv, DataType
<1>9. SentInv(c)'
  BY <1>2, <1>3, <1>4, <1>5 DEF SentInv, R
<1>10. UpInv(c)'
  <2>1. CASE srv[c] \in {"backlog", "open"}
    <3>1. ASSUME NEW i \in 1 .. Len(up'[c])
          PROVE  Own(c, up'[c][i])
      BY <1>3, <1>4, <1>5, <1>6, <1>7, <2>1, <3>1 DEF CInv, UpInv
    <3>2. QED
      BY <1>1, <3>1 DEF UpInv, Own
  <2>2. CASE ~(srv[c] \in {"backlog", "open"})
    BY <1>1, <1>3, <1>5, <2>2 DEF CInv, UpInv, Own
  <2>3. QED
    BY <2>1, <2>2
<1>11. RcvInv(c)' /\ SavedInv(c)' /\ OkInv(c)'
  BY <1>1, <1>3 DEF CInv, RcvInv, SavedInv, OkInv
<1>12. UpSync(c)'
  <2>1. SUFFICES ASSUME c \notin slow, srv[c] \in {"backlog", "open"}
                 PROVE  UpSync(c)'
    BY <1>1 DEF UpSync
  <2>2. PICK k \in Nat : /\ Left(up[c], R, s, k)
                         /\ rcv[c] # None =>
                              k >= 1 /\ Follows(rcv[c], job[c].text, k - 1)
    BY <1>3, <2>1 DEF CInv, UpSync, R, s
  <2>3. Left(up'[c], R, s + 1, k)
    <3> DEFINE n == Len(up[c])
    <3>0. n + k = s /\ n \in Nat
      BY <1>2, <2>2 DEF Left
    <3> HIDE DEF n
    <3>1. n + 1 + k = s + 1 /\ k + (n + 1) = s + 1
      BY <1>2, <3>0
    <3> USE DEF n
    <3>2. up'[c] = Append(up[c], R[s + 1])
      BY <1>5, <2>1
    <3>3. ASSUME NEW i \in 1 .. Len(up[c]) + 1
          PROVE  up'[c][i] = R[k + i]
      <4>1. CASE i \in 1 .. Len(up[c])
        BY <1>6, <2>2, <3>2, <4>1 DEF Left
      <4>2. CASE i = Len(up[c]) + 1
        BY <1>6, <3>1, <3>2, <4>2
      <4>3. QED
        BY <1>7, <4>1, <4>2
    <3>4. QED
      BY <1>6, <3>1, <3>2, <3>3 DEF Left
  <2>4. QED
    BY <1>1, <1>3, <1>5, <2>2, <2>3 DEF UpSync, R
<1>13. GetInv(c)'
  <2>1. SUFFICES ASSUME job[c].kind = "get"
                 PROVE  GetInv(c)'
    BY <1>1 DEF GetInv
  <2>2. Len(R) = 1 /\ s = 0
    BY <1>2, <1>4, <2>1, RequestLines DEF R
  <2>3. Waiting(c) /\ Len(up[c]) <= s
    BY <1>3, <2>1, <2>2 DEF CInv, GetInv, Refused, Served, s
  <2>4. Waiting(c)'
    BY <1>1, <2>3 DEF Waiting
  <2>5. Len(up'[c]) <= sent'[c]
    BY <1>2, <1>5, <1>6, <2>3
  <2>6. QED
    BY <2>4, <2>5 DEF GetInv
<1>14. FileInv(c)'
  BY <1>1, <1>3, <1>5 DEF CInv, FileInv, Truly
<1>15. CInv(c)'
  BY <1>9, <1>10, <1>11, <1>12, <1>13, <1>14 DEF CInv
<1>16. \A d \in Clients : d # c => Keeps(d)
  BY <1>1, <1>5 DEF Keeps
<1>17. QED
  BY <1>1, <1>8, <1>15, <1>16, OneStep

(***************************************************************************)
(* The first of some lines and the others.                                 *)
(***************************************************************************)
LEMMA FirstLine ==
  ASSUME NEW S, NEW s \in Seq(S), s # <<>>
  PROVE  /\ Len(s) \in Nat /\ Len(s) >= 1
         /\ Head(s) = s[1] /\ Head(s) \in S /\ 1 \in 1 .. Len(s)
         /\ Tail(s) \in Seq(S) /\ Len(Tail(s)) = Len(s) - 1
         /\ \A i \in 1 .. Len(s) - 1 : Tail(s)[i] = s[i + 1]
<1>1. Len(s) \in Nat /\ Len(s) >= 1
  OBVIOUS
<1>2. Head(s) = s[1] /\ Head(s) \in S /\ 1 \in 1 .. Len(s)
  BY <1>1
<1>3. Tail(s) \in Seq(S) /\ Len(Tail(s)) = Len(s) - 1
  BY <1>1
<1>4. \A i \in 1 .. Len(s) - 1 : Tail(s)[i] = s[i + 1]
  BY <1>1
<1>5. QED
  BY <1>1, <1>2, <1>3, <1>4

(***************************************************************************)
(* The first of the lines that are left of others is the next of those,    *)
(* and one line less is left.                                              *)
(***************************************************************************)
LEMMA LeftTail ==
  ASSUME NEW S, NEW s \in Seq(S), s # <<>>,
         NEW whole, NEW m \in Nat, NEW k \in Nat,
         Left(s, whole, m, k)
  PROVE  /\ k < m /\ Head(s) = whole[k + 1]
         /\ Left(Tail(s), whole, m, k + 1)
<1>1. /\ Len(s) \in Nat /\ Len(s) >= 1
      /\ Head(s) = s[1] /\ 1 \in 1 .. Len(s)
      /\ Len(Tail(s)) = Len(s) - 1
      /\ \A i \in 1 .. Len(s) - 1 : Tail(s)[i] = s[i + 1]
  BY FirstLine
<1>2. Len(s) + k = m /\ \A i \in 1 .. Len(s) : s[i] = whole[k + i]
  BY DEF Left
<1>3. k < m /\ Head(s) = whole[k + 1] /\ Len(Tail(s)) + (k + 1) = m
  BY <1>1, <1>2
<1>4. ASSUME NEW i \in 1 .. Len(s) - 1
      PROVE  Tail(s)[i] = whole[(k + 1) + i]
  <2>1. i + 1 \in 1 .. Len(s) /\ k + (i + 1) = (k + 1) + i
    BY <1>1
  <2>2. s[i + 1] = whole[k + (i + 1)]
    BY <1>2, <2>1
  <2>3. QED
    BY <1>1, <2>1, <2>2
<1>5. QED
  BY <1>1, <1>3, <1>4 DEF Left

(***************************************************************************)
(* A run reads a line: an upload learns what happened, and the receiver of *)
(* a download follows the script that was sent.                            *)
(***************************************************************************)
LEMMA ReadStep ==
  ASSUME SessionAssumption, ReceiverAssumption, JobType, IInv, DInv,
         NEW c \in Clients, Read(c)
  PROVE  DInv'
<1> DEFINE ds == down[c]
           l == Head(ds)
           q == Receive(file[c], l)
           v == Answer(c, l)
<1>1. /\ UNCHANGED <<job, sent, eof, up, srv, rcv, running, db, saved,
                     fetched, slow>>
      /\ pc[c] = "wait" /\ ds # <<>>
      /\ pc' = [pc EXCEPT ![c] = v]
      /\ file' = IF job[c].kind = "get" THEN [file EXCEPT ![c] = q] ELSE file
      /\ down' = [down EXCEPT ![c] = Tail(ds)]
  BY DEF Read, srvVars, dataVars
<1>2. /\ pc \in [Clients -> {"start", "send", "wait"} \union Ended]
      /\ file \in [Clients -> Receivers] /\ down \in [Clients -> Seq(Lines)]
      /\ file[c] \in Receivers /\ ds \in Seq(Lines)
  BY DEF IInv, FDType, DInv, DataType
<1>3. CInv(c) /\ Request(c)' = Request(c)
  BY <1>1, SameRequest DEF DInv
<1>4. /\ Len(ds) \in Nat /\ Len(ds) >= 1
      /\ l = ds[1] /\ l \in Lines /\ 1 \in 1 .. Len(ds)
      /\ Tail(ds) \in Seq(Lines) /\ Len(Tail(ds)) = Len(ds) - 1
      /\ \A i \in 1 .. Len(ds) - 1 : Tail(ds)[i] = ds[i + 1]
  BY <1>1, <1>2, FirstLine
<1>5. q \in Receivers /\ Fits(q)
  BY <1>2, <1>3, <1>4, ReceiveType DEF CInv, FileInv
<1>6. /\ job[c].kind \in {"put", "get", "cmd"}
      /\ job[c].kind = "put" =>
           v = IF l.tag = "er" THEN "failed" ELSE "uploaded"
      /\ job[c].kind = "cmd" => v = "answered"
      /\ job[c].kind = "get" =>
           \/ q.state = "finished" /\ v = "received"
           \/ q.state = "error" /\ v = "failed"
           \/ q.state \notin {"finished", "error"} /\ v = "wait"
  BY AnswerIs, Kinds
<1> HIDE DEF ds, l, q, v
<1>7. /\ pc'[c] = v /\ down'[c] = Tail(ds)
      /\ file'[c] = IF job[c].kind = "get" THEN q ELSE file[c]
      /\ \A d \in Clients : d # c => /\ pc'[d] = pc[d] /\ down'[d] = down[d]
                                     /\ file'[d] = file[d]
  BY <1>1, <1>2
<1>8. v \notin {"start", "send"}
  BY <1>6
<1>9. DataType'
  <2>1. file' \in [Clients -> Receivers]
    BY <1>1, <1>2, <1>5
  <2>2. down' \in [Clients -> Seq(Lines)]
    BY <1>1, <1>2, <1>4
  <2>3. QED
    BY <1>1, <2>1, <2>2 DEF DInv, DataType
<1>10. SentInv(c)'
  BY <1>1, <1>3, <1>7, <1>8 DEF CInv, SentInv
<1>11. UpInv(c)' /\ RcvInv(c)' /\ UpSync(c)' /\ SavedInv(c)'
  BY <1>1, <1>3 DEF CInv, UpInv, Own, RcvInv, UpSync, SavedInv
<1>12. \A i \in 1 .. Len(Tail(ds)) :
         i + 1 \in 1 .. Len(ds) /\ Tail(ds)[i] = ds[i + 1]
  BY <1>4
<1>13. OkInv(c)'
  BY <1>1, <1>3, <1>7, <1>12, SMTT(20) DEF CInv, OkInv, ds
<1>14. ASSUME job[c].kind # "get"
       PROVE  GetInv(c)' /\ FileInv(c)'
  <2>1. GetInv(c)'
    BY <1>1, <1>14 DEF GetInv
  <2>2. Truly(c)' \/ c \in eof
    BY <1>1, <1>3, <1>4, <1>6, <1>7, <1>14 DEF CInv, OkInv, Truly, ds
  <2>3. FileInv(c)'
    BY <1>1, <1>3, <1>7, <1>14, <2>2 DEF CInv, FileInv
  <2>4. QED
    BY <2>1, <2>3
<1>15. ASSUME job[c].kind = "get"
       PROVE  GetInv(c)' /\ FileInv(c)'
  <2>1. Refused(c) \/ Served(c)
    BY <1>1, <1>3, <1>15 DEF CInv, GetInv, Waiting, ds
  <2>2. CASE Refused(c)
    <3>1. l.tag = "er"
      BY <1>4, <2>2 DEF Refused, ds
    <3>2. q = Failed(file[c])
      BY <3>1, ReceiveCases DEF q
    <3>3. q.state = "error"
      BY <1>2, <3>2 DEF Failed, Receivers
    <3>4. v = "failed"
      BY <1>6, <1>15, <3>3
    <3>5. Refused(c)'
      BY <1>1, <1>7, <1>12, <2>2 DEF Refused, ds
    <3>6. GetInv(c)'
      BY <1>1, <1>3, <1>15, <3>5 DEF CInv, GetInv
    <3>7. FileInv(c)'
      BY <1>1, <1>5, <1>7, <1>15, <3>4 DEF FileInv, Truly
    <3>8. QED
      BY <3>6, <3>7
  <2>3. CASE Served(c)
    <3> DEFINE text == fetched[c]
               S == ScriptLines(job[c].name, text)
    <3>1. text \in Texts /\ job[c].name \in Names
      BY <2>3, RequestIs DEF Served, DInv, DataType
    <3>2. PICK k \in Nat : Left(ds, S, Len(S), k) /\ Follows(file[c], text, k)
      BY <1>1, <2>3 DEF Served, ds
    <3>3. Len(S) \in Nat
      BY <3>1, ScriptLinesAre, LenProperties
    <3>4. k < Len(S) /\ l = S[k + 1] /\ Left(Tail(ds), S, Len(S), k + 1)
      <4> HIDE DEF S
      <4>1. QED
        BY <1>1, <1>2, <3>2, <3>3, LeftTail DEF l
    <3>5. \/ q.state = "error"
          \/ q.state = "finished" /\ q.text = NonBlank(text)
          \/ Follows(q, text, k + 1)
      BY <1>2, <3>1, <3>2, <3>4, ReceiveFollows DEF q
    <3>6. Served(c)'
      <4>1. CASE v = "wait"
        <5>1. Follows(q, text, k + 1) /\ k + 1 \in Nat
          BY <1>6, <1>15, <3>5, <4>1
        <5>2. Left(down'[c], S, Len(S), k + 1) /\ Follows(file'[c], text, k + 1)
          BY <1>7, <1>15, <3>4, <5>1
        <5>3. QED
          BY <1>1, <2>3, <5>1, <5>2 DEF Served
      <4>2. CASE v # "wait"
        BY <1>1, <1>7, <2>3, <4>2 DEF Served
      <4>3. QED
        BY <4>1, <4>2
    <3>7. GetInv(c)'
      BY <1>1, <1>3, <1>15, <3>6 DEF CInv, GetInv
    <3>8. v = "received" => q.text = NonBlank(text)
      <4>1. ASSUME v = "received"
            PROVE  q.state = "finished"
        BY <1>6, <1>15, <4>1
      <4>2. q.state = "finished" => ~Follows(q, text, k + 1)
        BY DEF Follows
      <4>3. QED
        BY <3>5, <4>1, <4>2
    <3>9. v # "uploaded"
      BY <1>6, <1>15
    <3>10. FileInv(c)'
      BY <1>1, <1>5, <1>7, <1>15, <2>3, <3>8, <3>9 DEF FileInv, Truly, Served
    <3>11. QED
      BY <3>7, <3>10
  <2>4. QED
    BY <2>1, <2>2, <2>3
<1>16. CInv(c)'
  BY <1>10, <1>11, <1>13, <1>14, <1>15 DEF CInv
<1>17. \A d \in Clients : d # c => Keeps(d)
  BY <1>1, <1>7 DEF Keeps
<1>18. QED
  BY <1>1, <1>9, <1>16, <1>17, OneStep

(***************************************************************************)
(* A batch of events is taken: no line moves.                              *)
(***************************************************************************)
LEMMA PollStep ==
  ASSUME DInv, PollWait
  PROVE  DInv'
<1>1. UNCHANGED <<job, pc, sent, file, eof, up, down, srv, rcv, running, db,
                  saved, fetched, slow>>
  BY DEF PollWait, cliVars, netVars, dataVars
<1>2. DataType' /\ DbInv'
  BY <1>1 DEF DInv, DataType, DbInv
<1>3. \A d \in Clients : CInv(d)'
  BY <1>1, KeepsInv DEF DInv, Keeps
<1>4. QED
  BY <1>2, <1>3 DEF DInv

(***************************************************************************)
(* A connection is accepted or denied: what was written before that is     *)
(* still on its way.                                                       *)
(***************************************************************************)
LEMMA AcceptData ==
  ASSUME IInv, DInv, Accept
  PROVE  DInv'
<1>1. UNCHANGED <<job, pc, sent, file, eof, up, down, rcv, running, db,
                  saved, fetched, slow>>
  BY DEF Accept, cliVars, netVars, dataVars
<1>2. DataType' /\ DbInv'
  BY <1>1 DEF DInv, DataType, DbInv
<1>3. srv \in [Clients -> {"none", "backlog", "open", "denied", "closed"}]
  BY DEF IInv, FDType
<1>4. \A d \in Clients : \/ srv'[d] = srv[d]
                         \/ srv[d] = "backlog" /\ srv'[d] \in {"denied", "open"}
  <2>1. CASE UNCHANGED srv
    BY <2>1
  <2>2. CASE \E c \in {d \in Clients : srv[d] = "backlog"} :
               \/ srv' = [srv EXCEPT ![c] = "denied"]
               \/ srv' = [srv EXCEPT ![c] = "open"]
    BY <1>3, <2>2
  <2>3. QED
    BY <2>1, <2>2 DEF Accept
<1>5. ASSUME NEW d \in Clients
      PROVE  CInv(d)'
  <2>1. CASE srv'[d] = srv[d]
    BY <1>1, <2>1, KeepsInv DEF DInv, Keeps
  <2>2. CASE srv[d] = "backlog" /\ srv'[d] \in {"denied", "open"}
    <3>1. CInv(d) /\ Request(d)' = Request(d)
      BY <1>1, SameRequest DEF DInv
    <3>2. rcv[d] = None
      BY <2>2, <3>1 DEF CInv, RcvInv
    <3>3. SentInv(d)' /\ UpInv(d)' /\ SavedInv(d)' /\ OkInv(d)'
      BY <1>1, <3>1 DEF CInv, SentInv, UpInv, Own, SavedInv, OkInv
    <3>4. RcvInv(d)'
      BY <1>1, <3>2 DEF RcvInv
    <3>5. UpSync(d)'
      BY <1>1, <2>2, <3>1 DEF CInv, UpSync
    <3>6. GetInv(d)' /\ FileInv(d)'
      BY <1>1, <3>1 DEF CInv, GetInv, Waiting, Refused, Served, FileInv, Truly
    <3>7. QED
      BY <3>3, <3>4, <3>5, <3>6 DEF CInv
  <2>3. QED
    BY <1>4, <2>1, <2>2
<1>6. QED
  BY <1>2, <1>5 DEF DInv

(***************************************************************************)
(* The daemon's end of a connection is closed, and what was on its way to  *)
(* it and its receiver are gone.                                           *)
(***************************************************************************)
LEMMA CutInv ==
  ASSUME NEW c \in Clients, CInv(c), DataType, UNCHANGED job,
         pc'[c] = pc[c], sent'[c] = sent[c], file'[c] = file[c],
         down'[c] = down[c], saved'[c] = saved[c], fetched'[c] = fetched[c],
         slow' = slow, eof' = eof,
         up'[c] = <<>>, rcv'[c] = None, srv'[c] \notin {"backlog", "open"}
  PROVE  CInv(c)'
<1>1. Request(c)' = Request(c) /\ sent[c] \in Nat
  BY SameRequest DEF DataType
<1>2. SentInv(c)' /\ UpInv(c)' /\ RcvInv(c)' /\ UpSync(c)'
  BY <1>1 DEF CInv, SentInv, UpInv, RcvInv, UpSync
<1>3. SavedInv(c)' /\ OkInv(c)'
  BY DEF CInv, SavedInv, OkInv
<1>4. GetInv(c)' /\ FileInv(c)'
  BY <1>1 DEF CInv, GetInv, Waiting, Refused, Served, FileInv, Truly
<1>5. QED
  BY <1>2, <1>3, <1>4 DEF CInv

(***************************************************************************)
(* The daemon gives up a connection.                                       *)
(***************************************************************************)
LEMMA DropData ==
  ASSUME IInv, DInv, NEW c \in Clients, Drop(c)
  PROVE  DInv'
<1>1. /\ UNCHANGED <<job, pc, sent, file, eof, down, running, db, saved,
                     fetched, slow>>
      /\ srv' = [srv EXCEPT ![c] = "closed"]
      /\ rcv' = [rcv EXCEPT ![c] = None]
      /\ up' = [up EXCEPT ![c] = <<>>]
  BY DEF Drop, cliVars, dataVars
<1>2. /\ srv \in [Clients -> {"none", "backlog", "open", "denied", "closed"}]
      /\ rcv \in [Clients -> Receivers \union {None}]
      /\ up \in [Clients -> Seq(Lines)] /\ <<>> \in Seq(Lines)
  BY EmptySeq DEF IInv, FDType, DInv, DataType
<1>3. DataType'
  BY <1>1, <1>2 DEF DInv, DataType
<1>4. /\ up'[c] = <<>> /\ rcv'[c] = None /\ srv'[c] = "closed"
      /\ \A d \in Clients : d # c => /\ up'[d] = up[d] /\ rcv'[d] = rcv[d]
                                     /\ srv'[d] = srv[d]
  BY <1>1, <1>2
<1>5. CInv(c)'
  BY <1>1, <1>4, CutInv DEF DInv
<1>6. \A d \in Clients : d # c => Keeps(d)
  BY <1>1, <1>4 DEF Keeps
<1>7. QED
  BY <1>1, <1>3, <1>5, <1>6, OneStep

(***************************************************************************)
(* The daemon stops: all its ends of connections are closed.               *)
(***************************************************************************)
LEMMA StopData ==
  ASSUME DInv, Stop
  PROVE  DInv'
<1>1. /\ UNCHANGED <<job, pc, sent, file, eof, down, db, saved, fetched, slow>>
      /\ srv' = [c \in Clients |-> IF srv[c] = "none" THEN "none" ELSE "closed"]
      /\ rcv' = [c \in Clients |-> None]
      /\ up' = [c \in Clients |-> <<>>] /\ running' = FALSE
  BY DEF Stop, cliVars, dataVars
<1>2. <<>> \in Seq(Lines)
  BY EmptySeq
<1>3. DataType' /\ DbInv'
  BY <1>1, <1>2 DEF DInv, DataType, DbInv
<1>4. ASSUME NEW c \in Clients
      PROVE  CInv(c)'
  <2>1. up'[c] = <<>> /\ rcv'[c] = None /\ srv'[c] \notin {"backlog", "open"}
    BY <1>1
  <2>2. QED
    BY <1>1, <2>1, CutInv DEF DInv
<1>5. QED
  BY <1>3, <1>4 DEF DInv

(***************************************************************************)
(* The read of a line times out: nothing is promised of what is left of it *)
(* but that it is none of the lines that a request has.                    *)
(***************************************************************************)
LEMMA TimeOutData ==
  ASSUME DInv, NEW c \in Clients, TimeOut(c)
  PROVE  DInv'
<1>1. /\ UNCHANGED <<job, pc, sent, file, eof, down, srv, rcv, running,
                     db, saved, fetched>>
      /\ up[c] # <<>> /\ slow' = slow \union {c}
  BY DEF TimeOut, cliVars, dataVars
<1>2. PICK tag \in {"short", "blank", "rest"} :
        up' = [up EXCEPT ![c] = <<Line(tag, None)>> \o Tail(up[c])]
  BY DEF TimeOut
<1>3. /\ up \in [Clients -> Seq(Lines)] /\ up[c] \in Seq(Lines)
      /\ slow \subseteq Clients
  BY DEF DInv, DataType
<1> DEFINE us == up[c]
           p == <<Line(tag, None)>>
           t == Tail(us)
<1>4. /\ Len(us) \in Nat /\ Len(us) >= 1
      /\ t \in Seq(Lines) /\ Len(t) = Len(us) - 1
      /\ \A i \in 1 .. Len(us) - 1 : t[i] = us[i + 1]
  BY <1>1, <1>3, FirstLine
<1>5. Line(tag, None) \in Lines /\ Own(c, Line(tag, None))
  BY DEF Line, Lines, Tags, Own
<1>6. p \in Seq(Lines) /\ Len(p) = 1 /\ p[1] = Line(tag, None)
  BY <1>5
<1> HIDE DEF us, p, t
<1>7. /\ p \o t \in Seq(Lines) /\ Len(p \o t) = Len(p) + Len(t)
      /\ \A i \in 1 .. Len(p) : (p \o t)[i] = p[i]
      /\ \A i \in 1 .. Len(t) : (p \o t)[Len(p) + i] = t[i]
  <2>1. p \in Seq(Lines) /\ t \in Seq(Lines)
    BY <1>4, <1>6
  <2>2. QED
    BY <2>1, Joined
<1>8. Len(p \o t) = Len(us)
  BY <1>4, <1>6, <1>7
<1>9. /\ up'[c] = p \o t
      /\ \A d \in Clients : d # c => up'[d] = up[d]
  BY <1>2, <1>3 DEF p, t, us
<1>10. DataType'
  <2>1. up' \in [Clients -> Seq(Lines)]
    BY <1>2, <1>3, <1>7 DEF p, t, us
  <2>2. slow' \subseteq Clients
    BY <1>1, <1>3
  <2>3. QED
    BY <1>1, <2>1, <2>2 DEF DInv, DataType
<1>11. CInv(c) /\ Request(c)' = Request(c)
  BY <1>1, SameRequest DEF DInv
<1>12. SentInv(c)'
  BY <1>1, <1>11 DEF CInv, SentInv
<1>13. UpInv(c)'
  <2>1. ASSUME NEW i \in 1 .. Len(us)
        PROVE  Own(c, (p \o t)[i])
    <3>1. CASE i = 1
      BY <1>5, <1>6, <1>7, <3>1
    <3>2. CASE i # 1
      <4>1. i - 1 \in 1 .. Len(t) /\ i = 1 + (i - 1) /\ (i - 1) + 1 = i
            /\ i - 1 \in 1 .. Len(us) - 1
        BY <1>4, <3>2
      <4>2. (p \o t)[i] = us[i]
        BY <1>4, <1>6, <1>7, <4>1
      <4>3. QED
        BY <1>11, <4>2 DEF CInv, UpInv, us
    <3>3. QED
      BY <3>1, <3>2
  <2>2. QED
    BY <1>1, <1>8, <1>9, <2>1 DEF UpInv, Own
<1>14. RcvInv(c)' /\ UpSync(c)' /\ SavedInv(c)' /\ OkInv(c)'
  BY <1>1, <1>11 DEF CInv, RcvInv, UpSync, SavedInv, OkInv
<1>15. GetInv(c)'
  BY <1>1, <1>8, <1>9, <1>11 DEF CInv, GetInv, Waiting, Refused, Served, us
<1>16. FileInv(c)'
  BY <1>1, <1>11 DEF CInv, FileInv, Truly
<1>17. CInv(c)'
  BY <1>12, <1>13, <1>14, <1>15, <1>16 DEF CInv
<1>18. \A d \in Clients : d # c => Keeps(d)
  BY <1>1, <1>9 DEF Keeps
<1>19. QED
  BY <1>1, <1>10, <1>17, <1>18, OneStep

(***************************************************************************)
(* What a line that the daemon takes leaves behind.                        *)
(***************************************************************************)
LEMMA TakesParts ==
  ASSUME SessionAssumption, JobType, IInv, DInv, NEW c \in Clients, Takes(c)
  PROVE  LET l == Head(up[c])
         IN /\ UNCHANGED <<job, pc, sent, file, eof, srv, running, slow>>
            /\ srv[c] = "open" /\ up[c] # <<>>
            /\ l \in Lines /\ Own(c, l)
            /\ up' = [up EXCEPT ![c] = Tail(up[c])]
            /\ up'[c] = Tail(up[c]) /\ Len(up'[c]) = Len(up[c]) - 1
            /\ up' \in [Clients -> Seq(Lines)]
            /\ \A d \in Clients : d # c => up'[d] = up[d]
            /\ SentInv(c)' /\ UpInv(c)'
            /\ job[c].kind = "get" =>
                 Waiting(c) /\ sent[c] = 1 /\ up'[c] = <<>>
            /\ c \notin slow =>
                 \E k \in Nat :
                   /\ k < sent[c] /\ l = Request(c)[k + 1]
                   /\ Left(up'[c], Request(c), sent[c], k + 1)
                   /\ rcv[c] # None =>
                        k >= 1 /\ Follows(rcv[c], job[c].text, k - 1)
<1> DEFINE us == up[c]
           l == Head(us)
<1>1. /\ UNCHANGED <<job, pc, sent, file, eof, srv, running, slow>>
      /\ us # <<>> /\ c \in batch
      /\ up' = [up EXCEPT ![c] = Tail(us)]
  BY DEF Takes, Handles, cliVars
<1>2. srv[c] = "open"
  BY <1>1 DEF IInv, BatchInv, SessionAssumption
<1>3. /\ up \in [Clients -> Seq(Lines)] /\ us \in Seq(Lines)
      /\ sent[c] \in Nat
  BY DEF DInv, DataType
<1>4. /\ Len(us) \in Nat /\ Len(us) >= 1
      /\ l = us[1] /\ l \in Lines /\ 1 \in 1 .. Len(us)
      /\ Tail(us) \in Seq(Lines) /\ Len(Tail(us)) = Len(us) - 1
      /\ \A i \in 1 .. Len(us) - 1 : Tail(us)[i] = us[i + 1]
  BY <1>1, <1>3, FirstLine
<1> HIDE DEF us, l
<1>5. /\ up'[c] = Tail(us) /\ up' \in [Clients -> Seq(Lines)]
      /\ \A d \in Clients : d # c => up'[d] = up[d]
  BY <1>1, <1>3, <1>4
<1>6. CInv(c) /\ Request(c)' = Request(c)
  BY <1>1, SameRequest DEF DInv
<1>7. \A i \in 1 .. Len(us) : Own(c, us[i])
  BY <1>6 DEF CInv, UpInv, us
<1>8. Own(c, l)
  BY <1>4, <1>7
<1>9. UpInv(c)'
  <2>1. \A i \in 1 .. Len(Tail(us)) :
          i + 1 \in 1 .. Len(us) /\ Tail(us)[i] = us[i + 1]
    BY <1>4
  <2>2. QED
    BY <1>1, <1>5, <1>7, <2>1 DEF UpInv, Own
<1>10. SentInv(c)'
  BY <1>1, <1>6 DEF CInv, SentInv, us
<1>11. ASSUME job[c].kind = "get"
       PROVE  Waiting(c) /\ sent[c] = 1 /\ up'[c] = <<>>
  <2>1. Waiting(c) /\ Len(us) <= sent[c]
    BY <1>1, <1>6, <1>11 DEF CInv, GetInv, Refused, Served, us
  <2>2. sent[c] <= 1
    BY <1>6, <1>11, RequestLines DEF CInv, SentInv
  <2>3. sent[c] = 1 /\ Len(Tail(us)) = 0
    BY <1>3, <1>4, <2>1, <2>2
  <2>4. Tail(us) = <<>>
    BY <1>4, <2>3, EmptySeq
  <2>5. QED
    BY <1>5, <2>1, <2>3, <2>4
<1>12. ASSUME c \notin slow
       PROVE  \E k \in Nat :
                /\ k < sent[c] /\ l = Request(c)[k + 1]
                /\ Left(up'[c], Request(c), sent[c], k + 1)
                /\ rcv[c] # None =>
                     k >= 1 /\ Follows(rcv[c], job[c].text, k - 1)
  <2>1. PICK k \in Nat : /\ Left(us, Request(c), sent[c], k)
                         /\ rcv[c] # None =>
                              k >= 1 /\ Follows(rcv[c], job[c].text, k - 1)
    BY <1>2, <1>6, <1>12 DEF CInv, UpSync, us
  <2>2. /\ k < sent[c] /\ l = Request(c)[k + 1]
        /\ Left(Tail(us), Request(c), sent[c], k + 1)
    BY <1>1, <1>3, <2>1, LeftTail DEF l
  <2>3. QED
    BY <1>5, <2>1, <2>2
<1>13. QED
  BY <1>1, <1>2, <1>4, <1>5, <1>8, <1>9, <1>10, <1>11, <1>12 DEF us, l

(***************************************************************************)
(* An answer goes to the end of the lines on their way to the run.         *)
(***************************************************************************)
LEMMA ReplyIs ==
  ASSUME DataType, NEW c \in Clients, NEW ls \in Seq(Lines), Reply(c, ls)
  PROVE  /\ down' \in [Clients -> Seq(Lines)]
         /\ down'[c] = down[c] \o ls
         /\ \A d \in Clients : d # c => down'[d] = down[d]
         /\ Len(down'[c]) = Len(down[c]) + Len(ls)
         /\ Len(down[c]) \in Nat /\ Len(ls) \in Nat
         /\ \A i \in 1 .. Len(down[c]) : down'[c][i] = down[c][i]
         /\ \A i \in 1 .. Len(ls) : down'[c][Len(down[c]) + i] = ls[i]
<1> DEFINE ds == down[c]
<1>1. down \in [Clients -> Seq(Lines)] /\ ds \in Seq(Lines)
  BY DEF DataType
<1>2. down' = [down EXCEPT ![c] = ds \o ls]
  BY DEF Reply
<1> HIDE DEF ds
<1>3. /\ ds \o ls \in Seq(Lines) /\ Len(ds \o ls) = Len(ds) + Len(ls)
      /\ \A i \in 1 .. Len(ds) : (ds \o ls)[i] = ds[i]
      /\ \A i \in 1 .. Len(ls) : (ds \o ls)[Len(ds) + i] = ls[i]
  BY <1>1, Joined
<1>4. Len(ds) \in Nat /\ Len(ls) \in Nat
  BY <1>1, LenProperties
<1>5. /\ down' \in [Clients -> Seq(Lines)] /\ down'[c] = ds \o ls
      /\ \A d \in Clients : d # c => down'[d] = down[d]
  BY <1>1, <1>2, <1>3
<1>6. QED
  BY <1>3, <1>4, <1>5 DEF ds

(***************************************************************************)
(* An answer of one line.                                                  *)
(***************************************************************************)
LEMMA OneLine ==
  ASSUME NEW tag \in {"ok", "er"}
  PROVE  /\ <<Line(tag, None)>> \in Seq(Lines) /\ Len(<<Line(tag, None)>>) = 1
         /\ <<Line(tag, None)>>[1].tag = tag
<1>1. Line(tag, None) \in Lines /\ Line(tag, None).tag = tag
  BY DEF Line, Lines, Tags
<1>2. QED
  BY <1>1

(***************************************************************************)
(* An error is sent: the other lines are those of before.                  *)
(***************************************************************************)
LEMMA ErrorSent ==
  ASSUME DataType, NEW c \in Clients, Reply(c, <<Line("er", None)>>)
  PROVE  \A i \in 1 .. Len(down'[c]) :
           \/ down'[c][i].tag = "er"
           \/ i \in 1 .. Len(down[c]) /\ down'[c][i] = down[c][i]
<1> DEFINE ls == <<Line("er", None)>>
<1>1. ls \in Seq(Lines) /\ Len(ls) = 1 /\ ls[1].tag = "er"
  BY OneLine
<1>2. Reply(c, ls)
  OBVIOUS
<1> HIDE DEF ls
<1>3. /\ Len(down'[c]) = Len(down[c]) + Len(ls) /\ Len(down[c]) \in Nat
      /\ \A i \in 1 .. Len(down[c]) : down'[c][i] = down[c][i]
      /\ \A i \in 1 .. Len(ls) : down'[c][Len(down[c]) + i] = ls[i]
  BY <1>1, <1>2, ReplyIs
<1>4. \A i \in 1 .. Len(down[c]) + 1 :
        i \in 1 .. Len(down[c]) \/ i = Len(down[c]) + 1
  BY <1>3
<1>5. down'[c][Len(down[c]) + 1] = ls[1]
  BY <1>1, <1>3
<1>6. QED
  BY <1>1, <1>3, <1>4, <1>5

(***************************************************************************)
(* The daemon takes a line outside the reception of a script.              *)
(***************************************************************************)
LEMMA CommandData ==
  ASSUME SessionAssumption, ReceiverAssumption, JobType, IInv, DInv,
         NEW c \in Clients, Command(c)
  PROVE  DInv'
<1> DEFINE l == Head(up[c])
<1>1. /\ UNCHANGED <<job, pc, sent, file, eof, srv, running, slow>>
      /\ srv[c] = "open" /\ l \in Lines /\ Own(c, l) /\ up[c] # <<>>
      /\ Len(up'[c]) = Len(up[c]) - 1
      /\ up' \in [Clients -> Seq(Lines)]
      /\ \A d \in Clients : d # c => up'[d] = up[d]
      /\ SentInv(c)' /\ UpInv(c)'
      /\ job[c].kind = "get" => Waiting(c) /\ sent[c] = 1 /\ up'[c] = <<>>
      /\ c \notin slow => \E k \in Nat :
           /\ k < sent[c] /\ l = Request(c)[k + 1]
           /\ Left(up'[c], Request(c), sent[c], k + 1)
  BY TakesParts DEF Command
<1>2. rcv[c] = None
  BY DEF Command
<1>3. /\ CInv(c) /\ DataType /\ Request(c)' = Request(c)
      /\ job[c].kind \in {"put", "get", "cmd"}
      /\ job[c].name \in Names /\ job[c].text \in Texts
  BY <1>1, SameRequest, Kinds, RequestIs DEF DInv
<1> HIDE DEF l
<1>4. job[c].kind = "get" => Len(up'[c]) <= sent'[c]
  <2>1. ASSUME job[c].kind = "get"
        PROVE  Len(up'[c]) = 0 /\ sent'[c] = 1
    BY <1>1, <2>1, EmptySeq
  <2>2. QED
    BY <2>1
\* Nothing is answered and nothing begins.
<1>5. ASSUME UNCHANGED <<rcv, down, db, saved, fetched>>
      PROVE  DInv'
  <2>1. DataType'
    BY <1>1, <1>3, <1>5 DEF DataType
  <2>2. RcvInv(c)' /\ SavedInv(c)' /\ OkInv(c)'
    BY <1>1, <1>2, <1>3, <1>5 DEF CInv, RcvInv, SavedInv, OkInv
  <2>3. UpSync(c)'
    <3>1. slow' = slow /\ sent' = sent /\ rcv'[c] = None
          /\ Request(c)' = Request(c)
      BY <1>1, <1>2, <1>3, <1>5
    <3>2. SUFFICES ASSUME c \notin slow
                   PROVE  UpSync(c)'
      BY <3>1 DEF UpSync
    <3>3. PICK k \in Nat : Left(up'[c], Request(c), sent[c], k + 1)
      BY <1>1, <3>2
    <3>4. k + 1 \in Nat /\ Left(up'[c], Request(c)', sent'[c], k + 1)
      BY <3>1, <3>3
    <3>5. QED
      BY <3>1, <3>4 DEF UpSync
  <2>4. GetInv(c)'
    <3>1. ASSUME job[c].kind = "get"
          PROVE  Waiting(c)' /\ Len(up'[c]) <= sent'[c]
      BY <1>1, <1>4, <1>5, <3>1 DEF Waiting
    <3>2. QED
      BY <1>1, <3>1 DEF GetInv
  <2>5. FileInv(c)'
    BY <1>1, <1>3, <1>5 DEF CInv, FileInv, Truly
  <2>6. CInv(c)'
    BY <1>1, <2>2, <2>3, <2>4, <2>5 DEF CInv
  <2>7. \A d \in Clients : d # c => Keeps(d)
    BY <1>1, <1>5 DEF Keeps
  <2>8. QED
    BY <1>1, <1>5, <2>1, <2>6, <2>7, OneStep
\* A command is answered.
<1>6. ASSUME NEW tag \in {"ok", "er"}, l.tag = "cl",
             Reply(c, <<Line(tag, None)>>),
             UNCHANGED <<rcv, db, saved, fetched>>
      PROVE  DInv'
  <2>1. job[c].kind = "cmd"
    BY <1>1, <1>6 DEF Own
  <2>2. /\ down' \in [Clients -> Seq(Lines)]
        /\ \A d \in Clients : d # c => down'[d] = down[d]
    BY <1>3, <1>6, OneLine, ReplyIs
  <2>3. DataType'
    BY <1>1, <1>3, <1>6, <2>2 DEF DataType
  <2>4. RcvInv(c)' /\ SavedInv(c)' /\ OkInv(c)' /\ GetInv(c)'
    BY <1>1, <1>2, <1>3, <1>6, <2>1 DEF CInv, RcvInv, SavedInv, OkInv, GetInv
  <2>5. UpSync(c)'
    BY <1>1, <1>2, <1>3, <1>6, SMTT(20) DEF UpSync
  <2>6. FileInv(c)'
    BY <1>1, <1>3, <1>6 DEF CInv, FileInv, Truly
  <2>7. CInv(c)'
    BY <1>1, <2>4, <2>5, <2>6 DEF CInv
  <2>8. \A d \in Clients : d # c => Keeps(d)
    BY <1>1, <1>6, <2>2 DEF Keeps
  <2>9. QED
    BY <1>1, <1>6, <2>3, <2>7, <2>8, OneStep
\* A script that the daemon does not have is asked for.
<1>7. ASSUME l.tag = "ss", Reply(c, <<Line("er", None)>>),
             UNCHANGED <<rcv, db, saved, fetched>>
      PROVE  DInv'
  <2>1. job[c].kind = "get" /\ Waiting(c) /\ sent[c] = 1 /\ up'[c] = <<>>
    BY <1>1, <1>7 DEF Own
  <2>2. /\ down' \in [Clients -> Seq(Lines)]
        /\ \A d \in Clients : d # c => down'[d] = down[d]
    BY <1>3, <1>7, OneLine, ReplyIs
  <2>3. DataType'
    BY <1>1, <1>3, <1>7, <2>2 DEF DataType
  <2>4. RcvInv(c)' /\ SavedInv(c)' /\ OkInv(c)'
    BY <1>1, <1>2, <1>3, <1>7, <2>1 DEF CInv, RcvInv, SavedInv, OkInv
  <2>5. UpSync(c)'
    BY <1>1, <1>2, <1>3, <1>7 DEF UpSync
  <2>6. Refused(c)'
    <3>1. \A i \in 1 .. Len(down'[c]) :
            \/ down'[c][i].tag = "er"
            \/ i \in 1 .. Len(down[c]) /\ down'[c][i] = down[c][i]
      BY <1>3, <1>7, ErrorSent
    <3>2. \A i \in 1 .. Len(down[c]) : FALSE
      BY <2>1 DEF Waiting
    <3>3. QED
      BY <1>1, <1>7, <2>1, <3>1, <3>2 DEF Waiting, Refused
  <2>7. GetInv(c)'
    BY <1>1, <1>4, <2>1, <2>6 DEF GetInv
  <2>8. FileInv(c)'
    BY <1>1, <1>3, <1>7 DEF CInv, FileInv, Truly
  <2>9. CInv(c)'
    BY <1>1, <2>4, <2>5, <2>7, <2>8 DEF CInv
  <2>10. \A d \in Clients : d # c => Keeps(d)
    BY <1>1, <1>7, <2>2 DEF Keeps
  <2>11. QED
    BY <1>1, <1>7, <2>3, <2>9, <2>10, OneStep
\* A script is sent.
<1>8. ASSUME l.tag = "ss", db[l.arg] # None,
             Reply(c, ScriptLines(l.arg, db[l.arg])),
             fetched' = [fetched EXCEPT ![c] = db[l.arg]],
             UNCHANGED <<rcv, db, saved>>
      PROVE  DInv'
  <2> DEFINE name == job[c].name
             text == db[name]
             S == ScriptLines(name, text)
  <2>1. /\ job[c].kind = "get" /\ Waiting(c) /\ sent[c] = 1 /\ up'[c] = <<>>
        /\ l.arg = name
    BY <1>1, <1>8 DEF Own
  <2>2. text \in Texts /\ name \in Names
    BY <1>3, <1>8, <2>1 DEF DataType
  <2>3. S \in Seq(Lines)
    BY <2>2, ScriptLinesAre
  <2>4. Reply(c, S) /\ fetched' = [fetched EXCEPT ![c] = text] /\ text # None
    BY <1>8, <2>1
  <2> HIDE DEF text, S
  <2>5. /\ down' \in [Clients -> Seq(Lines)]
        /\ \A d \in Clients : d # c => down'[d] = down[d]
        /\ Len(down'[c]) = Len(down[c]) + Len(S)
        /\ Len(down[c]) \in Nat /\ Len(S) \in Nat
        /\ \A i \in 1 .. Len(S) : down'[c][Len(down[c]) + i] = S[i]
    BY <1>3, <2>3, <2>4, ReplyIs
  <2>6. /\ fetched' \in [Clients -> Texts \union {None}] /\ fetched'[c] = text
        /\ \A d \in Clients : d # c => fetched'[d] = fetched[d]
    BY <1>3, <2>2, <2>4 DEF DataType
  <2>7. DataType'
    BY <1>1, <1>3, <1>8, <2>5, <2>6 DEF DataType
  <2>8. RcvInv(c)' /\ SavedInv(c)' /\ OkInv(c)'
    BY <1>1, <1>2, <1>3, <1>8, <2>1 DEF CInv, RcvInv, SavedInv, OkInv
  <2>9. UpSync(c)'
    BY <1>1, <1>2, <1>3, <1>8 DEF UpSync
  <2>10. Served(c)'
    <3>1. Len(down[c]) = 0
      BY <2>1, EmptySeq DEF Waiting
    <3>2. Left(down'[c], S, Len(S), 0)
      BY <2>5, <3>1 DEF Left
    <3>3. file[c] = NewReceiver
      BY <2>1 DEF Waiting
    <3>4. Follows(file'[c], text, 0)
      BY <1>1, <3>3 DEF Follows, NewReceiver
    <3>5. QED
      BY <1>1, <2>1, <2>4, <2>6, <3>2, <3>4 DEF Served, S
  <2>11. GetInv(c)'
    BY <1>1, <1>4, <2>1, <2>10 DEF GetInv
  <2>12. FileInv(c)'
    BY <1>1, <1>3, <1>8, <2>1 DEF CInv, FileInv, Truly, Waiting
  <2>13. CInv(c)'
    BY <1>1, <2>8, <2>9, <2>11, <2>12 DEF CInv
  <2>14. \A d \in Clients : d # c => Keeps(d)
    BY <1>1, <1>8, <2>5, <2>6 DEF Keeps
  <2>15. QED
    BY <1>1, <1>8, <2>7, <2>13, <2>14, OneStep
\* A script is announced.
<1>9. ASSUME l.tag = "rs", rcv' = [rcv EXCEPT ![c] = NewReceiver],
             UNCHANGED <<down, db, saved, fetched>>
      PROVE  DInv'
  <2>1. NewReceiver \in Receivers /\ Fits(NewReceiver)
    BY EmptySeq DEF ReceiverAssumption, NewReceiver, Receivers, Fits, Texts
  <2>2. /\ rcv' \in [Clients -> Receivers \union {None}]
        /\ rcv'[c] = NewReceiver
        /\ \A d \in Clients : d # c => rcv'[d] = rcv[d]
    BY <1>3, <1>9, <2>1 DEF DataType
  <2>3. DataType'
    BY <1>1, <1>3, <1>9, <2>2 DEF DataType
  <2>4. job[c].kind = "put"
    BY <1>1, <1>9 DEF Own
  <2>5. RcvInv(c)'
    BY <1>1, <2>1, <2>2, <2>4 DEF RcvInv, NewReceiver
  <2>6. SavedInv(c)' /\ OkInv(c)' /\ GetInv(c)'
    BY <1>1, <1>3, <1>9, <2>4 DEF CInv, SavedInv, OkInv, GetInv
  <2>7. UpSync(c)'
    <3>1. ASSUME c \notin slow
          PROVE  Left(up'[c], Request(c), sent[c], 1)
                   /\ Follows(NewReceiver, job[c].text, 0)
      <4>1. PICK k \in Nat : /\ k < sent[c] /\ l = Request(c)[k + 1]
                             /\ Left(up'[c], Request(c), sent[c], k + 1)
        BY <1>1, <3>1
      <4>2. k + 1 \in 1 .. Len(Request(c))
        <5>1. /\ sent[c] \in Nat /\ Len(Request(c)) \in Nat
              /\ sent[c] <= Len(Request(c))
          BY <1>3, RequestLines DEF CInv, SentInv, DataType
        <5>2. QED
          BY <4>1, <5>1
      <4>3. k + 1 = 1
        BY <1>9, <4>1, <4>2, RequestLines
      <4>4. Follows(NewReceiver, job[c].text, 0)
        BY DEF Follows, NewReceiver
      <4>5. QED
        BY <4>1, <4>3, <4>4
    <3>2. QED
      BY <1>1, <1>3, <2>2, <3>1 DEF UpSync
  <2>8. FileInv(c)'
    BY <1>1, <1>3, <1>9 DEF CInv, FileInv, Truly
  <2>9. CInv(c)'
    BY <1>1, <2>5, <2>6, <2>7, <2>8 DEF CInv
  <2>10. \A d \in Clients : d # c => Keeps(d)
    BY <1>1, <1>9, <2>2 DEF Keeps
  <2>11. QED
    BY <1>1, <1>9, <2>3, <2>9, <2>10, OneStep
<1>10. QED
  BY <1>5, <1>6, <1>7, <1>8, <1>9 DEF Command, NoReply, Obeyed, dataVars, l

(***************************************************************************)
(* The daemon takes a line within the reception of a script: it follows    *)
(* the upload, and what it saves at the end is all of it.                  *)
(***************************************************************************)
LEMMA ReceiveData ==
  ASSUME SessionAssumption, ReceiverAssumption, JobType, IInv, DInv,
         NEW c \in Clients, ReceiveLine(c)
  PROVE  DInv'
<1> DEFINE l == Head(up[c])
           r == Receive(rcv[c], l)
           text == job[c].text
           name == job[c].name
           S == ScriptLines(name, text)
<1>1. /\ UNCHANGED <<job, pc, sent, file, eof, srv, running, slow>>
      /\ srv[c] = "open" /\ l \in Lines /\ Own(c, l)
      /\ up' \in [Clients -> Seq(Lines)]
      /\ \A d \in Clients : d # c => up'[d] = up[d]
      /\ SentInv(c)' /\ UpInv(c)'
      /\ c \notin slow => \E k \in Nat :
           /\ k < sent[c] /\ l = Request(c)[k + 1]
           /\ Left(up'[c], Request(c), sent[c], k + 1)
           /\ rcv[c] # None => k >= 1 /\ Follows(rcv[c], job[c].text, k - 1)
  BY TakesParts DEF ReceiveLine
<1>2. rcv[c] # None /\ UNCHANGED fetched
  BY DEF ReceiveLine, dataVars
<1>3. /\ CInv(c) /\ DataType /\ Request(c)' = Request(c)
      /\ name \in Names /\ text \in Texts
      /\ rcv[c] \in Receivers
  BY <1>1, <1>2, SameRequest, RequestIs DEF DInv, DataType
<1>4. /\ job[c].kind = "put" /\ rcv[c].state \in {"idle", "waitline"}
      /\ rcv[c].state = "waitline" => rcv[c].name = name
      /\ Fits(rcv[c])
  BY <1>2, <1>3 DEF CInv, RcvInv
<1>5. r \in Receivers /\ Fits(r)
  BY <1>1, <1>3, <1>4, ReceiveType
<1>6. \/ r.state = "error"
      \/ r.state = "finished" /\ r.name = name
      \/ /\ r.state \in {"idle", "waitline"}
         /\ r.state = "waitline" => r.name = name
  BY <1>1, <1>3, <1>4, ReceiveStates DEF Own
<1> HIDE DEF l, r
<1>7. ASSUME c \notin slow
      PROVE  \E k \in Nat :
               /\ Left(up'[c], Request(c), sent[c], k + 1)
               /\ \/ r.state = "error"
                  \/ r.state = "finished" /\ r.text = NonBlank(text)
                  \/ Follows(r, text, k)
  <2>1. PICK k \in Nat :
          /\ k < sent[c] /\ l = Request(c)[k + 1]
          /\ Left(up'[c], Request(c), sent[c], k + 1)
          /\ k >= 1 /\ Follows(rcv[c], text, k - 1)
    BY <1>1, <1>2, <1>7
  <2>2. /\ Len(S) \in Nat /\ Len(Request(c)) = Len(S) + 1
        /\ \A i \in 1 .. Len(S) : Request(c)[1 + i] = S[i]
    BY <1>4, RequestLines
  <2>3. sent[c] \in Nat /\ sent[c] <= Len(Request(c))
    BY <1>3 DEF CInv, SentInv, DataType
  <2> HIDE DEF S
  <2>4. k \in 1 .. Len(S) /\ 1 + k = k + 1
        /\ k - 1 \in Nat /\ k - 1 < Len(S) /\ (k - 1) + 1 = k
    BY <2>1, <2>2, <2>3
  <2>5. l = S[(k - 1) + 1]
    BY <2>1, <2>2, <2>4
  <2>6. \/ r.state = "error"
        \/ r.state = "finished" /\ r.text = NonBlank(text)
        \/ Follows(r, text, k)
    <3> DEFINE n == k - 1
    <3>1. n \in Nat /\ n < Len(S) /\ Follows(rcv[c], text, n) /\ l = S[n + 1]
      BY <2>1, <2>4, <2>5
    <3> HIDE DEF n
    <3>2. \/ r.state = "error"
          \/ r.state = "finished" /\ r.text = NonBlank(text)
          \/ Follows(r, text, n + 1)
      BY <1>3, <3>1, ReceiveFollows DEF r, S
    <3>3. n + 1 = k
      BY <2>4 DEF n
    <3>4. QED
      BY <3>2, <3>3
  <2>7. QED
    BY <2>1, <2>6
\* The reception goes on.
<1>8. ASSUME ~Done(r), rcv' = [rcv EXCEPT ![c] = r],
             UNCHANGED <<down, db, saved>>
      PROVE  DInv'
  <2>1. /\ rcv' \in [Clients -> Receivers \union {None}] /\ rcv'[c] = r
        /\ \A d \in Clients : d # c => rcv'[d] = rcv[d]
    BY <1>3, <1>5, <1>8 DEF DataType
  <2>2. DataType'
    BY <1>1, <1>2, <1>3, <1>8, <2>1 DEF DataType
  <2>3. r.state # "error" /\ r.state # "finished"
    BY <1>8 DEF Done
  <2>4. RcvInv(c)'
    BY <1>1, <1>4, <1>5, <1>6, <2>1, <2>3 DEF RcvInv
  <2>5. SavedInv(c)' /\ OkInv(c)' /\ GetInv(c)'
    BY <1>1, <1>3, <1>4, <1>8 DEF CInv, SavedInv, OkInv, GetInv
  <2>6. UpSync(c)'
    <3>1. ASSUME c \notin slow
          PROVE  \E k \in Nat :
                   /\ Left(up'[c], Request(c), sent[c], k)
                   /\ k >= 1 /\ Follows(r, text, k - 1)
      <4>1. PICK k \in Nat : /\ Left(up'[c], Request(c), sent[c], k + 1)
                             /\ Follows(r, text, k)
        BY <1>7, <2>3, <3>1
      <4>2. k + 1 \in Nat /\ k + 1 >= 1 /\ (k + 1) - 1 = k
        OBVIOUS
      <4>3. QED
        BY <4>1, <4>2
    <3>2. QED
      BY <1>1, <1>3, <2>1, <3>1 DEF UpSync
  <2>7. FileInv(c)'
    BY <1>1, <1>2, <1>3, <1>8 DEF CInv, FileInv, Truly
  <2>8. CInv(c)'
    BY <1>1, <2>4, <2>5, <2>6, <2>7 DEF CInv
  <2>9. \A d \in Clients : d # c => Keeps(d)
    BY <1>1, <1>2, <1>8, <2>1 DEF Keeps
  <2>10. QED
    BY <1>1, <1>8, <2>2, <2>8, <2>9, OneStep
\* The reception ends: what the end of it leaves alone.
<1>9. ASSUME rcv' = [rcv EXCEPT ![c] = None]
      PROVE  /\ rcv' \in [Clients -> Receivers \union {None}]
             /\ \A d \in Clients : d # c => rcv'[d] = rcv[d]
             /\ RcvInv(c)' /\ GetInv(c)' /\ UpSync(c)'
  <2>1. /\ rcv' \in [Clients -> Receivers \union {None}] /\ rcv'[c] = None
        /\ \A d \in Clients : d # c => rcv'[d] = rcv[d]
    BY <1>3, <1>9 DEF DataType
  <2>2. RcvInv(c)' /\ GetInv(c)'
    BY <1>1, <1>4, <2>1 DEF RcvInv, GetInv
  <2>3. UpSync(c)'
    <3>1. ASSUME c \notin slow
          PROVE  \E k \in Nat : Left(up'[c], Request(c), sent[c], k)
      <4>1. PICK k \in Nat : Left(up'[c], Request(c), sent[c], k + 1)
        BY <1>7, <3>1
      <4>2. k + 1 \in Nat
        OBVIOUS
      <4>3. QED
        BY <4>1, <4>2
    <3>2. QED
      BY <1>1, <1>3, <2>1, <3>1 DEF UpSync
  <2>4. QED
    BY <2>1, <2>2, <2>3
\* A script is saved.
<1>10. ASSUME rcv' = [rcv EXCEPT ![c] = None], Outcome(r),
              db' = [db EXCEPT ![r.name] = r.text],
              saved' = [saved EXCEPT ![c] = r.text],
              Reply(c, <<Line("ok", None)>>)
       PROVE  DInv'
  <2>1. /\ r.state = "finished" /\ r.name = name
        /\ r.text \in Texts /\ r.text # None
    BY <1>5, <1>6, <1>10 DEF Outcome, Receivers, SessionAssumption
  <2>2. /\ down' \in [Clients -> Seq(Lines)]
        /\ \A d \in Clients : d # c => down'[d] = down[d]
    BY <1>3, <1>10, OneLine, ReplyIs
  <2>3. /\ saved' \in [Clients -> Texts \union {None}] /\ saved'[c] = r.text
        /\ \A d \in Clients : d # c => saved'[d] = saved[d]
    BY <1>3, <1>10, <2>1 DEF DataType
  <2>4. /\ db' \in [Names -> Texts \union {None}] /\ db'[name] = r.text
        /\ \A n \in Names : n # name => db'[n] = db[n]
    BY <1>3, <1>10, <2>1 DEF DataType
  <2>5. DataType'
    BY <1>1, <1>2, <1>3, <1>9, <1>10, <2>2, <2>3, <2>4 DEF DataType
  <2>6. SavedInv(c)'
    <3>1. ASSUME c \notin slow
          PROVE  r.text = NonBlank(text)
      BY <1>7, <2>1, <3>1 DEF Follows
    <3>2. QED
      BY <1>1, <1>4, <2>3, <3>1 DEF SavedInv
  <2>7. OkInv(c)'
    BY <2>1, <2>3 DEF OkInv
  <2>8. FileInv(c)'
    BY <1>1, <1>2, <1>3, <2>1, <2>3 DEF CInv, FileInv, Truly
  <2>9. CInv(c)'
    BY <1>1, <1>9, <1>10, <2>6, <2>7, <2>8 DEF CInv
  <2>10. \A d \in Clients : d # c => CInv(d)'
    <3>1. \A d \in Clients : d # c => Keeps(d)
      BY <1>1, <1>2, <1>9, <1>10, <2>2, <2>3 DEF Keeps
    <3>2. QED
      BY <3>1, KeepsInv DEF DInv
  <2>11. DbInv'
    <3>1. ASSUME NEW n \in Names
          PROVE  \/ db'[n] = Stored[n]
                 \/ \E d \in Clients :
                      job[d].name = n /\ saved'[d] # None /\ db'[n] = saved'[d]
      <4>1. CASE n = name
        BY <2>1, <2>3, <2>4, <4>1
      <4>2. CASE n # name
        <5>1. db'[n] = db[n]
          BY <2>4, <4>2
        <5>2. CASE db[n] = Stored[n]
          BY <5>1, <5>2
        <5>3. CASE \E d \in Clients :
                     job[d].name = n /\ saved[d] # None /\ db[n] = saved[d]
          <6>1. PICK d \in Clients :
                  job[d].name = n /\ saved[d] # None /\ db[n] = saved[d]
            BY <5>3
          <6>2. saved'[d] = saved[d]
            BY <2>3, <4>2, <6>1
          <6>3. QED
            BY <5>1, <6>1, <6>2
        <5>4. QED
          BY <5>2, <5>3 DEF DInv, DbInv
      <4>3. QED
        BY <4>1, <4>2
    <3>2. QED
      BY <1>1, <3>1 DEF DbInv
  <2>12. QED
    BY <2>5, <2>9, <2>10, <2>11 DEF DInv
<1>11. ASSUME rcv' = [rcv EXCEPT ![c] = None],
              Reply(c, <<Line("er", None)>>), UNCHANGED <<db, saved>>
       PROVE  DInv'
  <2>1. /\ down' \in [Clients -> Seq(Lines)]
        /\ \A d \in Clients : d # c => down'[d] = down[d]
    BY <1>3, <1>11, OneLine, ReplyIs
  <2>2. DataType'
    BY <1>1, <1>2, <1>3, <1>9, <1>11, <2>1 DEF DataType
  <2>3. OkInv(c)'
    <3>1. \A i \in 1 .. Len(down'[c]) :
            \/ down'[c][i].tag = "er"
            \/ i \in 1 .. Len(down[c]) /\ down'[c][i] = down[c][i]
      BY <1>3, <1>11, ErrorSent
    <3>2. QED
      BY <1>1, <1>3, <1>11, <3>1 DEF CInv, OkInv
  <2>4. SavedInv(c)' /\ FileInv(c)'
    BY <1>1, <1>2, <1>3, <1>11 DEF CInv, SavedInv, FileInv, Truly
  <2>5. CInv(c)'
    BY <1>1, <1>9, <1>11, <2>3, <2>4 DEF CInv
  <2>6. \A d \in Clients : d # c => Keeps(d)
    BY <1>1, <1>2, <1>9, <1>11, <2>1 DEF Keeps
  <2>7. QED
    BY <1>1, <1>11, <2>2, <2>5, <2>6, OneStep
<1>12. QED
  BY <1>8, <1>10, <1>11 DEF ReceiveLine, NoReply, dataVars, l, r

(***************************************************************************)
(* Every step keeps the invariant of the lines.                            *)
(***************************************************************************)
LEMMA NextData ==
  ASSUME SessionAssumption, ReceiverAssumption, JobType, IInv, DInv, [Next]_vars
  PROVE  DInv'
<1>1. ASSUME NEW c \in Clients, Utility(c) \/ GiveUp(c)
      PROVE  DInv'
  BY <1>1, StillStep, WriteStep, ReadStep DEF Utility
<1>2. CASE PollWait
  BY <1>2, PollStep
<1>3. CASE Accept
  BY <1>3, AcceptData
<1>4. ASSUME NEW c \in Clients, Handler(c)
      PROVE  DInv'
  BY <1>4, DropData, TimeOutData, CommandData, ReceiveData DEF Handler
<1>5. CASE Stop \/ BrokenPipe
  BY <1>5, StopData DEF BrokenPipe
<1>6. CASE UNCHANGED vars
  <2>1. DataType' /\ DbInv'
    BY <1>6 DEF DInv, DataType, DbInv, vars, cliVars, netVars, srvVars, dataVars
  <2>2. \A d \in Clients : Keeps(d)
    BY <1>6 DEF Keeps, vars, cliVars, netVars, srvVars, dataVars
  <2>3. QED
    BY <2>1, <2>2, KeepsInv DEF DInv
<1>7. CASE Written
  <2>1. DataType' /\ DbInv'
    BY <1>7 DEF DInv, DataType, DbInv, Written, cliVars, netVars, dataVars
  <2>2. \A d \in Clients : Keeps(d)
    BY <1>7 DEF Keeps, Written, cliVars, netVars, dataVars
  <2>3. QED
    BY <2>1, <2>2, KeepsInv DEF DInv
<1>8. QED
  BY <1>1, <1>2, <1>3, <1>4, <1>5, <1>6, <1>7 DEF Next, Daemon

(***************************************************************************)
(* The invariant of the specification.                                     *)
(***************************************************************************)
LEMMA Invariant == Spec => [](JobType /\ IInv /\ DInv)
<1>1. Init => JobType /\ IInv /\ DInv
  BY InitInv, DInitInv, SessionAssumption, ReceiverAssumption
     DEF Init, JobType, SessionAssumption
<1>2. JobType /\ IInv /\ DInv /\ [Next]_vars => JobType' /\ IInv' /\ DInv'
  <2>1. [Next]_vars => UNCHANGED job
    BY DEF Next, vars, Utility, Connect, Write, Read, ReadEOF, GiveUp, Daemon,
           PollWait, Accept, Handler, Drop, TimeOut, Command, ReceiveLine,
           Takes, Written, BrokenPipe, Stop
  <2>2. JobType /\ [Next]_vars => JobType'
    BY <2>1 DEF JobType
  <2>3. QED
    BY <2>2, NextInv, NextData, SessionAssumption, ReceiverAssumption
<1>3. QED
  BY <1>1, <1>2, PTL DEF Spec, SafeSpec

(***************************************************************************)
(* EntriesLive for any number of runs, descriptors and events in a batch:  *)
(* a handler that drops a connection takes out its own poll entry only, so *)
(* that the rest of the batch is still registered (poll.c:216).            *)
(***************************************************************************)
THEOREM EntriesStayLive == Spec => []EntriesLive
<1>1. IInv => EntriesLive
  <2> SUFFICES ASSUME IInv
               PROVE  EntriesLive
    OBVIOUS
  <2>1. \A i \in 1 .. Len(entries) : entries[i].conn \in Clients
    BY EntryTypes DEF IInv
  <2>2. Registered = {c \in Clients : srv[c] = "open"}
    BY <2>1 DEF IInv, EntryInv, Registered
  <2>3. batch \subseteq Registered \union {Listener}
    BY <2>2 DEF IInv, BatchInv
  <2>4. ASSUME NEW i \in 1 .. Len(entries)
        PROVE  entries[i] = EntryOf(entries[i].conn)
    <3> DEFINE E == [fd : 1 .. MaxFD, conn : Clients]
    <3>1. entries \in Seq(E)
      BY DEF IInv, FDType
    <3> HIDE DEF E
    <3>2. entries[i] \in E
      BY <3>1
    <3>3. entries[i] = [fd |-> entries[i].fd, conn |-> entries[i].conn]
      BY <3>2 DEF E
    <3>4. QED
      BY <3>3 DEF IInv, EntryInv, EntryOf
  <2>5. QED
    BY <2>2, <2>3, <2>4 DEF EntriesLive, IInv, FDInv
<1>2. QED
  BY Invariant, <1>1, PTL

\* The daemon writes to a connection or to none.
WriteType == writing \in Clients \union {None}

LEMMA WriteKept == WriteType /\ [Next]_vars => WriteType'
<1> SUFFICES ASSUME WriteType, [Next]_vars
             PROVE  WriteType'
  OBVIOUS
<1>1. ASSUME NEW c \in Clients, Utility(c) \/ GiveUp(c)
      PROVE  WriteType'
  BY <1>1 DEF WriteType, Utility, Connect, Write, Read, ReadEOF, GiveUp, srvVars
<1>2. CASE PollWait \/ Accept \/ Written
  BY <1>2 DEF WriteType, PollWait, Accept, Written
<1>3. CASE Stop \/ BrokenPipe
  BY <1>3 DEF WriteType, Stop, BrokenPipe
<1>4. ASSUME NEW c \in Clients, Drop(c) \/ TimeOut(c)
      PROVE  WriteType'
  BY <1>4 DEF WriteType, Drop, TimeOut
<1>5. ASSUME NEW c \in Clients, Command(c) \/ ReceiveLine(c)
      PROVE  WriteType'
  <2>1. NoReply \/ \E ls : Reply(c, ls)
    BY <1>5 DEF Command, ReceiveLine
  <2>2. QED
    BY <2>1 DEF NoReply, Reply, WriteType
<1>6. CASE UNCHANGED vars
  BY <1>6 DEF WriteType, vars, srvVars
<1>7. QED
  BY <1>1, <1>2, <1>3, <1>4, <1>5, <1>6 DEF Next, Daemon, Handler

(***************************************************************************)
(* TypeOK for any number of runs, of scripts and of lines.                 *)
(***************************************************************************)
THEOREM TypeCorrect == Spec => []TypeOK
<1>1. JobType /\ IInv /\ DInv /\ WriteType => TypeOK
  <2> SUFFICES ASSUME JobType, IInv, DInv, WriteType
               PROVE  TypeOK
    OBVIOUS
  <2>1. \A c \in Clients : sent[c] \in 0 .. Len(Request(c))
    <3>1. ASSUME NEW c \in Clients
          PROVE  sent[c] \in 0 .. Len(Request(c))
      <4>1. sent[c] \in Nat /\ Len(Request(c)) \in Nat /\ SentInv(c)
        BY RequestLines DEF DInv, DataType, CInv
      <4>2. QED
        BY <4>1 DEF SentInv
    <3>2. QED
      BY <3>1
  <2>2. QED
    BY <2>1 DEF TypeOK, JobType, IInv, FDType, DInv, DataType, WriteType
<1>2. Init => WriteType
  BY DEF Init, WriteType
<1>3. QED
  BY Invariant, WriteKept, <1>1, <1>2, PTL DEF Spec, SafeSpec

(***************************************************************************)
(* SavedWhole for scripts of any length: what MonitorRecvScript has when   *)
(* it sees the end of a script is all that the run of the utility was      *)
(* given, whatever other runs do and wherever runs and the daemon are      *)
(* stopped; and the database has nothing else (clientCommandListener).     *)
(***************************************************************************)
THEOREM ScriptsSavedWhole == Spec => []SavedWhole
<1>1. DInv => SavedWhole
  BY DEF DInv, DbInv, CInv, SavedInv, SavedWhole
<1>2. QED
  BY Invariant, <1>1, PTL

(***************************************************************************)
(* AnswerTrue: an upload that is reported as a success was saved, and a    *)
(* script that is reported as received is the one that the daemon had      *)
(* (putScript and getScript), unless the report comes from the end of the  *)
(* connection.                                                             *)
(***************************************************************************)
THEOREM AnswersAreTrue == Spec => []AnswerTrue
<1>1. DInv => AnswerTrue
  BY DEF DInv, CInv, FileInv, AnswerTrue
<1>2. QED
  BY Invariant, <1>1, PTL

(***************************************************************************)
(* BufferHolds for lines and scripts of any length: MonitorRecvScript      *)
(* enlarges its buffer before the newline and the end of the string would  *)
(* be outside of it (monitor.c:1280).                                      *)
(***************************************************************************)
THEOREM BuffersHold == Spec => []BufferHolds
<1>1. DInv => BufferHolds
  BY DEF DInv, CInv, FileInv, RcvInv, Fits, BufferHolds
<1>2. QED
  BY Invariant, <1>1, PTL

============================================================================
