---------------------------- MODULE XplCoreProofs ----------------------------
(***************************************************************************)
(* Theorems about the two models of xplcore.c, for all their constants.    *)
(* Of the services (XplService): every set of services, every traffic and  *)
(* all intervals.  Of the text of messages (XplMessage): every character   *)
(* set, every text of a message and all buffer sizes.                      *)
(***************************************************************************)
EXTENDS XplService, XplMessage, SequenceTheorems, WellFoundedInduction, TLAPS

\* What a service object satisfies at all times: before the hub is confirmed
\* one interval bounds the silence, afterwards two.
RecordInv(r) ==
  /\ r \in ServiceRecords
  /\ r.hub = "unconfirmed" => r.tries < MaxTries
  /\ r.age + r.timer <= 2 * Interval + 2 * r.requests
  /\ r.hub # "confirmed" => r.age + r.timer <= Interval + 2 * r.requests

ServiceInv ==
  /\ svc \in [Services -> ServiceRecords]
  /\ \A s \in Services : RecordInv(svc[s])

\* A record in the invariant is a record of services.
LEMMA RecordType ==
  ASSUME NEW r, RecordInv(r)
  PROVE  /\ r \in ServiceRecords
         /\ r.tries \in Nat /\ r.timer \in Nat /\ r.age \in Nat
         /\ r.requests \in Nat /\ Interval \in Nat /\ MaxTries \in Nat
         /\ Discovery \in Nat /\ NoEcho \in Nat /\ MaxTries >= 1
         /\ r.timer <= Interval /\ r.tries <= MaxTries
         /\ Discovery <= Interval /\ NoEcho <= Interval /\ 3 <= Interval
<1>1. r \in ServiceRecords
  BY DEF RecordInv
<1>2. /\ r.tries \in 0 .. MaxTries /\ r.timer \in 0 .. Interval
      /\ r.age \in Nat /\ r.requests \in Nat
  BY <1>1 DEF ServiceRecords
<1>3. QED
  BY <1>1, <1>2, ServiceAssumption DEF ServiceAssumption

\* A new service has sent nothing and waits for nothing.
LEMMA NewRecordInv == RecordInv(NewRecord)
<1>1. /\ 0 \in 0 .. MaxTries /\ 0 \in 0 .. Interval /\ 0 < MaxTries
      /\ Interval \in Nat
  BY ServiceAssumption DEF ServiceAssumption
<1>2. NewRecord \in ServiceRecords
  BY <1>1 DEF NewRecord, ServiceRecords, ReportModes
<1>3. QED
  BY <1>1, <1>2 DEF RecordInv, NewRecord

\* Trying to send a heartbeat restarts the time of silence, sent or not.
LEMMA SendHeartbeatInv ==
  ASSUME NEW r, RecordInv(r), NEW ok \in BOOLEAN
  PROVE  RecordInv(SendHeartbeat(r, ok))
<1> DEFINE a == [r EXCEPT !.age = 0, !.requests = 0]
<1>1. /\ r \in ServiceRecords /\ r.timer \in Nat /\ r.timer <= Interval
      /\ Interval \in Nat
  BY RecordType
<1>2. /\ a \in ServiceRecords /\ a.hub = r.hub /\ a.tries = r.tries
      /\ a.timer = r.timer /\ a.age = 0 /\ a.requests = 0
  BY <1>1 DEF ServiceRecords
<1>3. RecordInv(a)
  BY <1>1, <1>2 DEF RecordInv
<1> HIDE DEF a
<1>4. RecordInv(HeartbeatSent(a))
  <2> DEFINE t == a.tries + 1
             h == HeartbeatSent(a)
  <2>0. /\ a.tries \in Nat /\ MaxTries \in Nat /\ Interval \in Nat
        /\ Discovery \in 0 .. Interval /\ NoEcho \in 0 .. Interval
        /\ a.hub \in {"unconfirmed", "noecho", "confirmed"}
        /\ a.hub = "unconfirmed" => t \in 0 .. MaxTries
    BY <1>2, <1>3, RecordType DEF RecordInv, ServiceRecords
  <2>1. CASE a.hub = "unconfirmed" /\ t >= MaxTries
    <3>1. h = [a EXCEPT !.tries = t, !.hub = "noecho", !.timer = NoEcho]
      BY <2>0, <2>1 DEF HeartbeatSent
    <3>2. /\ h \in ServiceRecords /\ h.hub = "noecho" /\ h.timer = NoEcho
          /\ h.age = 0 /\ h.requests = 0
      BY <1>2, <2>0, <2>1, <3>1 DEF ServiceRecords
    <3>3. QED
      BY <2>0, <3>2 DEF RecordInv
  <2>2. CASE a.hub = "unconfirmed" /\ ~(t >= MaxTries)
    <3>1. h = [a EXCEPT !.tries = t, !.timer = Discovery]
      BY <2>0, <2>2 DEF HeartbeatSent
    <3>2. /\ h \in ServiceRecords /\ h.hub = "unconfirmed"
          /\ h.timer = Discovery /\ h.tries = t /\ h.age = 0 /\ h.requests = 0
      BY <1>2, <2>0, <2>2, <3>1 DEF ServiceRecords
    <3>3. QED
      BY <2>0, <2>2, <3>2 DEF RecordInv
  <2>3. CASE a.hub = "noecho"
    <3>1. h = [a EXCEPT !.timer = NoEcho]
      BY <2>3 DEF HeartbeatSent
    <3>2. /\ h \in ServiceRecords /\ h.hub = "noecho" /\ h.timer = NoEcho
          /\ h.age = 0 /\ h.requests = 0
      BY <1>2, <2>0, <2>3, <3>1 DEF ServiceRecords
    <3>3. QED
      BY <2>0, <3>2 DEF RecordInv
  <2>4. CASE a.hub = "confirmed"
    <3>1. h = [a EXCEPT !.timer = Interval]
      BY <2>4 DEF HeartbeatSent
    <3>2. /\ h \in ServiceRecords /\ h.hub = "confirmed" /\ h.timer = Interval
          /\ h.age = 0 /\ h.requests = 0
      BY <1>2, <2>0, <2>4, <3>1 DEF ServiceRecords
    <3>3. QED
      BY <2>0, <3>2 DEF RecordInv
  <2>5. QED
    BY <2>0, <2>1, <2>2, <2>3, <2>4
<1>5. SendHeartbeat(r, ok) \in {a, HeartbeatSent(a)}
  BY DEF SendHeartbeat, a
<1>6. QED
  BY <1>3, <1>4, <1>5

\* A tick moves one second from the wait to the silence.
LEMMA TickedInv ==
  ASSUME NEW r, RecordInv(r), NEW ok \in BOOLEAN
  PROVE  RecordInv(Ticked(r, ok))
<1>1. CASE r.timer = 0
  BY <1>1, SendHeartbeatInv DEF Ticked
<1>2. CASE r.timer # 0
  <2> DEFINE q == [r EXCEPT !.timer = @ - 1, !.age = @ + 1]
  <2>1. Ticked(r, ok) = q
    BY <1>2 DEF Ticked
  <2>2. /\ r \in ServiceRecords /\ r.timer - 1 \in 0 .. Interval
        /\ r.age + 1 \in Nat
    BY <1>2, RecordType
  <2>3. /\ q \in ServiceRecords /\ q.timer = r.timer - 1 /\ q.age = r.age + 1
        /\ q.hub = r.hub /\ q.tries = r.tries /\ q.requests = r.requests
    BY <2>2 DEF ServiceRecords
  <2> HIDE DEF q
  <2>4. q.age + q.timer = r.age + r.timer
    BY <2>3, RecordType
  <2>5. RecordInv(q)
    BY <2>3, <2>4 DEF RecordInv
  <2>6. QED
    BY <2>1, <2>5
<1>3. QED
  BY <1>1, <1>2

\* A request adds at most two ticks to the wait.
LEMMA RequestDelayBound ==
  ASSUME NEW t \in Nat
  PROVE  /\ RequestDelay(t) \in Nat /\ RequestDelay(t) <= t + 2
         /\ RequestDelay(t) <= 3 \/ RequestDelay(t) <= t
<1>1. t % 7 \in Nat /\ t % 7 <= t
  OBVIOUS
<1>2. QED
  BY <1>1 DEF RequestDelay

\* What a message does to a service: a request postpones the next heartbeat
\* by two ticks at most, an echo by an interval.
LEMMA SeenInv ==
  ASSUME NEW r, RecordInv(r), NEW s, NEW m
  PROVE  RecordInv(Seen(s, r, m))
<1> DEFINE q == IF m.schema = "request" THEN Requested(r) ELSE r
<1>1. RecordInv(q)
  <2>1. CASE m.schema = "request"
    <3>1. q = [r EXCEPT !.timer = RequestDelay(@), !.requests = @ + 1]
      BY <2>1 DEF Requested
    <3>2. /\ RequestDelay(r.timer) \in 0 .. Interval
          /\ RequestDelay(r.timer) <= r.timer + 2
      BY RecordType, RequestDelayBound
    <3>a. r \in ServiceRecords /\ r.requests + 1 \in Nat
      BY RecordType
    <3>3. /\ q \in ServiceRecords /\ q.timer = RequestDelay(r.timer)
          /\ q.age = r.age /\ q.hub = r.hub /\ q.tries = r.tries
          /\ q.requests = r.requests + 1
      BY <3>1, <3>2, <3>a DEF ServiceRecords
    <3> HIDE DEF q
    <3>4. /\ q.age + q.timer <= r.age + r.timer + 2
          /\ 2 * q.requests = 2 * r.requests + 2
      BY <3>2, <3>3, RecordType
    <3>5. /\ q.age \in Nat /\ q.timer \in Nat /\ r.age \in Nat
          /\ r.timer \in Nat /\ r.requests \in Nat /\ Interval \in Nat
      BY <3>2, <3>3, RecordType
    <3>6. QED
      BY <3>3, <3>4, <3>5 DEF RecordInv
  <2>2. CASE m.schema # "request"
    BY <2>2
  <2>3. QED
    BY <2>1, <2>2
<1> HIDE DEF q
<1>2. CASE Confirms(s, q, m)
  <2> DEFINE c == [q EXCEPT !.hub = "confirmed", !.timer = Interval]
  <2>a. q \in ServiceRecords /\ Interval \in 0 .. Interval
    BY <1>1, RecordType
  <2>1. /\ c \in ServiceRecords /\ c.hub = "confirmed" /\ c.timer = Interval
        /\ c.age = q.age /\ c.requests = q.requests
    BY <2>a DEF ServiceRecords
  <2>2. q.age + q.timer <= Interval + 2 * q.requests
    BY <1>1, <1>2 DEF RecordInv, Confirms
  <2>3. RecordInv(c)
    <3> HIDE DEF c
    <3>1. /\ q.age \in Nat /\ q.timer \in Nat /\ q.requests \in Nat
          /\ Interval \in Nat
      BY <1>1, RecordType
    <3>2. c.age + c.timer <= 2 * Interval + 2 * c.requests
      BY <2>1, <2>2, <3>1
    <3>3. QED
      BY <2>1, <3>2 DEF RecordInv
  <2>4. QED
    BY <1>2, <2>3 DEF Seen, q
<1>3. CASE ~Confirms(s, q, m)
  BY <1>1, <1>3 DEF Seen, q
<1>4. QED
  BY <1>2, <1>3

\* Changing what does not bear on heartbeats keeps the invariant.
LEMMA OtherFieldsInv ==
  ASSUME NEW r, RecordInv(r), NEW q \in ServiceRecords,
         q.hub = r.hub, q.tries = r.tries, q.timer = r.timer,
         q.age = r.age, q.requests = r.requests
  PROVE  RecordInv(q)
BY DEF RecordInv

\* Every step of the stack keeps the invariant of every service.
LEMMA ServiceStep ==
  ASSUME ServiceInv, [Next]_vars
  PROVE  ServiceInv'
<1> SUFFICES /\ svc' \in [Services -> ServiceRecords]
             /\ \A s \in Services : RecordInv(svc'[s])
  BY DEF ServiceInv, RecordInv, ServiceRecords
<1>0. /\ svc \in [Services -> ServiceRecords]
      /\ \A s \in Services : RecordInv(svc[s])
  BY DEF ServiceInv
<1>a. ASSUME NEW s \in Services, NEW q, RecordInv(q),
             svc' = [svc EXCEPT ![s] = q]
      PROVE  /\ svc' \in [Services -> ServiceRecords]
             /\ \A u \in Services : RecordInv(svc'[u])
  BY <1>a, <1>0, RecordType
<1>1. ASSUME NEW s \in Services, User(s)
      PROVE  /\ svc' \in [Services -> ServiceRecords]
             /\ \A u \in Services : RecordInv(svc'[u])
  <2>0. RecordInv(svc[s]) /\ svc[s] \in ServiceRecords
    BY <1>0
  <2>1. CASE NewService(s) \/ Destroy(s)
    BY <1>a, <2>1, NewRecordInv DEF NewService, Destroy
  <2>2. ASSUME NEW ok \in BOOLEAN, NEW fwd, Enable(s, ok, fwd)
        PROVE  \E q : RecordInv(q) /\ svc' = [svc EXCEPT ![s] = q]
    <3> DEFINE e == [svc[s] EXCEPT !.enabled = TRUE, !.hub = "unconfirmed",
                                   !.tries = 0]
    <3>1. /\ e \in ServiceRecords /\ e.hub = "unconfirmed" /\ e.tries = 0
          /\ e.timer = svc[s].timer /\ e.age = svc[s].age
          /\ e.requests = svc[s].requests
      <4>1. 0 \in 0 .. MaxTries
        BY ServiceAssumption DEF ServiceAssumption
      <4>2. QED
        BY <2>0, <4>1 DEF ServiceRecords
    <3>2. svc' = [svc EXCEPT ![s] = SendHeartbeat(e, ok)]
      BY <2>2 DEF Enable
    <3> HIDE DEF e
    <3>3. RecordInv(SendHeartbeat(e, ok))
      <4> DEFINE z == [e EXCEPT !.age = 0, !.requests = 0]
      <4>1. /\ z \in ServiceRecords /\ z.hub = "unconfirmed" /\ z.tries = 0
            /\ z.timer = svc[s].timer /\ z.age = 0 /\ z.requests = 0
        BY <3>1 DEF ServiceRecords
      <4>2. /\ svc[s].timer \in Nat /\ svc[s].timer <= Interval
            /\ Interval \in Nat /\ 0 < MaxTries
        BY <2>0, RecordType, ServiceAssumption DEF ServiceAssumption
      <4>3. RecordInv(z)
        BY <4>1, <4>2 DEF RecordInv
      <4>4. SendHeartbeat(e, ok) = SendHeartbeat(z, ok)
        BY <3>1, <4>1 DEF SendHeartbeat, ServiceRecords
      <4>5. QED
        BY <4>3, <4>4, SendHeartbeatInv
    <3>4. QED
      BY <3>2, <3>3
  <2>3. ASSUME Disable(s) \/ RemoveListener(s)
                 \/ \E mode \in Modes, groups \in BOOLEAN :
                      AddListener(s, mode, groups)
        PROVE  \E q : RecordInv(q) /\ svc' = [svc EXCEPT ![s] = q]
    <3>1. CASE Disable(s)
      <4> DEFINE q == [svc[s] EXCEPT !.enabled = FALSE]
      <4>1. svc' = [svc EXCEPT ![s] = q]
        BY <3>1 DEF Disable
      <4>2. RecordInv(q)
        BY <2>0, OtherFieldsInv DEF ServiceRecords
      <4>3. QED
        BY <4>1, <4>2
    <3>2. CASE RemoveListener(s)
      <4> DEFINE q == [svc[s] EXCEPT !.listener = FALSE]
      <4>1. svc' = [svc EXCEPT ![s] = q]
        BY <3>2 DEF RemoveListener
      <4>2. RecordInv(q)
        BY <2>0, OtherFieldsInv DEF ServiceRecords
      <4>3. QED
        BY <4>1, <4>2
    <3>3. ASSUME NEW mode \in Modes, NEW groups \in BOOLEAN,
                 AddListener(s, mode, groups)
          PROVE  \E q : RecordInv(q) /\ svc' = [svc EXCEPT ![s] = q]
      <4> DEFINE q == [svc[s] EXCEPT !.listener = TRUE, !.mode = mode,
                                     !.groups = groups]
      <4>1. svc' = [svc EXCEPT ![s] = q]
        BY <3>3, <1>0 DEF AddListener
      <4>2. mode \in ReportModes
        BY ServiceAssumption DEF ServiceAssumption
      <4>3. RecordInv(q)
        BY <2>0, <4>2, OtherFieldsInv DEF ServiceRecords
      <4>4. QED
        BY <4>1, <4>3
    <3>4. QED
      BY <2>3, <3>1, <3>2, <3>3
  <2>4. QED
    BY <1>1, <1>a, <2>1, <2>2, <2>3 DEF User
<1>2. ASSUME NEW ok, NEW fwd, Tick(ok, fwd)
      PROVE  /\ svc' \in [Services -> ServiceRecords]
             /\ \A u \in Services : RecordInv(svc'[u])
  <2>1. svc' = [s \in Services |->
                  IF s \in Listed THEN Ticked(svc[s], s \in ok) ELSE svc[s]]
    BY <1>2 DEF Tick
  <2>2. ASSUME NEW s \in Services
        PROVE  RecordInv(Ticked(svc[s], s \in ok))
    <3>1. RecordInv(svc[s]) /\ (s \in ok) \in BOOLEAN
      BY <1>0
    <3>2. QED
      BY <3>1, TickedInv
  <2>3. \A u \in Services : RecordInv(svc'[u])
    BY <1>0, <2>1, <2>2
  <2>4. QED
    BY <2>1, <2>3, RecordType
<1>3. CASE RxReady
  <2> DEFINE m == Head(net)
  <2>0. CASE UNCHANGED svc
    BY <1>0, <2>0
  <2>1. CASE Dispatch(m)
    <3>1. svc' = [s \in Services |->
                    IF s \in Reached(m) THEN Seen(s, svc[s], m) ELSE svc[s]]
      BY <2>1 DEF Dispatch
    <3>2. \A s \in Services : RecordInv(Seen(s, svc[s], m))
      BY <1>0, SeenInv
    <3>3. \A u \in Services : RecordInv(svc'[u])
      BY <1>0, <3>1, <3>2
    <3>4. QED
      BY <3>1, <3>3, RecordType
  <2>2. QED
    BY <1>3, <2>0, <2>1 DEF RxReady
<1>4. CASE HubToggles \/ (\E m \in Traffic : OtherSends(m)) \/ UNCHANGED vars
  BY <1>0, <1>4 DEF HubToggles, OtherSends, vars
<1>5. QED
  BY <1>1, <1>2, <1>3, <1>4 DEF Next

\* A service that exists is never silent for more than two intervals, and two
\* ticks for every heartbeat request: whatever the traffic, the hub's state
\* and the failures to send.
THEOREM NeverSilent == SafeSpec => []SilenceBound
<1>1. Init => ServiceInv
  BY NewRecordInv, RecordType DEF Init, ServiceInv
<1>2. ServiceInv /\ [Next]_vars => ServiceInv'
  BY ServiceStep
<1>3. ServiceInv => SilenceBound
  BY DEF ServiceInv, RecordInv, SilenceBound
<1>4. QED
  BY <1>1, <1>2, <1>3, PTL DEF SafeSpec

----------------------------------------------------------------------------
\* The list of services, the messages on their way, and the calls.
StackInv ==
  /\ servList \in Seq(Services)
  /\ hubUp \in BOOLEAN
  /\ net \in Seq(Messages) /\ Len(net) <= NetCap
  /\ forwarded \subseteq Services \union Others
  /\ calls \subseteq Services \X Messages
  /\ running \in BOOLEAN

\* A service is in the list once.
OnceInv ==
  \A i, j \in 1 .. Len(servList) : servList[i] = servList[j] => i = j

\* A heartbeat of a service on its way from the hub was forwarded by it.
EchoInv ==
  \A i \in 1 .. Len(net) :
    net[i].schema = "heartbeat" /\ net[i].from \in Services
      => net[i].from \in forwarded

IInv == ServiceInv /\ StackInv /\ EchoInv /\ OnceInv

\* The elements of two sequences, one after the other.
LEMMA Joined ==
  ASSUME NEW S, NEW a \in Seq(S), NEW b \in Seq(S)
  PROVE  /\ a \o b \in Seq(S)
         /\ Len(a) \in Nat /\ Len(b) \in Nat
         /\ Len(a \o b) = Len(a) + Len(b)
         /\ \A j \in 1 .. Len(a) : (a \o b)[j] = a[j]
         /\ \A j \in 1 .. Len(b) : (a \o b)[Len(a) + j] = b[j]
<1>1. a \o b \in Seq(S) /\ Len(a \o b) = Len(a) + Len(b)
  OBVIOUS
<1>2. \A j \in 1 .. Len(a) : (a \o b)[j] = a[j]
  OBVIOUS
<1>3. \A j \in 1 .. Len(b) : (a \o b)[Len(a) + j] = b[j]
  OBVIOUS
<1>4. Len(a) \in Nat /\ Len(b) \in Nat
  OBVIOUS
<1>5. QED
  BY <1>1, <1>2, <1>3, <1>4

\* The first elements of a sequence.
LEMMA Beginning ==
  ASSUME NEW S, NEW a \in Seq(S), NEW n \in Nat, n <= Len(a)
  PROVE  /\ SubSeq(a, 1, n) \in Seq(S)
         /\ Len(SubSeq(a, 1, n)) = n
         /\ \A j \in 1 .. n : SubSeq(a, 1, n)[j] = a[j]
  OBVIOUS

\* What is forwarded comes after what is on its way, and is from what was
\* sent.
LEMMA ForwardedAppends ==
  ASSUME StackInv, NEW ms \in Seq(Messages), Forwarded(ms)
  PROVE  /\ net' \in Seq(Messages) /\ Len(net') <= NetCap
         /\ \A i \in 1 .. Len(net') :
              \/ i \in 1 .. Len(net) /\ net'[i] = net[i]
              \/ /\ i \in Len(net) + 1 .. Len(net')
                 /\ \E j \in 1 .. Len(ms) : net'[i] = ms[j]
<1> DEFINE room == NetCap - Len(net)
           n == IF Len(ms) < room THEN Len(ms) ELSE room
           b == SubSeq(ms, 1, n)
<1>1. /\ net \in Seq(Messages) /\ Len(net) \in Nat /\ Len(ms) \in Nat
      /\ NetCap \in Nat /\ Len(net) <= NetCap
  BY ServiceAssumption DEF StackInv, ServiceAssumption
<1>2. n \in Nat /\ n <= Len(ms) /\ Len(net) + n <= NetCap
  BY <1>1
<1>3. net' = net \o b
  BY DEF Forwarded
<1> HIDE DEF n
<1>4. b \in Seq(Messages) /\ Len(b) = n /\ \A j \in 1 .. n : b[j] = ms[j]
  BY <1>2, Beginning
<1> HIDE DEF b
<1>5. /\ net' \in Seq(Messages) /\ Len(net') = Len(net) + n
      /\ \A j \in 1 .. Len(net) : net'[j] = net[j]
      /\ \A j \in 1 .. n : net'[Len(net) + j] = b[j]
  BY <1>1, <1>3, <1>4, Joined
<1>6. ASSUME NEW i \in 1 .. Len(net'), i \notin 1 .. Len(net)
      PROVE  /\ i \in Len(net) + 1 .. Len(net')
             /\ \E j \in 1 .. Len(ms) : net'[i] = ms[j]
  <2>1. /\ i \in Len(net) + 1 .. Len(net')
        /\ i - Len(net) \in 1 .. n /\ i - Len(net) \in 1 .. Len(ms)
        /\ Len(net) + (i - Len(net)) = i
    BY <1>1, <1>2, <1>5, <1>6
  <2>2. net'[i] = ms[i - Len(net)]
    BY <1>4, <1>5, <2>1
  <2>3. QED
    BY <2>1, <2>2
<1>7. Len(net') <= NetCap
  BY <1>2, <1>5
<1>8. QED
  BY <1>5, <1>6, <1>7

\* What is appended other than heartbeats of services that were not forwarded
\* keeps both parts.
LEMMA NetStep ==
  ASSUME StackInv, EchoInv, NEW ms \in Seq(Messages), Forwarded(ms),
         forwarded \subseteq forwarded',
         \A i \in Len(net) + 1 .. Len(net') :
           net'[i].schema = "heartbeat" /\ net'[i].from \in Services
             => net'[i].from \in forwarded'
  PROVE  net' \in Seq(Messages) /\ Len(net') <= NetCap /\ EchoInv'
<1>1. /\ net' \in Seq(Messages) /\ Len(net') <= NetCap
      /\ \A i \in 1 .. Len(net') :
           \/ i \in 1 .. Len(net) /\ net'[i] = net[i]
           \/ i \in Len(net) + 1 .. Len(net')
  BY ForwardedAppends
<1>2. EchoInv'
  BY <1>1 DEF EchoInv
<1>3. QED
  BY <1>1, <1>2

\* The echoes that the hub forwards are those of which it is noted.
LEMMA HubHearsStep ==
  ASSUME StackInv, EchoInv, NEW sent, NEW fwd, HubHears(sent, fwd)
  PROVE  /\ net' \in Seq(Messages) /\ Len(net') <= NetCap /\ EchoInv'
         /\ forwarded \subseteq forwarded'
         /\ forwarded' \subseteq Services \union Others
<1>1. CASE hubUp
  <2>0. PICK n \in 0 .. Len(servList) :
          \E f \in [1 .. n -> 1 .. Len(servList)] :
            /\ Forwarded(Echoes(n, f))
            /\ forwarded' = forwarded \union
                 {(net')[i].from : i \in Len(net) + 1 .. Len(net')}
    BY <1>1 DEF HubHears
  <2>1. PICK f \in [1 .. n -> 1 .. Len(servList)] :
          /\ Forwarded(Echoes(n, f))
          /\ forwarded' = forwarded \union
               {(net')[i].from : i \in Len(net) + 1 .. Len(net')}
    BY <2>0
  <2>2. \A i \in 1 .. n : servList[f[i]] \in Services
    BY <2>1 DEF StackInv
  <2>3. \A i \in 1 .. n : Heartbeat(servList[f[i]]) \in Messages
    BY <2>2 DEF Heartbeat, Messages, Schemas
  <2>4. Echoes(n, f) \in Seq(Messages)
    <3>1. n \in Nat
      BY <2>1 DEF StackInv
    <3>2. QED
      BY <2>3, <3>1 DEF Echoes
  <2>5. net' \in Seq(Messages) /\ Len(net') <= NetCap /\ EchoInv'
    BY <2>1, <2>4, NetStep
  <2>6. \A i \in Len(net) + 1 .. Len(net') :
          net'[i].from \in Services \union Others
    <3>1. Len(net) \in Nat /\ Len(net') \in Nat
      BY <2>5 DEF StackInv
    <3>2. \A i \in Len(net) + 1 .. Len(net') : i \in 1 .. Len(net')
      BY <3>1
    <3>3. \A i \in 1 .. Len(net') : net'[i] \in Messages
      BY <2>5
    <3>4. QED
      BY <3>2, <3>3 DEF Messages
  <2>7. QED
    BY <2>1, <2>5, <2>6 DEF StackInv
<1>2. CASE ~hubUp
  BY <1>2 DEF HubHears, StackInv, EchoInv
<1>3. QED
  BY <1>1, <1>2

\* A goodbye is no heartbeat.
LEMMA GoodbyeStep ==
  ASSUME StackInv, EchoInv, NEW s \in Services, SayGoodbye(s)
  PROVE  /\ net' \in Seq(Messages) /\ Len(net') <= NetCap /\ EchoInv'
         /\ forwarded' = forwarded
<1>1. forwarded' = forwarded
  BY DEF SayGoodbye
<1>2. CASE UNCHANGED net
  BY <1>1, <1>2 DEF StackInv, EchoInv
<1>3. CASE ~UNCHANGED net
  <2>1. PICK ms \in {<<>>, <<Goodbye(s)>>} : Forwarded(ms)
    BY <1>3 DEF SayGoodbye
  <2>2. Goodbye(s) \in Messages /\ Goodbye(s).schema = "normal"
    BY DEF Goodbye, Messages, Schemas
  <2>3. ms \in Seq(Messages) /\ \A j \in 1 .. Len(ms) : ms[j] = Goodbye(s)
    <3> DEFINE g == Goodbye(s)
    <3>1. g \in Messages /\ ms \in {<<>>, <<g>>}
      BY <2>1, <2>2
    <3> HIDE DEF g
    <3>2. CASE ms = <<>>
      BY <3>2
    <3>3. CASE ms = <<g>>
      <4>1. ms \in Seq(Messages) /\ Len(ms) = 1 /\ ms[1] = g
        BY <3>1, <3>3
      <4>2. QED
        BY <4>1 DEF g
    <3>4. QED
      BY <3>1, <3>2, <3>3
  <2>4. \A i \in Len(net) + 1 .. Len(net') : net'[i].schema = "normal"
    <3>1. Len(net) \in Nat
      BY DEF StackInv
    <3>2. Len(net') \in Nat
      BY <2>1, <2>3, ForwardedAppends
    <3>3. \A i \in Len(net) + 1 .. Len(net') :
            i \in 1 .. Len(net') /\ i \notin 1 .. Len(net)
      BY <3>1, <3>2
    <3>4. QED
      BY <2>1, <2>2, <2>3, <3>3, ForwardedAppends
  <2>5. QED
    BY <1>1, <2>1, <2>3, <2>4, NetStep
<1>4. QED
  BY <1>2, <1>3

\* Other nodes cannot send the heartbeats of our services.
LEMMA OtherSendsStep ==
  ASSUME StackInv, EchoInv, NEW m \in Traffic, OtherSends(m)
  PROVE  /\ net' \in Seq(Messages) /\ Len(net') <= NetCap /\ EchoInv'
         /\ forwarded' = forwarded
<1>1. Forwarded(<<m>>) /\ forwarded' = forwarded
  BY DEF OtherSends
<1>2. m \in Messages /\ m.from \notin Services
  BY ServiceAssumption DEF ServiceAssumption, Messages
<1>3. <<m>> \in Seq(Messages) /\ \A j \in 1 .. Len(<<m>>) : <<m>>[j] = m
  BY <1>2
<1>4. \A i \in Len(net) + 1 .. Len(net') : net'[i] = m
  <2>1. Len(net) \in Nat
    BY DEF StackInv
  <2>2. Len(net') \in Nat
    BY <1>1, <1>3, ForwardedAppends
  <2>3. \A i \in Len(net) + 1 .. Len(net') :
          i \in 1 .. Len(net') /\ i \notin 1 .. Len(net)
    BY <2>1, <2>2
  <2>4. QED
    BY <1>1, <1>3, <2>3, ForwardedAppends
<1>5. QED
  BY <1>1, <1>2, <1>3, <1>4, NetStep

\* Unlinking keeps a list of services.
LEMMA UnlinkedType ==
  ASSUME StackInv, NEW i \in 1 .. Len(servList)
  PROVE  Unlinked(i) \in Seq(Services)
<1>1. SubSeq(servList, 1, i - 1) \in Seq(Services)
  BY DEF StackInv
<1>2. SubSeq(servList, i + 1, Len(servList)) \in Seq(Services)
  BY DEF StackInv
<1>3. QED
  BY <1>1, <1>2, Joined DEF Unlinked

\* The services that a message reaches are in the list.
LEMMA ReachedType ==
  ASSUME StackInv, NEW m
  PROVE  Reached(m) \subseteq Services
  BY DEF StackInv, Reached

\* Every step of the stack keeps the list, the messages and the calls.
LEMMA StackStep ==
  ASSUME IInv, [Next]_vars
  PROVE  StackInv' /\ EchoInv'
<1>0. StackInv /\ EchoInv
  BY DEF IInv
<1> DEFINE Quiet == /\ calls' = {} /\ UNCHANGED <<servList, hubUp, running>>
           NetGood == /\ net' \in Seq(Messages)
                      /\ Len(net') <= NetCap /\ EchoInv'
                      /\ forwarded' \subseteq Services \union Others
<1>a. Quiet /\ NetGood => StackInv' /\ EchoInv'
  BY <1>0 DEF StackInv
<1>b. UNCHANGED <<net, forwarded>> => NetGood
  BY <1>0 DEF StackInv, EchoInv
<1>1. ASSUME NEW s \in Services, User(s)
      PROVE  StackInv' /\ EchoInv'
  <2>1. CASE NewService(s)
    <3>1. NetGood /\ calls' = {} /\ UNCHANGED <<hubUp, running>>
      BY <1>b, <2>1 DEF NewService
    <3>2. servList' \in Seq(Services)
      BY <1>0, <2>1 DEF NewService, StackInv
    <3>3. QED
      BY <1>0, <3>1, <3>2 DEF StackInv
  <2>2. ASSUME NEW ok \in BOOLEAN, NEW fwd, Enable(s, ok, fwd)
        PROVE  StackInv' /\ EchoInv'
    <3>1. HubHears(IF ok THEN {s} ELSE {}, fwd)
      BY <2>2 DEF Enable
    <3>2. NetGood
      BY <1>0, <3>1, HubHearsStep
    <3>3. Quiet
      BY <2>2 DEF Enable
    <3>4. QED
      BY <1>a, <3>2, <3>3
  <2>3. CASE Disable(s)
    <3>1. NetGood
      BY <1>0, <2>3, GoodbyeStep DEF Disable, StackInv
    <3>2. Quiet
      BY <2>3 DEF Disable
    <3>3. QED
      BY <1>a, <3>1, <3>2
  <2>4. CASE Destroy(s)
    <3>1. NetGood
      <4>1. CASE svc[s].enabled
        BY <1>0, <2>4, <4>1, GoodbyeStep DEF Destroy, StackInv
      <4>2. CASE ~svc[s].enabled
        BY <1>b, <2>4, <4>2 DEF Destroy
      <4>3. QED
        BY <4>1, <4>2
    <3>2. servList' \in Seq(Services)
      BY <1>0, <2>4, UnlinkedType DEF Destroy
    <3>3. calls' = {} /\ UNCHANGED <<hubUp, running>>
      BY <2>4 DEF Destroy
    <3>4. QED
      BY <1>0, <3>1, <3>2, <3>3 DEF StackInv
  <2>5. CASE RemoveListener(s) \/ \E mode \in Modes, groups \in BOOLEAN :
                                    AddListener(s, mode, groups)
    BY <1>a, <1>b, <2>5 DEF RemoveListener, AddListener
  <2>6. QED
    BY <1>1, <2>1, <2>2, <2>3, <2>4, <2>5 DEF User
<1>2. ASSUME NEW ok, NEW fwd, Tick(ok, fwd)
      PROVE  StackInv' /\ EchoInv'
  <2>1. NetGood
    BY <1>0, <1>2, HubHearsStep DEF Tick
  <2>2. Quiet
    BY <1>2 DEF Tick
  <2>3. QED
    BY <1>a, <2>1, <2>2
<1>3. CASE RxReady
  <2>1. /\ net # <<>> /\ net' = Tail(net)
        /\ UNCHANGED <<servList, hubUp, forwarded>>
    BY <1>3 DEF RxReady
  <2>2. /\ net' \in Seq(Messages)
        /\ Len(net) \in Nat /\ Len(net') = Len(net) - 1
        /\ \A i \in 1 .. Len(net') : net'[i] = net[i + 1]
        /\ Head(net) \in Messages
    BY <1>0, <2>1 DEF StackInv
  <2>3. Len(net') <= NetCap
    BY <1>0, <2>2, ServiceAssumption DEF StackInv, ServiceAssumption
  <2>4. EchoInv'
    <3>1. \A i \in 1 .. Len(net') : i + 1 \in 1 .. Len(net)
      BY <2>2
    <3>2. QED
      BY <1>0, <2>1, <2>2, <3>1 DEF EchoInv
  <2>5. calls' \subseteq Services \X Messages /\ running' \in BOOLEAN
    <3>1. Reached(Head(net)) \subseteq Services
      BY <1>0, ReachedType
    <3>2. CASE Dispatch(Head(net))
      BY <1>0, <2>2, <3>1, <3>2 DEF Dispatch, StackInv
    <3>3. CASE ~Dispatch(Head(net))
      BY <1>3, <3>3 DEF RxReady
    <3>4. QED
      BY <3>2, <3>3
  <2>6. QED
    BY <1>0, <2>1, <2>2, <2>3, <2>4, <2>5 DEF StackInv
<1>4. CASE HubToggles
  BY <1>0, <1>b, <1>4 DEF HubToggles, StackInv
<1>5. ASSUME NEW m \in Traffic, OtherSends(m)
      PROVE  StackInv' /\ EchoInv'
  <2>1. NetGood
    BY <1>0, <1>5, OtherSendsStep DEF StackInv
  <2>2. Quiet
    BY <1>5 DEF OtherSends
  <2>3. QED
    BY <1>a, <2>1, <2>2
<1>6. CASE UNCHANGED vars
  BY <1>0, <1>6 DEF vars, StackInv, EchoInv
<1>7. QED
  BY <1>1, <1>2, <1>3, <1>4, <1>5, <1>6 DEF Next

\* A service that is created is not in the list, and one that is destroyed
\* leaves the others where they are.
LEMMA OnceStep ==
  ASSUME StackInv, OnceInv, [Next]_vars
  PROVE  OnceInv'
<1>1. CASE servList' = servList
  BY <1>1 DEF OnceInv
<1>2. ASSUME NEW s \in Services, NewService(s)
      PROVE  OnceInv'
  <2>1. servList' = Append(servList, s) /\ s \notin Listed
    BY <1>2 DEF NewService
  <2>2. /\ Len(servList) \in Nat /\ Len(servList') = Len(servList) + 1
        /\ \A i \in 1 .. Len(servList) : servList'[i] = servList[i]
        /\ servList'[Len(servList) + 1] = s
    BY <2>1 DEF StackInv
  <2>3. \A i \in 1 .. Len(servList) : servList[i] # s
    BY <2>1 DEF Listed
  <2>4. QED
    BY <2>2, <2>3 DEF OnceInv
<1>3. ASSUME NEW s \in Services, Destroy(s)
      PROVE  OnceInv'
  <2>1. PICK k \in 1 .. Len(servList) : servList' = Unlinked(k)
    BY <1>3 DEF Destroy
  <2>2. /\ Len(servList) \in Nat /\ k \in Nat /\ k >= 1 /\ k <= Len(servList)
        /\ servList \in Seq(Services)
    BY <2>1 DEF StackInv
  <2> DEFINE a == SubSeq(servList, 1, k - 1)
             b == SubSeq(servList, k + 1, Len(servList))
  <2>3. /\ a \in Seq(Services) /\ Len(a) = k - 1
        /\ \A i \in 1 .. k - 1 : a[i] = servList[i]
    BY <2>2
  <2>4. /\ b \in Seq(Services) /\ Len(b) = Len(servList) - k
        /\ \A i \in 1 .. Len(servList) - k : b[i] = servList[k + i]
    BY <2>2
  <2>5. servList' = a \o b
    BY <2>1 DEF Unlinked
  <2> HIDE DEF a, b
  <2>6. /\ Len(servList') = Len(servList) - 1
        /\ \A i \in 1 .. Len(servList') :
             servList'[i] = IF i < k THEN servList[i] ELSE servList[i + 1]
    BY <2>2, <2>3, <2>4, <2>5
  <2> DEFINE old(i) == IF i < k THEN i ELSE i + 1
  <2>7. \A i \in 1 .. Len(servList') :
          old(i) \in 1 .. Len(servList) /\ servList'[i] = servList[old(i)]
    BY <2>2, <2>6
  <2>8. \A i, j \in 1 .. Len(servList') : old(i) = old(j) => i = j
    BY <2>2, <2>6
  <2> HIDE DEF old
  <2>9. QED
    BY <2>7, <2>8 DEF OnceInv
<1>4. ASSUME servList' # servList
      PROVE  \E s \in Services : NewService(s) \/ Destroy(s)
  BY <1>4 DEF Next, User, Enable, Disable, AddListener, RemoveListener, Tick,
              RxReady, HubToggles, OtherSends, vars
<1>5. QED
  BY <1>1, <1>2, <1>3, <1>4

\* The invariant holds at all times: what a service's record satisfies, what
\* the variables hold, and that an echo on its way is one of the hub's.
LEMMA Invariant == SafeSpec => []IInv
<1>1. Init => ServiceInv
  BY NewRecordInv, RecordType DEF Init, ServiceInv
<1>2. Init => StackInv /\ EchoInv /\ OnceInv
  <2> SUFFICES ASSUME Init
               PROVE  StackInv /\ EchoInv /\ OnceInv
    OBVIOUS
  <2>1. servList \in Seq(Services) /\ net \in Seq(Messages) /\ Len(net) = 0
    BY DEF Init
  <2>2. Len(net) <= NetCap
    BY <2>1, ServiceAssumption DEF ServiceAssumption
  <2>3. StackInv
    BY <2>1, <2>2 DEF Init, StackInv
  <2>4. EchoInv
    BY <2>1 DEF EchoInv
  <2>5. OnceInv
    BY DEF Init, OnceInv
  <2>6. QED
    BY <2>3, <2>4, <2>5
<1>3. IInv /\ [Next]_vars => IInv'
  BY ServiceStep, StackStep, OnceStep DEF IInv
<1>4. QED
  BY <1>1, <1>2, <1>3, PTL DEF SafeSpec, IInv

\* The variables of the stack stay in their types, for every set of services
\* and every traffic (createService, xplTick, rxReadyAction).
THEOREM TypeCorrect == SafeSpec => []TypeOK
<1>1. IInv => TypeOK
  BY DEF IInv, ServiceInv, StackInv, TypeOK
<1>2. QED
  BY Invariant, <1>1, PTL

\* The calls for a message are those of the services it reaches, each by its
\* mode.
LEMMA RoutedStep ==
  ASSUME IInv, RxReady, running'
  PROVE  /\ \A c \in calls' : c[1] \in Listed /\ c[2] = Head(net)
         /\ \A i \in 1 .. Len(servList) :
              LET s == servList[i]
                  m == Head(net)
                  called == <<s, m>> \in calls'
              IN /\ svc[s].mode = "normal" =>
                      (called <=> svc[s].listener /\ For(s, m) /\ ~Hidden(i, m))
                 /\ svc[s].mode = "configonly" =>
                      (called <=> svc[s].listener /\ m.schema = "config")
<1> DEFINE m == Head(net)
<1>1. calls' = {<<s, m>> : s \in {t \in Reached(m) : Reports(t, svc[t], m)}}
  BY DEF RxReady, Dispatch
<1>2. m \in Messages
  BY DEF RxReady, IInv, StackInv
<1> HIDE DEF m
<1>3. ASSUME NEW c \in calls'
      PROVE  c[1] \in Listed /\ c[2] = m
  <2>1. PICK t \in Reached(m) : c = <<t, m>>
    BY <1>1
  <2>2. t \in Listed
    BY DEF Reached, Listed
  <2>3. QED
    BY <2>1, <2>2
<1>4. ASSUME NEW i \in 1 .. Len(servList)
      PROVE  LET s == servList[i]
                 called == <<s, m>> \in calls'
             IN /\ svc[s].mode = "normal" =>
                     (called <=> svc[s].listener /\ For(s, m) /\ ~Hidden(i, m))
                /\ svc[s].mode = "configonly" =>
                     (called <=> svc[s].listener /\ m.schema = "config")
  <2> DEFINE s == servList[i]
  <2>1. <<s, m>> \in calls' <=> s \in Reached(m) /\ Reports(s, svc[s], m)
    BY <1>1
  <2>2. s \in Reached(m) <=> ~Hidden(i, m)
    <3>1. s \in Reached(m) <=>
            \E j \in 1 .. Len(servList) :
              servList[j] = s /\ \A k \in 1 .. j - 1 : ~Stops(svc[servList[k]], m)
      BY DEF Reached
    <3>2. \A j \in 1 .. Len(servList) : servList[j] = s => j = i
      BY DEF IInv, OnceInv
    <3>3. Hidden(i, m) <=> \E k \in 1 .. i - 1 : Stops(svc[servList[k]], m)
      BY DEF Hidden, Stops
    <3>4. QED
      BY <3>1, <3>2, <3>3
  <2>3. s \in Services /\ s # Broadcast
    BY ServiceAssumption DEF ServiceAssumption, IInv, StackInv
  <2> HIDE DEF s
  <2>4. svc[s].mode = "normal" =>
          (Reports(s, svc[s], m) <=> svc[s].listener /\ For(s, m))
    BY <2>3 DEF Reports, Matches, IsUs, For
  <2>5. svc[s].mode = "configonly" =>
          (Reports(s, svc[s], m) <=> svc[s].listener /\ m.schema = "config")
    BY DEF Reports
  <2>6. m.schema = "config" => ~Hidden(i, m)
    BY DEF Hidden
  <2>7. QED
    BY <2>1, <2>2, <2>4, <2>5, <2>6 DEF s
<1>5. QED
  BY <1>3, <1>4 DEF m

\* Every listener in the normal mode, and every one for configuration messages,
\* gets what is for it and nothing else, behind any mix of other services
\* (rxReadyAction).
THEOREM MessagesRouted == SafeSpec => RoutedRight
<1>1. IInv /\ [Next]_vars =>
        [RxReady /\ running' =>
           /\ \A c \in calls' : c[1] \in Listed /\ c[2] = Head(net)
           /\ \A i \in 1 .. Len(servList) :
                LET s == servList[i]
                    m == Head(net)
                    called == <<s, m>> \in calls'
                IN /\ svc[s].mode = "normal" =>
                        (called <=> svc[s].listener /\ For(s, m) /\ ~Hidden(i, m))
                   /\ svc[s].mode = "configonly" =>
                        (called <=> svc[s].listener /\ m.schema = "config")]_vars
  BY RoutedStep
<1>2. QED
  BY Invariant, <1>1, PTL DEF SafeSpec, RoutedRight

----------------------------------------------------------------------------
----------------------------------------------------------------------------
(* The refinement of HubDiscovery.                                         *)

Hub(s) == svc[s].hub

Heard(s) == s \in forwarded

\* The step is, for this service, a step of HubDiscovery or a stutter.
Searches(s) == Disc(s)!Next \/ UNCHANGED Disc(s)!discVars

\* A step that leaves a service's state alone is a stutter, or the hub
\* forwards its heartbeat.
LEMMA KeepsState ==
  ASSUME NEW s \in Services, Hub(s)' = Hub(s), forwarded \subseteq forwarded'
  PROVE  Searches(s)
<1>1. CASE Heard(s)' = Heard(s)
  BY <1>1 DEF Searches, Disc!discVars, Hub, Heard
<1>2. CASE Heard(s)' # Heard(s)
  <2>1. (s \in forwarded') = TRUE
    BY <1>2 DEF Heard
  <2>2. Disc(s)!Forward
    BY <2>1 DEF Disc!Forward, Hub
  <2>3. QED
    BY <2>2 DEF Searches, Disc!Next
<1>3. QED
  BY <1>1, <1>2

\* Once forwarded, always forwarded.
LEMMA HeardOn ==
  ASSUME NEW s, forwarded \subseteq forwarded'
  PROVE  (s \in forwarded') \in {(s \in forwarded), TRUE}
<1>1. CASE s \in forwarded'
  <2>1. (s \in forwarded') = TRUE
    BY <1>1
  <2>2. QED
    BY <2>1, Zenon
<1>2. CASE s \notin forwarded'
  <2>1. (s \in forwarded') = (s \in forwarded)
    BY <1>2
  <2>2. QED
    BY <2>1, Zenon
<1>3. QED
  BY <1>1, <1>2

\* A new search.
LEMMA RestartsSearch ==
  ASSUME NEW s \in Services, Hub(s)' = "unconfirmed",
         forwarded \subseteq forwarded'
  PROVE  Searches(s)
<1>1. (s \in forwarded') \in {(s \in forwarded), TRUE}
  BY HeardOn
<1>2. Disc(s)!Restart
  BY <1>1 DEF Disc!Restart, Hub
<1>3. QED
  BY <1>2 DEF Searches, Disc!Next

\* The search is given up.
LEMMA GivesUpSearch ==
  ASSUME NEW s \in Services, Hub(s) = "unconfirmed", Hub(s)' = "noecho",
         forwarded \subseteq forwarded'
  PROVE  Searches(s)
<1>1. (s \in forwarded') \in {(s \in forwarded), TRUE}
  BY HeardOn
<1>2. Disc(s)!GiveUp
  BY <1>1 DEF Disc!GiveUp, Hub
<1>3. QED
  BY <1>2 DEF Searches, Disc!Next

\* The echo of the service's own heartbeat.
LEMMA ConfirmsHub ==
  ASSUME NEW s \in Services, Hub(s) # "confirmed", Hub(s)' = "confirmed",
         s \in forwarded, UNCHANGED forwarded
  PROVE  Searches(s)
<1>1. Disc(s)!Confirm
  BY DEF Disc!Confirm, Hub
<1>2. QED
  BY <1>1 DEF Searches, Disc!Next

\* sendHeartbeat gives the search up, after more than one try, or leaves the
\* state alone.
LEMMA SentHub ==
  ASSUME NEW a \in ServiceRecords
  PROVE  \/ HeartbeatSent(a).hub = a.hub
         \/ /\ a.hub = "unconfirmed" /\ HeartbeatSent(a).hub = "noecho"
            /\ a.tries # 0
<1> DEFINE t == a.tries + 1
           h == HeartbeatSent(a)
<1>0. /\ a.tries \in Nat /\ MaxTries \in Nat /\ MaxTries >= 2
      /\ a.hub \in {"unconfirmed", "noecho", "confirmed"}
  BY ServiceAssumption DEF ServiceAssumption, ServiceRecords
<1>1. CASE a.hub = "unconfirmed" /\ t >= MaxTries
  <2>1. h = [a EXCEPT !.tries = t, !.hub = "noecho", !.timer = NoEcho]
    BY <1>0, <1>1 DEF HeartbeatSent
  <2>2. h.hub = "noecho"
    BY <2>1 DEF ServiceRecords
  <2>3. a.tries # 0
    BY <1>0, <1>1
  <2>4. QED
    BY <1>1, <2>2, <2>3
<1>2. CASE a.hub = "unconfirmed" /\ ~(t >= MaxTries)
  <2>1. h = [a EXCEPT !.tries = t, !.timer = Discovery]
    BY <1>0, <1>2 DEF HeartbeatSent
  <2>2. QED
    BY <2>1 DEF ServiceRecords
<1>3. CASE a.hub = "noecho"
  <2>1. h = [a EXCEPT !.timer = NoEcho]
    BY <1>3 DEF HeartbeatSent
  <2>2. QED
    BY <2>1 DEF ServiceRecords
<1>4. CASE a.hub = "confirmed"
  <2>1. h = [a EXCEPT !.timer = Interval]
    BY <1>4 DEF HeartbeatSent
  <2>2. QED
    BY <2>1 DEF ServiceRecords
<1>5. QED
  BY <1>0, <1>1, <1>2, <1>3, <1>4

\* xplTick gives the search up or leaves the state alone.
LEMMA TickedHub ==
  ASSUME NEW r, RecordInv(r), NEW ok \in BOOLEAN
  PROVE  \/ Ticked(r, ok).hub = r.hub
         \/ r.hub = "unconfirmed" /\ Ticked(r, ok).hub = "noecho"
<1>1. r \in ServiceRecords
  BY DEF RecordInv
<1>2. CASE r.timer = 0 /\ ok
  <2> DEFINE a == [r EXCEPT !.age = 0, !.requests = 0]
  <2>1. a \in ServiceRecords /\ a.hub = r.hub
    BY <1>1 DEF ServiceRecords
  <2>2. Ticked(r, ok) = HeartbeatSent(a)
    BY <1>2 DEF Ticked, SendHeartbeat
  <2> HIDE DEF a
  <2>3. \/ HeartbeatSent(a).hub = a.hub
        \/ a.hub = "unconfirmed" /\ HeartbeatSent(a).hub = "noecho"
    BY <2>1, SentHub
  <2>4. QED
    BY <2>1, <2>2, <2>3
<1>3. CASE r.timer = 0 /\ ~ok
  BY <1>1, <1>3 DEF Ticked, SendHeartbeat, ServiceRecords
<1>4. CASE r.timer # 0
  BY <1>1, <1>4 DEF Ticked, ServiceRecords
<1>5. QED
  BY <1>2, <1>3, <1>4

\* A received message confirms the hub, if it is the echo of a heartbeat, or
\* leaves the state alone.
LEMMA SeenHub ==
  ASSUME NEW r, RecordInv(r), NEW s, NEW m
  PROVE  \/ Seen(s, r, m).hub = r.hub
         \/ /\ r.hub # "confirmed" /\ Seen(s, r, m).hub = "confirmed"
            /\ m.schema = "heartbeat" /\ m.from = s
<1> DEFINE q == IF m.schema = "request" THEN Requested(r) ELSE r
<1>1. r \in ServiceRecords
  BY DEF RecordInv
<1>2. q.hub = r.hub /\ "hub" \in DOMAIN q
  BY <1>1 DEF Requested, ServiceRecords
<1>3. CASE Confirms(s, q, m)
  <2>1. Seen(s, r, m) = [q EXCEPT !.hub = "confirmed", !.timer = Interval]
    BY <1>3 DEF Seen
  <2> HIDE DEF q
  <2>2. Seen(s, r, m).hub = "confirmed"
    BY <1>2, <2>1
  <2>3. QED
    BY <1>2, <1>3, <2>2 DEF Confirms, IsUs
<1>4. CASE ~Confirms(s, q, m)
  <2>1. Seen(s, r, m) = q
    BY <1>4 DEF Seen
  <2>2. QED
    BY <1>2, <2>1
<1>5. QED
  BY <1>3, <1>4

\* A service that is enabled searches, whatever came of the first heartbeat.
LEMMA EnabledHub ==
  ASSUME NEW r \in ServiceRecords, NEW ok \in BOOLEAN,
         r.hub = "unconfirmed", r.tries = 0
  PROVE  SendHeartbeat(r, ok).hub = "unconfirmed"
<1> DEFINE a == [r EXCEPT !.age = 0, !.requests = 0]
<1>1. a \in ServiceRecords /\ a.hub = "unconfirmed" /\ a.tries = 0
  BY DEF ServiceRecords
<1>2. SendHeartbeat(r, ok) = IF ok THEN HeartbeatSent(a) ELSE a
  BY DEF SendHeartbeat
<1> HIDE DEF a
<1>3. HeartbeatSent(a).hub = "unconfirmed"
  BY <1>1, SentHub
<1>4. QED
  BY <1>1, <1>2, <1>3

\* Every step of the stack is, for each service, one of HubDiscovery.
LEMMA SearchStep ==
  ASSUME IInv, [Next]_vars, NEW s \in Services
  PROVE  Searches(s)
<1>0. /\ svc \in [Services -> ServiceRecords] /\ RecordInv(svc[s])
      /\ StackInv /\ EchoInv
  BY DEF IInv, ServiceInv
<1>1. ASSUME NEW u \in Services, User(u)
      PROVE  Searches(s)
  <2>1. forwarded \subseteq forwarded'
    BY <1>0, <1>1, HubHearsStep
       DEF User, NewService, Enable, Disable, Destroy, AddListener,
           RemoveListener, SayGoodbye
  <2>2. CASE s # u
    <3>1. svc'[s] = svc[s]
      BY <1>0, <1>1, <2>2
         DEF User, NewService, Enable, Disable, Destroy, AddListener,
             RemoveListener
    <3>2. QED
      BY <2>1, <3>1, KeepsState DEF Hub
  <2>3. CASE s = u /\ (NewService(u) \/ Destroy(u))
    <3>1. svc'[s].hub = "unconfirmed"
      BY <1>0, <2>3 DEF NewService, Destroy, NewRecord
    <3>2. QED
      BY <2>1, <3>1, RestartsSearch DEF Hub
  <2>4. ASSUME s = u, NEW ok \in BOOLEAN, NEW fwd, Enable(s, ok, fwd)
        PROVE  Searches(s)
    <3> DEFINE e == [svc[s] EXCEPT !.enabled = TRUE, !.hub = "unconfirmed",
                                   !.tries = 0]
    <3>1. e \in ServiceRecords /\ e.hub = "unconfirmed" /\ e.tries = 0
      <4>1. svc[s] \in ServiceRecords /\ 0 \in 0 .. MaxTries
        BY <1>0, ServiceAssumption DEF ServiceAssumption
      <4>2. QED
        BY <4>1 DEF ServiceRecords
    <3>2. svc'[s] = SendHeartbeat(e, ok)
      BY <1>0, <2>4 DEF Enable
    <3> HIDE DEF e
    <3>3. svc'[s].hub = "unconfirmed"
      BY <3>1, <3>2, EnabledHub
    <3>4. QED
      BY <2>1, <3>3, RestartsSearch DEF Hub
  <2>5. CASE /\ s = u
             /\ \/ Disable(u)
                \/ RemoveListener(u)
                \/ \E mode \in Modes, groups \in BOOLEAN :
                     AddListener(u, mode, groups)
    <3>1. svc'[s].hub = svc[s].hub
      <4>0. svc[s] \in ServiceRecords
        BY <1>0
      <4>1. CASE Disable(u)
        <5>1. svc'[s] = [svc[s] EXCEPT !.enabled = FALSE]
          BY <1>0, <2>5, <4>1 DEF Disable
        <5>2. QED
          BY <4>0, <5>1 DEF ServiceRecords
      <4>2. CASE RemoveListener(u)
        <5>1. svc'[s] = [svc[s] EXCEPT !.listener = FALSE]
          BY <1>0, <2>5, <4>2 DEF RemoveListener
        <5>2. QED
          BY <4>0, <5>1 DEF ServiceRecords
      <4>3. ASSUME NEW mode \in Modes, NEW groups \in BOOLEAN,
                   AddListener(u, mode, groups)
            PROVE  svc'[s].hub = svc[s].hub
        <5>1. svc'[s] = [svc[s] EXCEPT !.listener = TRUE, !.mode = mode,
                                       !.groups = groups]
          BY <1>0, <2>5, <4>3 DEF AddListener
        <5>2. QED
          BY <4>0, <5>1 DEF ServiceRecords
      <4>4. QED
        BY <2>5, <4>1, <4>2, <4>3
    <3>2. QED
      BY <2>1, <3>1, KeepsState DEF Hub
  <2>6. QED
    BY <1>1, <2>2, <2>3, <2>4, <2>5 DEF User
<1>2. ASSUME NEW ok, NEW fwd, Tick(ok, fwd)
      PROVE  Searches(s)
  <2>1. forwarded \subseteq forwarded'
    BY <1>0, <1>2, HubHearsStep DEF Tick
  <2>2. svc'[s] = IF s \in Listed THEN Ticked(svc[s], s \in ok) ELSE svc[s]
    BY <1>2 DEF Tick
  <2>3. (s \in ok) \in BOOLEAN
    OBVIOUS
  <2>4. \/ svc'[s].hub = svc[s].hub
        \/ svc[s].hub = "unconfirmed" /\ svc'[s].hub = "noecho"
    <3>1. CASE s \in Listed
      <4> DEFINE sent == s \in ok
      <4>1. svc'[s] = Ticked(svc[s], sent) /\ sent \in BOOLEAN
        BY <2>2, <2>3, <3>1
      <4> HIDE DEF sent
      <4>2. QED
        BY <1>0, <4>1, TickedHub
    <3>2. CASE s \notin Listed
      BY <2>2, <3>2
    <3>3. QED
      BY <3>1, <3>2
  <2>5. QED
    BY <2>1, <2>4, KeepsState, GivesUpSearch DEF Hub
<1>3. CASE RxReady
  <2> DEFINE m == Head(net)
  <2>1. /\ net # <<>> /\ UNCHANGED forwarded
        /\ svc'[s] = Seen(s, svc[s], m) \/ svc'[s] = svc[s]
    BY <1>3 DEF RxReady, Dispatch
  <2>2. m = net[1] /\ 1 \in 1 .. Len(net)
    BY <1>0, <2>1 DEF StackInv
  <2>3. m.schema = "heartbeat" /\ m.from = s => s \in forwarded
    BY <1>0, <2>2 DEF EchoInv
  <2> HIDE DEF m
  <2>4. \/ svc'[s].hub = svc[s].hub
        \/ /\ svc[s].hub # "confirmed" /\ svc'[s].hub = "confirmed"
           /\ s \in forwarded
    BY <1>0, <2>1, <2>3, SeenHub
  <2>5. QED
    BY <2>1, <2>4, KeepsState, ConfirmsHub DEF Hub
<1>4. CASE HubToggles \/ (\E m \in Traffic : OtherSends(m)) \/ UNCHANGED vars
  <2>1. UNCHANGED <<svc, forwarded>>
    BY <1>4 DEF HubToggles, OtherSends, vars
  <2>2. QED
    BY <2>1, KeepsState DEF Hub
<1>5. QED
  BY <1>1, <1>2, <1>3, <1>4 DEF Next

\* For any number of services, messages and intervals the stack implements
\* HubDiscovery for each service: "confirmed" (XplGetHubDiscoveryState) rests
\* on a heartbeat that the hub has forwarded.
THEOREM DiscoveryImplemented == SafeSpec => DiscoverySound
<1>1. Init => \A s \in Services : Disc(s)!Init
  BY DEF Init, NewRecord, Disc!Init
<1>2. IInv /\ [Next]_vars
        => [\A s \in Services :
              Disc(s)!Next \/ UNCHANGED Disc(s)!discVars]_vars
  BY SearchStep DEF Searches
<1>3. QED
  BY Invariant, <1>1, <1>2, PTL DEF SafeSpec, DiscoverySound

----------------------------------------------------------------------------
(***************************************************************************)
(* The text of messages (XplMessage).  First what parseBlock's loop does   *)
(* over a text, by induction on its length; then what it makes of a block  *)
(* that formatMessage writes, and of one that is cut off; then             *)
(* parseMessage against formatMessage; and last the invariant.             *)
(***************************************************************************)

(***************************************************************************)
(* Induction up to N: a set that has 0, and with each number below N the   *)
(* next one, has every number up to N.                                     *)
(***************************************************************************)
LEMMA UpTo ==
  ASSUME NEW N \in Nat, NEW S, 0 \in S,
         \A n \in 0 .. N - 1 : n \in S => n + 1 \in S
  PROVE  0 .. N \subseteq S
<1> DEFINE Less == OpToRel(<, Nat)
           Bad  == {n \in 0 .. N : n \notin S}
<1>1. \A x, y \in Nat : x < y => <<x, y>> \in Less
  BY DEF OpToRel
<1>2. IsWellFoundedOn(Less, Nat)
  BY NatLessThanWellFounded
<1>3. SUFFICES ASSUME Bad # {}
               PROVE  FALSE
  OBVIOUS
<1>4. Bad \in SUBSET Nat
  OBVIOUS
<1>5. PICK m \in Bad : \A k \in Bad : ~(<<k, m>> \in Less)
  <2> HIDE DEF Less, Bad
  <2>1. QED
    BY <1>2, <1>3, <1>4, WFMin
<1>6. m \in 1 .. N
  OBVIOUS
<1>7. m - 1 \notin Bad
  <2>1. m - 1 < m /\ m - 1 \in Nat /\ m \in Nat
    BY <1>6
  <2> HIDE DEF Less, Bad
  <2>2. QED
    BY <1>1, <1>5, <2>1
<1>8. m - 1 \in S /\ m - 1 \in 0 .. N - 1
  BY <1>6, <1>7
<1>9. (m - 1) + 1 = m
  BY <1>6
<1>10. QED
  BY <1>5, <1>8, <1>9

(***************************************************************************)
(* The loop of parseBlock.                                                 *)
(***************************************************************************)

\* What the loop keeps from one character to the next.
BlockStates ==
  [state : {"header", "brace", "open", "name", "value", "end", "done", "error"},
   header : Text, name : Text, word : Text,
   pairs : Seq(Text \X Text), pos : Nat]

\* The characters that the protocol's words are.
LEMMA Letters ==
  /\ LF \in Chars /\ Blank \in Chars /\ Pipe \in Chars
  /\ \A c \in {"=", "-", ".", "*", "1", "hop", "source", "target"} :
       c \in Plain /\ c \in Chars
  /\ \A t \in Types : t \in Plain /\ t \in Chars
  /\ "{" \in Chars /\ "}" \in Chars
  /\ Plain \subseteq Chars
  BY MessageAssumption DEF Chars

\* The loop keeps the type of its state.
LEMMA CollectType ==
  ASSUME NEW b \in BlockStates, NEW c \in Chars, NEW size
  PROVE  Collect(b, c, size) \in BlockStates
<1>1. Stored(c) \in Chars
  BY Letters DEF Stored
<1>2. Append(b.word, Stored(c)) \in Text
  BY <1>1, AppendProperties DEF BlockStates, Text
<1>3. QED
  BY <1>2 DEF Collect, BlockStates

LEMMA TurnType ==
  ASSUME NEW b \in BlockStates, NEW c \in Chars,
         b.state \notin {"error", "done"}
  PROVE  Turn(b, c) \in BlockStates
<1>1. <<>> \in Text
  BY EmptySeq DEF Text
<1>2. \A size : Collect(b, c, size) \in BlockStates
  BY CollectType
<1>3. Append(b.pairs, <<b.name, b.word>>) \in Seq(Text \X Text)
  <2>1. b.pairs \in Seq(Text \X Text) /\ <<b.name, b.word>> \in Text \X Text
    BY DEF BlockStates
  <2>2. QED
    BY <2>1, AppendProperties
<1> DEFINE more == Append(b.pairs, <<b.name, b.word>>)
<1>4. [b EXCEPT !.pairs = more, !.word = <<>>, !.state = "name"]
        \in BlockStates
  <2> HIDE DEF more
  <2>1. more \in Seq(Text \X Text)
    BY <1>3 DEF more
  <2>2. QED
    BY <1>1, <2>1 DEF BlockStates
<1>5. \A wanted, next \in {"open", "name", "done", "{", LF} :
        next \in {"open", "name", "done"} =>
          Expect(b, c, wanted, next) \in BlockStates
  BY <1>1 DEF Expect, BlockStates
<1>6. /\ Expect(b, c, "{", "open") \in BlockStates
      /\ Expect(b, c, LF, "name") \in BlockStates
      /\ Expect(b, c, LF, "done") \in BlockStates
  BY <1>5
<1>7. /\ [b EXCEPT !.header = b.word, !.state = "brace"] \in BlockStates
      /\ [b EXCEPT !.name = b.word, !.word = <<>>, !.state = "value"]
           \in BlockStates
      /\ [b EXCEPT !.state = "end"] \in BlockStates
  BY <1>1 DEF BlockStates
<1>8. InHeader(b, c) \in BlockStates
  BY <1>2, <1>7 DEF InHeader
<1>9. InName(b, c) \in BlockStates
  BY <1>2, <1>7 DEF InName
<1>10. InValue(b, c) \in BlockStates
  BY <1>2, <1>4 DEF InValue
<1>11. b.state \in {"header", "brace", "open", "name", "value", "end"}
  BY DEF BlockStates
<1>12. QED
  BY <1>6, <1>8, <1>9, <1>10, <1>11 DEF Turn

LEMMA LoopType ==
  ASSUME NEW b \in BlockStates, NEW c \in Chars
  PROVE  /\ Loop(b, c) \in BlockStates
         /\ Loop(b, c).pos <= b.pos + 1
<1>1. CASE b.state \in {"error", "done"}
  BY <1>1 DEF Loop, BlockStates
<1>2. CASE b.state \notin {"error", "done"}
  <2>1. Turn(b, c) \in BlockStates
    BY <1>2, TurnType
  <2> DEFINE t == Turn(b, c)
  <2>2. t.pos = b.pos
    <3>1. Collect(b, c, HeaderSize).pos = b.pos
      BY DEF Collect, BlockStates
    <3>2. Collect(b, c, WordSize).pos = b.pos
      BY DEF Collect, BlockStates
    <3>3. InHeader(b, c).pos = b.pos
      BY <3>1 DEF InHeader, BlockStates
    <3>4. InName(b, c).pos = b.pos
      BY <3>2 DEF InName, BlockStates
    <3>5. InValue(b, c).pos = b.pos
      <4>1. \A more : [b EXCEPT !.pairs = more, !.word = <<>>,
                              !.state = "name"].pos = b.pos
        BY DEF BlockStates
      <4>2. QED
        BY <3>2, <4>1 DEF InValue
    <3>6. /\ Expect(b, c, "{", "open").pos = b.pos
          /\ Expect(b, c, LF, "name").pos = b.pos
          /\ Expect(b, c, LF, "done").pos = b.pos
      BY DEF Expect, BlockStates
    <3>7. b.state \in {"header", "brace", "open", "name", "value", "end"}
      BY <1>2 DEF BlockStates
    <3>8. QED
      BY <3>3, <3>4, <3>5, <3>6, <3>7 DEF Turn
  <2>3. Loop(b, c) = [t EXCEPT !.pos = @ + 1]
    BY <1>2 DEF Loop
  <2> HIDE DEF t
  <2>4. t \in BlockStates
    BY <2>1 DEF t
  <2>5. t.pos + 1 \in Nat /\ t.pos + 1 <= b.pos + 1
    BY <2>2, <2>4 DEF BlockStates
  <2> DEFINE n == t.pos + 1
  <2>6. Loop(b, c) = [t EXCEPT !.pos = n]
    BY <2>3
  <2> HIDE DEF n
  <2>7. n \in Nat /\ n <= b.pos + 1
    BY <2>5 DEF n
  <2>8. QED
    BY <2>4, <2>6, <2>7 DEF BlockStates
<1>3. QED
  BY <1>1, <1>2

\* The states of the loop over the first n characters, for n up to Len(s).
Runs(b, s, g) ==
  /\ g \in [0 .. Len(s) -> BlockStates] /\ g[0] = b
  /\ \A n \in 1 .. Len(s) : g[n] = Loop(g[n - 1], s[n])

\* A run over a text exists, and Looped is where it ends.
LEMMA RunExists ==
  ASSUME NEW b \in BlockStates, NEW s \in Text
  PROVE  \E g : Runs(b, s, g)
<1>0. Len(s) \in Nat /\ \A n \in 1 .. Len(s) : s[n] \in Chars
  BY LenProperties, ElementOfSeq DEF Text
<1> DEFINE To(n, g) == /\ g \in [0 .. n -> BlockStates] /\ g[0] = b
                       /\ \A k \in 1 .. n : g[k] = Loop(g[k - 1], s[k])
           Good == {n \in 0 .. Len(s) : \E g : To(n, g)}
<1>1. 0 \in Good
  <2> DEFINE first == [n \in 0 .. 0 |-> b]
  <2>1. To(0, first)
    OBVIOUS
  <2> HIDE DEF first
  <2>2. QED
    BY <1>0, <2>1
<1>2. ASSUME NEW n \in 0 .. Len(s) - 1, n \in Good
      PROVE  n + 1 \in Good
  <2>1. PICK g : To(n, g)
    BY <1>2
  <2> DEFINE last == Loop(g[n], s[n + 1])
             h == [k \in 0 .. n + 1 |-> IF k = n + 1 THEN last ELSE g[k]]
  <2>2. n \in Nat /\ n + 1 \in 1 .. Len(s) /\ g[n] \in BlockStates
    BY <1>0, <2>1
  <2>3. last \in BlockStates
    BY <1>0, <2>2, LoopType
  <2> HIDE DEF last
  <2>4. \A k \in 0 .. n + 1 : k = n + 1 \/ (k \in 0 .. n /\ k # n + 1)
    BY <2>2
  <2>5. h \in [0 .. n + 1 -> BlockStates] /\ h[0] = b
    BY <2>1, <2>2, <2>3, <2>4
  <2>6. ASSUME NEW k \in 1 .. n + 1
        PROVE  h[k] = Loop(h[k - 1], s[k])
    <3>1. h[k - 1] = g[k - 1]
      BY <2>2
    <3>2. CASE k = n + 1
      <4>1. h[k] = last /\ k - 1 = n
        BY <2>2, <3>2
      <4>2. QED
        BY <3>1, <3>2, <4>1 DEF last
    <3>3. CASE k # n + 1
      <4>1. k \in 1 .. n /\ h[k] = g[k]
        BY <2>2, <3>3
      <4>2. QED
        BY <2>1, <3>1, <4>1
    <3>4. QED
      BY <3>2, <3>3
  <2> HIDE DEF h
  <2>7. To(n + 1, h)
    BY <2>5, <2>6
  <2>8. QED
    BY <2>2, <2>7
<1>3. Len(s) \in Good
  <2> HIDE DEF Good
  <2>1. 0 .. Len(s) \subseteq Good
    BY <1>0, <1>1, <1>2, UpTo
  <2>2. QED
    BY <1>0, <2>1
<1>4. QED
  BY <1>3 DEF Runs

\* There is only one.
LEMMA RunUnique ==
  ASSUME NEW b, NEW s \in Text, NEW g, NEW h, Runs(b, s, g), Runs(b, s, h)
  PROVE  \A n \in 0 .. Len(s) : g[n] = h[n]
<1>0. Len(s) \in Nat
  BY LenProperties DEF Text
<1> DEFINE Same == {n \in 0 .. Len(s) : g[n] = h[n]}
<1>1. 0 \in Same
  BY <1>0 DEF Runs
<1>2. \A n \in 0 .. Len(s) - 1 : n \in Same => n + 1 \in Same
  BY <1>0 DEF Runs
<1>3. 0 .. Len(s) \subseteq Same
  <2> HIDE DEF Same
  <2>1. QED
    BY <1>0, <1>1, <1>2, UpTo
<1>4. QED
  BY <1>3

LEMMA LoopedIs ==
  ASSUME NEW b \in BlockStates, NEW s \in Text
  PROVE  \E g : Runs(b, s, g) /\ Looped(b, s) = g[Len(s)]
<1> DEFINE after[n \in 0 .. Len(s)] ==
             IF n = 0 THEN b ELSE Loop(after[n - 1], s[n])
<1>1. Len(s) \in Nat
  BY LenProperties DEF Text
<1>2. PICK g : Runs(b, s, g)
  BY RunExists
<1>3. g = [n \in 0 .. Len(s) |-> IF n = 0 THEN b ELSE Loop(g[n - 1], s[n])]
  BY <1>1, <1>2 DEF Runs
<1>4. after = [n \in 0 .. Len(s) |->
                 IF n = 0 THEN b ELSE Loop(after[n - 1], s[n])]
  BY <1>3
<1>5. Looped(b, s) = after[Len(s)]
  BY DEF Looped
<1> HIDE DEF after
<1>6. /\ after[0] = b
      /\ \A n \in 1 .. Len(s) : after[n] = Loop(after[n - 1], s[n])
  BY <1>1, <1>4
<1> DEFINE Good == {n \in 0 .. Len(s) : after[n] = g[n]}
<1>7. 0 \in Good
  BY <1>1, <1>2, <1>6 DEF Runs
<1>8. \A n \in 0 .. Len(s) - 1 : n \in Good => n + 1 \in Good
  BY <1>1, <1>2, <1>6 DEF Runs
<1>9. 0 .. Len(s) \subseteq Good
  <2> HIDE DEF Good
  <2>1. QED
    BY <1>1, <1>7, <1>8, UpTo
<1>10. QED
  BY <1>1, <1>2, <1>5, <1>9

LEMMA LoopedType ==
  ASSUME NEW b \in BlockStates, NEW s \in Text
  PROVE  Looped(b, s) \in BlockStates
<1>1. Len(s) \in 0 .. Len(s)
  BY LenProperties DEF Text
<1>2. QED
  BY <1>1, LoopedIs DEF Runs

\* The loop over no character, and over one.
LEMMA LoopedEmpty ==
  ASSUME NEW b \in BlockStates
  PROVE  Looped(b, <<>>) = b
<1>1. <<>> \in Text /\ Len(<<>>) = 0
  BY EmptySeq DEF Text
<1>2. QED
  BY <1>1, LoopedIs DEF Runs

LEMMA LoopedOne ==
  ASSUME NEW b \in BlockStates, NEW c \in Chars
  PROVE  Looped(b, <<c>>) = Loop(b, c)
<1>1. <<c>> \in Text /\ Len(<<c>>) = 1 /\ <<c>>[1] = c
  BY DEF Text
<1> DEFINE s == <<c>>
<1> HIDE DEF s
<1>2. PICK g : Runs(b, s, g) /\ Looped(b, s) = g[1]
  BY <1>1, LoopedIs DEF s
<1>3. g[1] = Loop(g[1 - 1], s[1]) /\ g[0] = b
  BY <1>1, <1>2 DEF Runs, s
<1>4. QED
  BY <1>1, <1>2, <1>3 DEF s

\* A run over a concatenation is two, one after the other.
LEMMA LoopedConcat ==
  ASSUME NEW b \in BlockStates, NEW s \in Text, NEW t \in Text
  PROVE  Looped(b, s \o t) = Looped(Looped(b, s), t)
<1> DEFINE u == s \o t
<1>1. /\ u \in Text /\ Len(u) = Len(s) + Len(t)
      /\ Len(s) \in Nat /\ Len(t) \in Nat
      /\ \A n \in 1 .. Len(s) : u[n] = s[n]
      /\ \A n \in 1 .. Len(t) : u[Len(s) + n] = t[n]
  BY ConcatProperties, LenProperties DEF Text
<1> HIDE DEF u
<1>2. PICK g : Runs(b, u, g) /\ Looped(b, u) = g[Len(u)]
  BY <1>1, LoopedIs
<1> DEFINE x == [n \in 0 .. Len(s) |-> g[n]]
           y == [n \in 0 .. Len(t) |-> g[Len(s) + n]]
<1>3. Runs(b, s, x)
  BY <1>1, <1>2 DEF Runs
<1>4. PICK p : Runs(b, s, p) /\ Looped(b, s) = p[Len(s)]
  BY LoopedIs
<1>5. Looped(b, s) = g[Len(s)]
  <2>1. x[Len(s)] = p[Len(s)]
    <3> HIDE DEF x
    <3>1. QED
      BY <1>1, <1>3, <1>4, RunUnique
  <2>2. QED
    BY <1>1, <1>4, <2>1
<1> DEFINE d == g[Len(s)]
<1>6. d \in BlockStates
  BY <1>1, <1>2 DEF Runs
<1>7. Runs(d, t, y)
  <2>1. y \in [0 .. Len(t) -> BlockStates] /\ y[0] = d
    BY <1>1, <1>2 DEF Runs
  <2>2. ASSUME NEW n \in 1 .. Len(t)
        PROVE  y[n] = Loop(y[n - 1], t[n])
    <3>1. Len(s) + n \in 1 .. Len(u) /\ (Len(s) + n) - 1 = Len(s) + (n - 1)
      BY <1>1
    <3>2. g[Len(s) + n] = Loop(g[Len(s) + (n - 1)], u[Len(s) + n])
      BY <1>2, <3>1 DEF Runs
    <3>3. y[n] = g[Len(s) + n] /\ y[n - 1] = g[Len(s) + (n - 1)]
      BY <1>1
    <3>4. QED
      BY <1>1, <3>2, <3>3
  <2>3. QED
    BY <2>1, <2>2 DEF Runs
<1>8. PICK q : Runs(d, t, q) /\ Looped(d, t) = q[Len(t)]
  BY <1>6, LoopedIs
<1>9. y[Len(t)] = q[Len(t)]
  <2> HIDE DEF y, d
  <2>1. QED
    BY <1>1, <1>7, <1>8, RunUnique
<1>10. y[Len(t)] = g[Len(u)]
  BY <1>1
<1>11. QED
  BY <1>2, <1>5, <1>8, <1>9, <1>10 DEF u

\* A block that has ended stays as it is.
LEMMA LoopedStopped ==
  ASSUME NEW b \in BlockStates, NEW s \in Text, b.state \in {"error", "done"}
  PROVE  Looped(b, s) = b
<1>0. Len(s) \in Nat
  BY LenProperties DEF Text
<1>1. PICK g : Runs(b, s, g) /\ Looped(b, s) = g[Len(s)]
  BY LoopedIs
<1> DEFINE Same == {n \in 0 .. Len(s) : g[n] = b}
<1>2. 0 \in Same
  BY <1>0, <1>1 DEF Runs
<1>3. \A n \in 0 .. Len(s) - 1 : n \in Same => n + 1 \in Same
  BY <1>0, <1>1 DEF Runs, Loop
<1>4. 0 .. Len(s) \subseteq Same
  <2> HIDE DEF Same
  <2>1. QED
    BY <1>0, <1>2, <1>3, UpTo
<1>5. QED
  BY <1>0, <1>1, <1>4

\* The position is at most one character further for each.
LEMMA LoopedPos ==
  ASSUME NEW b \in BlockStates, NEW s \in Text
  PROVE  Looped(b, s).pos <= b.pos + Len(s)
<1>0. Len(s) \in Nat /\ b.pos \in Nat
      /\ \A n \in 1 .. Len(s) : s[n] \in Chars
  BY LenProperties, ElementOfSeq DEF Text, BlockStates
<1>1. PICK g : Runs(b, s, g) /\ Looped(b, s) = g[Len(s)]
  BY LoopedIs
<1> DEFINE Good == {n \in 0 .. Len(s) : g[n].pos <= b.pos + n}
<1>2. 0 \in Good
  BY <1>0, <1>1 DEF Runs
<1>3. ASSUME NEW n \in 0 .. Len(s) - 1, n \in Good
      PROVE  n + 1 \in Good
  <2>1. /\ n \in Nat /\ n + 1 \in 1 .. Len(s) /\ (n + 1) - 1 = n
        /\ n \in 0 .. Len(s) /\ n + 1 \in 0 .. Len(s)
    BY <1>0
  <2>2. g[n + 1] = Loop(g[n], s[n + 1]) /\ g[n] \in BlockStates
        /\ g[n + 1] \in BlockStates
    BY <1>1, <2>1 DEF Runs
  <2>3. g[n + 1].pos <= g[n].pos + 1
    BY <1>0, <2>1, <2>2, LoopType
  <2>4. g[n].pos \in Nat /\ g[n + 1].pos \in Nat
    BY <2>2 DEF BlockStates
  <2>5. g[n + 1].pos <= b.pos + (n + 1)
    BY <1>0, <1>3, <2>1, <2>3, <2>4
  <2>6. QED
    BY <2>1, <2>5
<1>4. 0 .. Len(s) \subseteq Good
  <2> HIDE DEF Good
  <2>1. QED
    BY <1>0, <1>2, <1>3, UpTo
<1>5. QED
  BY <1>0, <1>1, <1>4

\* A block has been begun once a character is kept.
Begun(b) == b.state # "header" \/ b.word # <<>>

LEMMA LoopBegun ==
  ASSUME NEW b \in BlockStates, NEW c \in Chars, Begun(b) \/ c \notin Junk
  PROVE  Begun(Loop(b, c))
<1>1. CASE b.state \in {"error", "done"}
  BY <1>1 DEF Loop, Begun
<1>2. CASE b.state \notin {"error", "done"}
  <2>1. Stored(c) \in Chars
    BY Letters DEF Stored
  <2>2. Append(b.word, Stored(c)) # <<>>
    <3>1. b.word \in Seq(Chars)
      BY DEF BlockStates, Text
    <3>2. QED
      BY <2>1, <3>1, AppendProperties
  <2>3. ASSUME NEW size
        PROVE  Begun(Collect(b, c, size))
    <3> DEFINE w == Append(b.word, Stored(c))
    <3> HIDE DEF w
    <3>1. [b EXCEPT !.word = w].word = w
      BY DEF BlockStates
    <3>2. [b EXCEPT !.state = "error"].state = "error"
      BY DEF BlockStates
    <3>3. w # <<>>
      BY <2>2 DEF w
    <3>4. QED
      BY <3>1, <3>2, <3>3 DEF Collect, Begun, w
  <2>4. CASE b.state = "header"
    <3>1. ~(b.word = <<>> /\ c \in Junk)
      BY <2>4 DEF Begun
    <3>2. [b EXCEPT !.header = b.word, !.state = "brace"].state = "brace"
      BY DEF BlockStates
    <3>3. Begun(InHeader(b, c))
      BY <2>3, <3>1, <3>2 DEF InHeader, Begun
    <3>4. Turn(b, c) = InHeader(b, c) /\ Turn(b, c) \in BlockStates
      BY <1>2, <2>4, TurnType DEF Turn
    <3>5. \A t \in BlockStates : \A n :
            Begun(t) => Begun([t EXCEPT !.pos = n])
      BY DEF BlockStates, Begun
    <3>6. QED
      BY <1>2, <3>3, <3>4, <3>5 DEF Loop
  <2>5. CASE b.state # "header"
    <3>1. Collect(b, c, WordSize).state # "header"
      BY <2>5 DEF Collect, BlockStates
    <3>2. InName(b, c).state # "header"
      BY <3>1 DEF InName, BlockStates
    <3>3. InValue(b, c).state # "header"
      <4>1. \A more : [b EXCEPT !.pairs = more, !.word = <<>>,
                              !.state = "name"].state = "name"
        BY DEF BlockStates
      <4>2. QED
        BY <3>1, <4>1 DEF InValue
    <3>4. \A w, n \in {"{", LF, "open", "name", "done"} :
            n # LF /\ n # "{" => Expect(b, c, w, n).state # "header"
      BY DEF Expect, BlockStates
    <3>5. b.state \in {"brace", "open", "name", "value", "end"}
      BY <1>2, <2>5 DEF BlockStates
    <3>6. Turn(b, c).state # "header"
      BY <3>2, <3>3, <3>4, <3>5 DEF Turn, LF
    <3>7. \A t \in BlockStates : \A n : [t EXCEPT !.pos = n].state = t.state
      BY DEF BlockStates
    <3>8. Turn(b, c) \in BlockStates
      BY <1>2, TurnType
    <3>9. QED
      BY <1>2, <3>6, <3>7, <3>8 DEF Loop, Begun
  <2>6. QED
    BY <2>4, <2>5
<1>3. QED
  BY <1>1, <1>2

\* A block that is begun stays begun.
LEMMA LoopedBegun ==
  ASSUME NEW b \in BlockStates, NEW s \in Text, Begun(b)
  PROVE  Begun(Looped(b, s))
<1>0. Len(s) \in Nat /\ \A n \in 1 .. Len(s) : s[n] \in Chars
  BY LenProperties, ElementOfSeq DEF Text
<1>1. PICK g : Runs(b, s, g) /\ Looped(b, s) = g[Len(s)]
  BY LoopedIs
<1> DEFINE Good == {n \in 0 .. Len(s) : Begun(g[n])}
<1>2. 0 \in Good
  BY <1>0, <1>1 DEF Runs
<1>3. ASSUME NEW n \in 0 .. Len(s) - 1, n \in Good
      PROVE  n + 1 \in Good
  <2>1. /\ n + 1 \in 1 .. Len(s) /\ (n + 1) - 1 = n
        /\ n \in 0 .. Len(s) /\ n + 1 \in 0 .. Len(s)
    BY <1>0
  <2>2. g[n + 1] = Loop(g[n], s[n + 1]) /\ g[n] \in BlockStates
    BY <1>1, <2>1 DEF Runs
  <2>3. Begun(g[n + 1])
    BY <1>0, <1>3, <2>1, <2>2, LoopBegun
  <2>4. QED
    BY <2>1, <2>3
<1>4. 0 .. Len(s) \subseteq Good
  <2> HIDE DEF Good
  <2>1. QED
    BY <1>0, <1>2, <1>3, UpTo
<1>5. QED
  BY <1>0, <1>1, <1>4

(***************************************************************************)
(* What parseBlock makes of a block of formatMessage.                      *)
(***************************************************************************)

\* A state of the loop.
Standing(st, h, nm, w, ps, n) ==
  [state |-> st, header |-> h, name |-> nm, word |-> w, pairs |-> ps, pos |-> n]

LEMMA StateFields ==
  ASSUME NEW st, NEW h, NEW nm, NEW w, NEW ps, NEW n, NEW b,
         b = Standing(st, h, nm, w, ps, n)
  PROVE  /\ b.state = st /\ b.header = h /\ b.name = nm /\ b.word = w
         /\ b.pairs = ps /\ b.pos = n
  BY DEF Standing

\* A turn of the loop counts its character.
LEMMA LoopCounts ==
  ASSUME NEW st, NEW h, NEW nm, NEW w, NEW ps, NEW n, NEW b, NEW c,
         b.state \notin {"error", "done"},
         Turn(b, c) = Standing(st, h, nm, w, ps, n)
  PROVE  Loop(b, c) = Standing(st, h, nm, w, ps, n + 1)
<1> DEFINE t == Turn(b, c)
<1>1. Loop(b, c) = [t EXCEPT !.pos = @ + 1]
  BY DEF Loop
<1> HIDE DEF t
<1>2. t = Standing(st, h, nm, w, ps, n)
  BY DEF t
<1>3. t.pos = n
  BY <1>2 DEF Standing
<1>4. [t EXCEPT !.pos = n + 1] = Standing(st, h, nm, w, ps, n + 1)
  BY <1>2 DEF Standing
<1>5. QED
  BY <1>1, <1>3, <1>4

\* The characters around names, values and the body of a block.
LEMMA LoopHeader ==
  ASSUME NEW h, NEW nm, NEW w, NEW ps, NEW n, w # <<>>
  PROVE  Loop(Standing("header", h, nm, w, ps, n), LF)
           = Standing("brace", w, nm, w, ps, n + 1)
<1> DEFINE b == Standing("header", h, nm, w, ps, n)
<1>1. b.state = "header" /\ b.word = w
  BY DEF Standing
<1>2. [b EXCEPT !.header = w, !.state = "brace"]
        = Standing("brace", w, nm, w, ps, n)
  <2>1. [b EXCEPT !.header = w, !.state = "brace"]
          = [[b EXCEPT !.header = w] EXCEPT !.state = "brace"]
    OBVIOUS
  <2>2. [b EXCEPT !.header = w]
          = Standing("header", w, nm, w, ps, n)
    BY DEF Standing
  <2>3. [Standing("header", w, nm, w, ps, n) EXCEPT !.state = "brace"]
          = Standing("brace", w, nm, w, ps, n)
    BY DEF Standing
  <2>4. QED
    BY <2>1, <2>2, <2>3
<1> HIDE DEF b
<1>3. Turn(b, LF) = Standing("brace", w, nm, w, ps, n)
  BY <1>1, <1>2 DEF Turn, InHeader
<1>4. Loop(b, LF) = Standing("brace", w, nm, w, ps, n + 1)
  BY <1>1, <1>3, LoopCounts
<1>5. QED
  BY <1>4 DEF b

\* What parseBlock has to find, and where it is then.
Wanted(st, c, next) ==
  \/ st = "brace" /\ c = "{" /\ next = "open"
  \/ st = "open" /\ c = LF /\ next = "name"
  \/ st = "end" /\ c = LF /\ next = "done"

\* parseBlock at the brace, at its line feed and after the closing brace.
LEMMA LoopWanted ==
  ASSUME NEW h, NEW nm, NEW w, NEW ps, NEW n,
         NEW st, NEW next, NEW c, Wanted(st, c, next)
  PROVE  Loop(Standing(st, h, nm, w, ps, n), c)
           = Standing(next, h, nm, <<>>, ps, n + 1)
<1> DEFINE b == Standing(st, h, nm, w, ps, n)
<1>1. b.state = st
  BY DEF Standing
<1>2. [b EXCEPT !.state = next, !.word = <<>>]
        = Standing(next, h, nm, <<>>, ps, n)
  <2>1. [b EXCEPT !.state = next, !.word = <<>>]
          = [[b EXCEPT !.state = next] EXCEPT !.word = <<>>]
    OBVIOUS
  <2>2. [b EXCEPT !.state = next]
          = Standing(next, h, nm, w, ps, n)
    BY DEF Standing
  <2>3. [Standing(next, h, nm, w, ps, n) EXCEPT !.word = <<>>]
          = Standing(next, h, nm, <<>>, ps, n)
    BY DEF Standing
  <2>4. QED
    BY <2>1, <2>2, <2>3
<1> HIDE DEF b
<1>3. Turn(b, c) = Expect(b, c, c, next) /\ st \notin {"error", "done"}
  BY <1>1 DEF Turn, Wanted
<1>4. Expect(b, c, c, next) = [b EXCEPT !.state = next, !.word = <<>>]
  BY DEF Expect
<1>5. Loop(b, c) = Standing(next, h, nm, <<>>, ps, n + 1)
  BY <1>1, <1>2, <1>3, <1>4, LoopCounts
<1>6. QED
  BY <1>5 DEF b

LEMMA LoopBrace ==
  ASSUME NEW h, NEW nm, NEW w, NEW ps, NEW n
  PROVE  Loop(Standing("brace", h, nm, w, ps, n), "{")
           = Standing("open", h, nm, <<>>, ps, n + 1)
<1>1. Wanted("brace", "{", "open")
  BY DEF Wanted
<1>2. \A c : Wanted("brace", c, "open") =>
             Loop(Standing("brace", h, nm, w, ps, n), c)
               = Standing("open", h, nm, <<>>, ps, n + 1)
  BY LoopWanted
<1>3. QED
  BY <1>1, <1>2

LEMMA LoopOpen ==
  ASSUME NEW h, NEW nm, NEW w, NEW ps, NEW n
  PROVE  Loop(Standing("open", h, nm, w, ps, n), LF)
           = Standing("name", h, nm, <<>>, ps, n + 1)
<1>1. Wanted("open", LF, "name")
  BY DEF Wanted
<1>2. QED
  BY <1>1, LoopWanted

LEMMA LoopLast ==
  ASSUME NEW h, NEW nm, NEW w, NEW ps, NEW n
  PROVE  Loop(Standing("end", h, nm, w, ps, n), LF)
           = Standing("done", h, nm, <<>>, ps, n + 1)
<1>1. Wanted("end", LF, "done")
  BY DEF Wanted
<1>2. QED
  BY <1>1, LoopWanted

\* The end of a name, of the pairs and of a value.
LEMMA LoopName ==
  ASSUME NEW h, NEW nm, NEW w, NEW ps, NEW n
  PROVE  Loop(Standing("name", h, nm, w, ps, n), "=")
           = Standing("value", h, w, <<>>, ps, n + 1)
<1> DEFINE b == Standing("name", h, nm, w, ps, n)
<1>1. b.state = "name" /\ b.word = w
  BY DEF Standing
<1>2. [b EXCEPT !.name = w, !.word = <<>>, !.state = "value"]
        = Standing("value", h, w, <<>>, ps, n)
  <2>1. [b EXCEPT !.name = w, !.word = <<>>, !.state = "value"]
          = [[[b EXCEPT !.name = w] EXCEPT !.word = <<>>]
               EXCEPT !.state = "value"]
    OBVIOUS
  <2>2. [b EXCEPT !.name = w] = Standing("name", h, w, w, ps, n)
    BY DEF Standing
  <2>3. [Standing("name", h, w, w, ps, n) EXCEPT !.word = <<>>]
          = Standing("name", h, w, <<>>, ps, n)
    BY DEF Standing
  <2>4. [Standing("name", h, w, <<>>, ps, n) EXCEPT !.state = "value"]
          = Standing("value", h, w, <<>>, ps, n)
    BY DEF Standing
  <2>5. QED
    BY <2>1, <2>2, <2>3, <2>4
<1> HIDE DEF b
<1>3. Turn(b, "=") = Standing("value", h, w, <<>>, ps, n)
  BY <1>1, <1>2 DEF Turn, InName
<1>4. b.state \notin {"error", "done"}
  BY <1>1
<1>5. \A c : Turn(b, c) = Standing("value", h, w, <<>>, ps, n)
               => Loop(b, c) = Standing("value", h, w, <<>>, ps, n + 1)
  BY <1>4, LoopCounts
<1>6. Loop(b, "=") = Standing("value", h, w, <<>>, ps, n + 1)
  BY <1>3, <1>5
<1>7. QED
  BY <1>6 DEF b

LEMMA LoopEnd ==
  ASSUME NEW h, NEW nm, NEW w, NEW ps, NEW n
  PROVE  Loop(Standing("name", h, nm, w, ps, n), "}")
           = Standing("end", h, nm, w, ps, n + 1)
<1> DEFINE b == Standing("name", h, nm, w, ps, n)
<1>1. b.state = "name" /\ b.word = w
  BY DEF Standing
<1>2. [b EXCEPT !.state = "end"] = Standing("end", h, nm, w, ps, n)
  BY DEF Standing
<1> HIDE DEF b
<1>3. Turn(b, "}") = Standing("end", h, nm, w, ps, n)
  BY <1>1, <1>2 DEF Turn, InName
<1>4. b.state \notin {"error", "done"}
  BY <1>1
<1>5. \A c : Turn(b, c) = Standing("end", h, nm, w, ps, n)
               => Loop(b, c) = Standing("end", h, nm, w, ps, n + 1)
  BY <1>4, LoopCounts
<1>6. Loop(b, "}") = Standing("end", h, nm, w, ps, n + 1)
  BY <1>3, <1>5
<1>7. QED
  BY <1>6 DEF b

LEMMA LoopValue ==
  ASSUME NEW h, NEW nm, NEW w, NEW ps, NEW n
  PROVE  Loop(Standing("value", h, nm, w, ps, n), LF)
           = Standing("name", h, nm, <<>>, Append(ps, <<nm, w>>), n + 1)
<1> DEFINE b == Standing("value", h, nm, w, ps, n)
           more == Append(ps, <<nm, w>>)
<1>1. /\ b.state = "value" /\ b.word = w /\ b.name = nm /\ b.pairs = ps
  BY DEF Standing
<1>3. Append(b.pairs, <<b.name, b.word>>) = more
  BY <1>1
<1> HIDE DEF more
<1>2. [b EXCEPT !.pairs = more, !.word = <<>>, !.state = "name"]
        = Standing("name", h, nm, <<>>, more, n)
  <2>1. [b EXCEPT !.pairs = more, !.word = <<>>, !.state = "name"]
          = [[[b EXCEPT !.pairs = more] EXCEPT !.word = <<>>]
             EXCEPT !.state = "name"]
    OBVIOUS
  <2>2. [b EXCEPT !.pairs = more]
          = Standing("value", h, nm, w, more, n)
    BY DEF Standing
  <2>3. [Standing("value", h, nm, w, more, n) EXCEPT !.word = <<>>]
          = Standing("value", h, nm, <<>>, more, n)
    BY DEF Standing
  <2>4. [Standing("value", h, nm, <<>>, more, n) EXCEPT !.state = "name"]
          = Standing("name", h, nm, <<>>, more, n)
    BY DEF Standing
  <2>5. QED
    BY <2>1, <2>2, <2>3, <2>4
<1> HIDE DEF b
<1>4. Turn(b, LF) = Standing("name", h, nm, <<>>, more, n)
  BY <1>1, <1>2, <1>3 DEF Turn, InValue
<1>5. Loop(b, LF) = Standing("name", h, nm, <<>>, more, n + 1)
  BY <1>1, <1>4, LoopCounts
<1>6. QED
  BY <1>5 DEF b, more

\* A character of a word is kept if the word has room for it.
HasRoom(st, size, w, c) ==
  /\ c \in Plain \union {Blank} /\ Len(w) < size - 1
  /\ \/ st = "header" /\ size = HeaderSize /\ (w # <<>> \/ c # Blank)
     \/ st = "name" /\ size = WordSize /\ c # "="
     \/ st = "value" /\ size = WordSize

\* A character that is kept.
LEMMA LoopKeeps ==
  ASSUME NEW st, NEW h, NEW nm, NEW w, NEW ps, NEW n, NEW size, NEW c,
         HasRoom(st, size, w, c)
  PROVE  Loop(Standing(st, h, nm, w, ps, n), c)
           = Standing(st, h, nm, Append(w, c), ps, n + 1)
<1> DEFINE b == Standing(st, h, nm, w, ps, n)
           v == Append(w, c)
<1>0. /\ c \in Plain \union {Blank} /\ Len(w) < size - 1
      /\ \/ st = "header" /\ size = HeaderSize /\ (w # <<>> \/ c # Blank)
         \/ st = "name" /\ size = WordSize /\ c # "="
         \/ st = "value" /\ size = WordSize
  BY DEF HasRoom
<1>1. b.state = st /\ b.word = w
  BY DEF Standing
<1> HIDE DEF v
<1>2. [b EXCEPT !.word = v] = Standing(st, h, nm, v, ps, n)
  BY DEF Standing
<1>3. c # LF /\ c # "}" /\ c \notin Control
  BY <1>0, MessageAssumption DEF LF, Blank
<1>4. Append(b.word, Stored(c)) = v
  BY <1>0, <1>1 DEF Stored, v
<1> HIDE DEF b
<1>5. Collect(b, c, size) = Standing(st, h, nm, v, ps, n)
  BY <1>0, <1>1, <1>2, <1>4 DEF Collect
<1>6. Turn(b, c) = Collect(b, c, size)
  <2>1. CASE st = "header" /\ size = HeaderSize /\ (w # <<>> \/ c # Blank)
    <3>1. ~(b.word = <<>> /\ c \in Junk)
      BY <1>1, <1>3, <2>1 DEF Junk
    <3>2. QED
      BY <1>1, <1>3, <2>1, <3>1 DEF Turn, InHeader
  <2>2. CASE st = "name" /\ size = WordSize /\ c # "="
    BY <1>1, <1>3, <2>2 DEF Turn, InName
  <2>3. CASE st = "value" /\ size = WordSize
    BY <1>1, <1>3, <2>3 DEF Turn, InValue
  <2>4. QED
    BY <1>0, <2>1, <2>2, <2>3
<1>7. st \notin {"error", "done"}
  BY <1>0
<1>8. Loop(b, c) = Standing(st, h, nm, v, ps, n + 1)
  BY <1>1, <1>5, <1>6, <1>7, LoopCounts
<1>9. QED
  BY <1>8 DEF b, v

LEMMA StandingType ==
  ASSUME NEW st \in {"header", "brace", "open", "name", "value", "end", "done"},
         NEW h \in Text, NEW nm \in Text, NEW w \in Text,
         NEW ps \in Seq(Text \X Text), NEW n \in Nat
  PROVE  Standing(st, h, nm, w, ps, n) \in BlockStates
  BY DEF Standing, BlockStates

\* A sequence cut into two.
LEMMA CutParts ==
  ASSUME NEW S, NEW s \in Seq(S), NEW n \in 0 .. Len(s)
  PROVE  /\ SubSeq(s, 1, n) \in Seq(S) /\ Len(SubSeq(s, 1, n)) = n
         /\ \A i \in 1 .. n : SubSeq(s, 1, n)[i] = s[i]
         /\ n # 0 => SubSeq(s, 1, n) = Append(SubSeq(s, 1, n - 1), s[n])
         /\ SubSeq(s, n + 1, Len(s)) \in Seq(S)
         /\ Len(SubSeq(s, n + 1, Len(s))) = Len(s) - n
         /\ s = SubSeq(s, 1, n) \o SubSeq(s, n + 1, Len(s))
<1>0. /\ s \in Seq(S) /\ Len(s) \in Nat /\ n \in Nat /\ n <= Len(s)
      /\ \A i \in 1 .. Len(s) : s[i] \in S
  BY LenProperties, ElementOfSeq
<1>1. \A k \in 0 .. Len(s) :
        /\ SubSeq(s, 1, k) \in Seq(S) /\ Len(SubSeq(s, 1, k)) = k
        /\ \A i \in 1 .. k : SubSeq(s, 1, k)[i] = s[i]
  <2>1. TAKE k \in 0 .. Len(s)
  <2>2. k \in Nat /\ \A i \in 1 .. k : s[i] \in S
    BY <1>0, <2>1
  <2>3. /\ SubSeq(s, 1, k) \in Seq(S)
        /\ Len(SubSeq(s, 1, k)) = IF 1 <= k THEN k - 1 + 1 ELSE 0
        /\ \A i \in 1 .. k - 1 + 1 : SubSeq(s, 1, k)[i] = s[1 + i - 1]
    BY <2>2, SubSeqProperties
  <2>4. \A i \in 1 .. k : 1 + i - 1 = i
    OBVIOUS
  <2>5. QED
    BY <2>2, <2>3, <2>4
<1>2. ASSUME n # 0
      PROVE  SubSeq(s, 1, n) = Append(SubSeq(s, 1, n - 1), s[n])
  <2>1. SubSeq(s, 1, n) = SubSeq(s, 1, n - 1) \o <<s[n]>>
    BY <1>0, <1>2, SubSeqRecursiveSecond
  <2>2. SubSeq(s, 1, n - 1) \in Seq(S) /\ s[n] \in S
    BY <1>0, <1>1, <1>2
  <2>3. QED
    BY <2>1, <2>2, AppendIsConcat
<1>3. /\ SubSeq(s, n + 1, Len(s)) \in Seq(S)
      /\ Len(SubSeq(s, n + 1, Len(s))) = Len(s) - n
  <2>1. \A i \in n + 1 .. Len(s) : s[i] \in S
    BY <1>0
  <2>2. /\ SubSeq(s, n + 1, Len(s)) \in Seq(S)
        /\ Len(SubSeq(s, n + 1, Len(s)))
             = IF n + 1 <= Len(s) THEN Len(s) - (n + 1) + 1 ELSE 0
    BY <1>0, <2>1, SubSeqProperties
  <2> DEFINE rest == SubSeq(s, n + 1, Len(s))
  <2> HIDE DEF rest
  <2>3. rest \in Seq(S)
        /\ Len(rest) = IF n + 1 <= Len(s) THEN Len(s) - (n + 1) + 1 ELSE 0
    BY <2>2 DEF rest
  <2>4. Len(rest) = Len(s) - n
    BY <1>0, <2>3
  <2>5. QED
    BY <2>3, <2>4 DEF rest
<1>4. s = SubSeq(s, 1, n) \o SubSeq(s, n + 1, Len(s))
  <2>1. SubSeq(s, 1, n) \o SubSeq(s, n + 1, Len(s)) = SubSeq(s, 1, Len(s))
    <3>1. /\ 1 \in 1 .. Len(s) + 1 /\ n \in 1 - 1 .. Len(s)
          /\ Len(s) \in n .. Len(s) /\ s \in Seq(S)
      BY <1>0
    <3>2. QED
      BY <3>1, ConcatAdjacentSubSeq
  <2>2. QED
    BY <1>0, <2>1, SubSeqFull
<1>5. QED
  BY <1>0, <1>1, <1>2, <1>3, <1>4

\* A word that fits and has no character that would end it is kept.
FitsWord(st, w) ==
  /\ w \in Text /\ Clean(w)
  /\ \/ st = "header" /\ Len(w) < HeaderSize /\ w[1] # Blank
     \/ st = "name" /\ Len(w) < WordSize /\ \A i \in 1 .. Len(w) : w[i] # "="
     \/ st = "value" /\ Len(w) < WordSize

\* A name or a value that fits into the buffer is read whole.
LEMMA LoopedWord ==
  ASSUME NEW st, NEW h \in Text, NEW nm \in Text,
         NEW ps \in Seq(Text \X Text), NEW n \in Nat,
         NEW w, FitsWord(st, w)
  PROVE  Looped(Standing(st, h, nm, <<>>, ps, n), w)
           = Standing(st, h, nm, w, ps, n + Len(w))
<1> DEFINE size == IF st = "header" THEN HeaderSize ELSE WordSize
<1>a. /\ w \in Text /\ Clean(w) /\ Len(w) < size /\ size \in Nat
      /\ \/ st = "header" /\ size = HeaderSize /\ w[1] # Blank
         \/ st = "name" /\ size = WordSize
              /\ \A i \in 1 .. Len(w) : w[i] # "="
         \/ st = "value" /\ size = WordSize
  BY MessageAssumption DEF FitsWord
<1> HIDE DEF size
<1>0. /\ Len(w) \in Nat /\ \A i \in 1 .. Len(w) : w[i] \in Chars
      /\ DOMAIN w = 1 .. Len(w)
  BY <1>a, LenProperties, ElementOfSeq DEF Text
<1> DEFINE b == Standing(st, h, nm, <<>>, ps, n)
           Up(k) == Standing(st, h, nm, SubSeq(w, 1, k), ps, n + k)
<1>1. b \in BlockStates
  <2>1. <<>> \in Text
    BY EmptySeq DEF Text
  <2>2. QED
    BY <1>a, <2>1, StandingType
<1>2. PICK g : Runs(b, w, g) /\ Looped(b, w) = g[Len(w)]
  BY <1>a, <1>1, LoopedIs
<1> DEFINE Good == {k \in 0 .. Len(w) : g[k] = Up(k)}
<1>3. 0 \in Good
  <2>1. SubSeq(w, 1, 0) = <<>>
    BY SubSeqEmpty
  <2>2. n + 0 = n
    OBVIOUS
  <2>3. g[0] = b
    BY <1>2 DEF Runs
  <2>4. Up(0) = b
    BY <2>1, <2>2
  <2> HIDE DEF Up, b
  <2>5. QED
    BY <1>0, <2>3, <2>4
<1>4. ASSUME NEW k \in 0 .. Len(w) - 1, k \in Good
      PROVE  k + 1 \in Good
  <2>1. /\ k \in 0 .. Len(w) /\ k + 1 \in 1 .. Len(w) /\ (k + 1) - 1 = k
        /\ k + 1 \in 0 .. Len(w) /\ k + 1 # 0 /\ k \in Nat
    BY <1>0
  <2> DEFINE v == SubSeq(w, 1, k)
             c == w[k + 1]
  <2>2. /\ v \in Text /\ Len(v) = k
        /\ SubSeq(w, 1, k + 1) = Append(v, c)
    <3>1. /\ SubSeq(w, 1, k) \in Text /\ Len(SubSeq(w, 1, k)) = k
      BY <1>a, <2>1, CutParts DEF Text
    <3>2. SubSeq(w, 1, k + 1) = Append(SubSeq(w, 1, (k + 1) - 1), w[k + 1])
      BY <1>a, <2>1, CutParts DEF Text
    <3>3. QED
      BY <2>1, <3>1, <3>2
  <2>3. c \in Plain \union {Blank}
    BY <1>a, <1>0, <2>1 DEF Clean
  <2>4. Len(v) < size - 1
    BY <1>a, <1>0, <2>1, <2>2
  <2>5. \/ st = "header" /\ size = HeaderSize /\ (v # <<>> \/ c # Blank)
        \/ st = "name" /\ size = WordSize /\ c # "="
        \/ st = "value" /\ size = WordSize
    <3>1. k = 0 \/ v # <<>>
      <4> HIDE DEF v
      <4>1. Len(v) = k
        BY <2>2
      <4>2. QED
        BY <4>1
    <3>2. k = 0 => c = w[1]
      OBVIOUS
    <3>3. (\A i \in 1 .. Len(w) : w[i] # "=") => c # "="
      BY <2>1
    <3> HIDE DEF v, c
    <3>4. QED
      BY <1>a, <3>1, <3>2, <3>3
  <2> HIDE DEF v, c
  <2>6. Loop(Standing(st, h, nm, v, ps, n + k), c)
          = Standing(st, h, nm, Append(v, c), ps, (n + k) + 1)
    <3> DEFINE m == n + k
    <3>1. HasRoom(st, size, v, c)
      BY <2>3, <2>4, <2>5 DEF HasRoom
    <3> HIDE DEF m
    <3>2. Loop(Standing(st, h, nm, v, ps, m), c)
            = Standing(st, h, nm, Append(v, c), ps, m + 1)
      BY <3>1, LoopKeeps
    <3>3. QED
      BY <3>2 DEF m
  <2>7. g[k + 1] = Loop(g[k], c)
    BY <1>2, <2>1 DEF Runs, c
  <2>8. g[k] = Standing(st, h, nm, v, ps, n + k)
    BY <1>4 DEF v
  <2>9. (n + k) + 1 = n + (k + 1)
    BY <2>1
  <2>10. g[k + 1] = Up(k + 1)
    BY <2>2, <2>6, <2>7, <2>8, <2>9
  <2> HIDE DEF Up
  <2>11. QED
    BY <2>1, <2>10
<1>5. 0 .. Len(w) \subseteq Good
  <2> HIDE DEF Good
  <2>1. QED
    BY <1>0, <1>3, <1>4, UpTo
<1>6. g[Len(w)] = Up(Len(w))
  <2> HIDE DEF Up
  <2>1. QED
    BY <1>0, <1>5
<1>7. SubSeq(w, 1, Len(w)) = w
  BY <1>a, SubSeqFull DEF Text
<1>8. QED
  BY <1>2, <1>6, <1>7

(***************************************************************************)
(* The body that formatMessage writes.                                     *)
(***************************************************************************)

\* The first k texts of s in a row, for k up to n.
InARow(s, n, g) ==
  /\ g \in [1 .. n -> Text]
  /\ \A k \in 1 .. n : g[k] = IF k = 1 THEN s[k] ELSE g[k - 1] \o s[k]

\* FlattenSeq puts a row of texts end to end.
LEMMA InARowExists ==
  ASSUME NEW s \in Seq(Text)
  PROVE  \E g : InARow(s, Len(s), g)
<1>0. Len(s) \in Nat /\ \A n \in 1 .. Len(s) : s[n] \in Text
  BY LenProperties, ElementOfSeq
<1> DEFINE Good == {n \in 0 .. Len(s) : \E g : InARow(s, n, g)}
<1>1. 0 \in Good
  <2> DEFINE first == [k \in 1 .. 0 |-> <<>>]
  <2>1. InARow(s, 0, first)
    BY DEF InARow
  <2> HIDE DEF first
  <2>2. QED
    BY <1>0, <2>1
<1>2. ASSUME NEW n \in 0 .. Len(s) - 1, n \in Good
      PROVE  n + 1 \in Good
  <2>1. PICK g : InARow(s, n, g)
    BY <1>2
  <2> DEFINE last == IF n = 0 THEN s[n + 1] ELSE g[n] \o s[n + 1]
             h == [k \in 1 .. n + 1 |-> IF k = n + 1 THEN last ELSE g[k]]
  <2>2. n \in Nat /\ n + 1 \in 1 .. Len(s) /\ s[n + 1] \in Text
    BY <1>0
  <2>3. last \in Text
    <3>1. CASE n = 0
      BY <2>2, <3>1
    <3>2. CASE n # 0
      <4>1. g[n] \in Text
        BY <2>1, <2>2, <3>2 DEF InARow
      <4>2. QED
        BY <2>2, <3>2, <4>1, ConcatProperties DEF Text
    <3>3. QED
      BY <3>1, <3>2
  <2>4. \A k \in 1 .. n + 1 : k = n + 1 \/ (k \in 1 .. n /\ k # n + 1)
    BY <2>2
  <2>5. h \in [1 .. n + 1 -> Text]
    <3> HIDE DEF last
    <3>1. QED
      BY <2>1, <2>3, <2>4 DEF InARow
  <2>6. ASSUME NEW k \in 1 .. n + 1
        PROVE  h[k] = IF k = 1 THEN s[k] ELSE h[k - 1] \o s[k]
    <3>1. k # 1 => h[k - 1] = g[k - 1]
      BY <2>2
    <3>2. CASE k = n + 1
      <4>1. h[k] = last /\ k - 1 = n /\ (k = 1 <=> n = 0)
        BY <2>2, <3>2
      <4>2. QED
        BY <3>1, <3>2, <4>1
    <3>3. CASE k # n + 1
      <4>1. k \in 1 .. n /\ h[k] = g[k]
        BY <2>2, <3>3
      <4>2. QED
        BY <2>1, <3>1, <4>1 DEF InARow
    <3>4. QED
      BY <3>2, <3>3
  <2> HIDE DEF h
  <2>7. InARow(s, n + 1, h)
    BY <2>5, <2>6 DEF InARow
  <2>8. QED
    BY <2>2, <2>7
<1>3. Len(s) \in Good
  <2> HIDE DEF Good
  <2>1. 0 .. Len(s) \subseteq Good
    BY <1>0, <1>1, <1>2, UpTo
  <2>2. QED
    BY <1>0, <2>1
<1>4. QED
  BY <1>3

LEMMA InARowUnique ==
  ASSUME NEW s, NEW n \in Nat, NEW g, NEW h, InARow(s, n, g), InARow(s, n, h)
  PROVE  \A k \in 1 .. n : g[k] = h[k]
<1> DEFINE Same == {k \in 0 .. n : k = 0 \/ g[k] = h[k]}
<1>1. 0 \in Same
  OBVIOUS
<1>2. ASSUME NEW k \in 0 .. n - 1, k \in Same
      PROVE  k + 1 \in Same
  <2>1. k + 1 \in 1 .. n /\ (k + 1) - 1 = k /\ (k + 1 = 1 <=> k = 0)
    OBVIOUS
  <2>2. /\ g[k + 1] = IF k = 0 THEN s[k + 1] ELSE g[k] \o s[k + 1]
        /\ h[k + 1] = IF k = 0 THEN s[k + 1] ELSE h[k] \o s[k + 1]
    BY <2>1 DEF InARow
  <2>3. g[k + 1] = h[k + 1]
    BY <1>2, <2>2
  <2>4. QED
    BY <2>1, <2>3
<1>3. 0 .. n \subseteq Same
  <2> HIDE DEF Same
  <2>1. QED
    BY <1>1, <1>2, UpTo
<1>4. QED
  BY <1>3

LEMMA FlattenIs ==
  ASSUME NEW s \in Seq(Text), s # <<>>
  PROVE  \E g : InARow(s, Len(s), g) /\ FlattenSeq(s) = g[Len(s)]
<1> DEFINE flatten[i \in 1 .. Len(s)] ==
             IF i = 1 THEN s[i] ELSE flatten[i - 1] \o s[i]
<1>1. Len(s) \in Nat /\ Len(s) # 0
  BY LenProperties, EmptySeq
<1>2. PICK g : InARow(s, Len(s), g)
  BY InARowExists
<1>3. g = [i \in 1 .. Len(s) |-> IF i = 1 THEN s[i] ELSE g[i - 1] \o s[i]]
  BY <1>2 DEF InARow
<1>4. flatten = [i \in 1 .. Len(s) |->
                   IF i = 1 THEN s[i] ELSE flatten[i - 1] \o s[i]]
  BY <1>3
<1>5. FlattenSeq(s) = flatten[Len(s)]
  BY <1>1 DEF FlattenSeq
<1> HIDE DEF flatten
<1> DEFINE Good == {n \in 0 .. Len(s) : n = 0 \/ flatten[n] = g[n]}
<1>6. 0 \in Good
  BY <1>1
<1>7. ASSUME NEW n \in 0 .. Len(s) - 1, n \in Good
      PROVE  n + 1 \in Good
  <2>1. /\ n + 1 \in 1 .. Len(s) /\ (n + 1) - 1 = n
        /\ (n + 1 = 1 <=> n = 0)
    BY <1>1
  <2>2. g[n + 1] = IF n = 0 THEN s[n + 1] ELSE g[n] \o s[n + 1]
    BY <1>2, <2>1 DEF InARow
  <2>3. flatten[n + 1] = IF n = 0 THEN s[n + 1] ELSE flatten[n] \o s[n + 1]
    BY <1>4, <2>1
  <2>4. flatten[n + 1] = g[n + 1]
    BY <1>7, <2>2, <2>3
  <2>5. QED
    BY <2>1, <2>4
<1>8. 0 .. Len(s) \subseteq Good
  <2> HIDE DEF Good
  <2>1. QED
    BY <1>1, <1>6, <1>7, UpTo
<1>9. QED
  BY <1>1, <1>2, <1>5, <1>8

LEMMA FlattenEmpty == FlattenSeq(<<>>) = <<>>
  BY DEF FlattenSeq

LEMMA FlattenType ==
  ASSUME NEW s \in Seq(Text)
  PROVE  FlattenSeq(s) \in Text
<1>1. CASE s = <<>>
  BY <1>1, FlattenEmpty, EmptySeq DEF Text
<1>2. CASE s # <<>>
  <2>1. Len(s) \in 1 .. Len(s)
    BY <1>2, LenProperties, EmptySeq
  <2>2. QED
    BY <1>2, <2>1, FlattenIs DEF InARow
<1>3. QED
  BY <1>1, <1>2

\* One more text goes to the end.
LEMMA FlattenAppend ==
  ASSUME NEW s \in Seq(Text), NEW t \in Text
  PROVE  FlattenSeq(Append(s, t)) = FlattenSeq(s) \o t
<1> DEFINE u == Append(s, t)
<1>1. /\ u \in Seq(Text) /\ Len(u) = Len(s) + 1 /\ u # <<>>
      /\ \A i \in 1 .. Len(s) : u[i] = s[i]
      /\ u[Len(s) + 1] = t /\ Len(s) \in Nat
  BY AppendProperties, LenProperties
<1> HIDE DEF u
<1>2. PICK g : InARow(u, Len(u), g) /\ FlattenSeq(u) = g[Len(u)]
  BY <1>1, FlattenIs
<1>3. Len(u) \in 1 .. Len(u) /\ Len(u) - 1 = Len(s)
  BY <1>1
<1>4. CASE s = <<>>
  <2>1. Len(s) = 0
    BY <1>4, EmptySeq
  <2>2. g[Len(u)] = u[Len(u)]
    BY <1>1, <1>2, <1>3, <2>1 DEF InARow
  <2>3. FlattenSeq(u) = t
    BY <1>1, <1>2, <2>1, <2>2
  <2>4. <<>> \o t = t
    BY ConcatEmptySeq DEF Text
  <2>5. QED
    BY <1>4, <2>3, <2>4, FlattenEmpty DEF u
<1>5. CASE s # <<>>
  <2>1. PICK h : InARow(s, Len(s), h) /\ FlattenSeq(s) = h[Len(s)]
    BY <1>5, FlattenIs
  <2>2. Len(s) # 0 /\ Len(s) \in 1 .. Len(s)
    BY <1>1, <1>5, EmptySeq
  <2> DEFINE f == [k \in 1 .. Len(s) |-> g[k]]
  <2>3. InARow(s, Len(s), f)
    <3>1. f \in [1 .. Len(s) -> Text]
      BY <1>1, <1>2 DEF InARow
    <3>2. ASSUME NEW k \in 1 .. Len(s)
          PROVE  f[k] = IF k = 1 THEN s[k] ELSE f[k - 1] \o s[k]
      <4>1. k \in 1 .. Len(u) /\ u[k] = s[k]
        BY <1>1
      <4>2. g[k] = IF k = 1 THEN s[k] ELSE g[k - 1] \o s[k]
        BY <1>2, <4>1 DEF InARow
      <4>3. f[k] = g[k] /\ (k # 1 => f[k - 1] = g[k - 1])
        BY <1>1
      <4>4. QED
        BY <4>2, <4>3
    <3> HIDE DEF f
    <3>3. QED
      BY <3>1, <3>2 DEF InARow
  <2>4. f[Len(s)] = h[Len(s)]
    <3> HIDE DEF f
    <3>1. QED
      BY <1>1, <2>1, <2>2, <2>3, InARowUnique
  <2>5. g[Len(u)] = g[Len(u) - 1] \o u[Len(u)]
    <3>1. Len(u) # 1
      BY <1>1, <2>2
    <3>2. QED
      BY <1>2, <1>3, <3>1 DEF InARow
  <2>6. g[Len(s)] = FlattenSeq(s)
    BY <2>1, <2>2, <2>4
  <2>7. QED
    BY <1>1, <1>2, <1>3, <2>5, <2>6 DEF u
<1>6. QED
  BY <1>4, <1>5

\* Texts put together.
LEMMA TextConcat ==
  ASSUME NEW s \in Text, NEW t \in Text
  PROVE  s \o t \in Text /\ Len(s \o t) = Len(s) + Len(t) /\ Len(s) \in Nat
  BY ConcatProperties, LenProperties DEF Text

LEMMA TextOne ==
  ASSUME NEW c \in Chars
  PROVE  <<c>> \in Text /\ Len(<<c>>) = 1
  BY DEF Text

\* A pair that parseBlock's buffers hold and that has no early end.
FitPair(p) ==
  /\ p \in Text \X Text
  /\ Clean(p[1]) /\ Len(p[1]) < WordSize
  /\ \A i \in 1 .. Len(p[1]) : p[1][i] # "="
  /\ Clean(p[2]) /\ Len(p[2]) < WordSize

LEMMA PairType ==
  ASSUME NEW p \in Text \X Text
  PROVE  Pair(p) \in Text /\ Len(Pair(p)) = Len(p[1]) + Len(p[2]) + 2
<1>1. /\ p[1] \in Text /\ p[2] \in Text
      /\ <<"=">> \in Text /\ Len(<<"=">>) = 1
      /\ <<LF>> \in Text /\ Len(<<LF>>) = 1
  BY Letters, TextOne
<1> DEFINE s == p[1] \o <<"=">>
           t == s \o p[2]
<1>2. s \in Text /\ Len(s) = Len(p[1]) + 1 /\ Len(p[1]) \in Nat
  BY <1>1, TextConcat
<1> HIDE DEF s
<1>3. t \in Text /\ Len(t) = Len(s) + Len(p[2]) /\ Len(p[2]) \in Nat
  BY <1>1, <1>2, TextConcat
<1> HIDE DEF t
<1>4. t \o <<LF>> \in Text /\ Len(t \o <<LF>>) = Len(t) + 1
  BY <1>1, <1>3, TextConcat
<1>5. Pair(p) = t \o <<LF>>
  BY DEF Pair, s, t
<1>6. QED
  BY <1>2, <1>3, <1>4, <1>5

\* A pair is read as it was written.
LEMMA LoopedPair ==
  ASSUME NEW h \in Text, NEW nm \in Text, NEW ps \in Seq(Text \X Text),
         NEW n \in Nat, NEW p, FitPair(p)
  PROVE  Looped(Standing("name", h, nm, <<>>, ps, n), Pair(p))
           = Standing("name", h, p[1], <<>>, Append(ps, p), n + Len(Pair(p)))
<1> DEFINE name  == p[1]
           value == p[2]
           s == name \o <<"=">>
           t == s \o value
           n1 == n + Len(name)
           n2 == n1 + 1
           n3 == n2 + Len(value)
           b0 == Standing("name", h, nm, <<>>, ps, n)
           b1 == Standing("name", h, nm, name, ps, n1)
           b2 == Standing("value", h, name, <<>>, ps, n2)
           b3 == Standing("value", h, name, value, ps, n3)
           b4 == Standing("name", h, name, <<>>, Append(ps, <<name, value>>),
                          n3 + 1)
<1>1. /\ name \in Text /\ value \in Text /\ p = <<name, value>>
      /\ Clean(name) /\ Len(name) < WordSize
      /\ \A i \in 1 .. Len(name) : name[i] # "="
      /\ Clean(value) /\ Len(value) < WordSize
  BY DEF FitPair
<1>2. /\ <<>> \in Text /\ LF \in Chars /\ "=" \in Chars
      /\ Len(name) \in Nat /\ Len(value) \in Nat /\ WordSize \in Nat
  <2> HIDE DEF name, value
  <2>1. <<>> \in Text
    BY EmptySeq DEF Text
  <2>2. Len(name) \in Nat /\ Len(value) \in Nat
    BY <1>1, LenProperties DEF Text
  <2>3. QED
    BY <2>1, <2>2, Letters, MessageAssumption
<1>3. Pair(p) = t \o <<LF>> /\ Len(Pair(p)) = Len(name) + Len(value) + 2
  <2>1. p \in Text \X Text
    BY DEF FitPair
  <2>2. QED
    BY <2>1, PairType DEF Pair
<1> HIDE DEF name, value
<1>4. n1 \in Nat /\ n2 \in Nat /\ n3 \in Nat
      /\ n3 + 1 = n + Len(Pair(p))
  BY <1>2, <1>3
<1> HIDE DEF n1, n2, n3
<1>5. /\ b0 \in BlockStates /\ b1 \in BlockStates /\ b2 \in BlockStates
      /\ b3 \in BlockStates
  BY <1>1, <1>2, <1>4, StandingType
<1>6. Looped(b0, name) = b1
  <2> HIDE DEF b0, b1
  <2>1. Looped(b0, name) = Standing("name", h, nm, name, ps, n + Len(name))
    <3>1. FitsWord("name", name)
      BY <1>1 DEF FitsWord
    <3>2. QED
      BY <1>2, <3>1, LoopedWord DEF b0
  <2>2. QED
    BY <2>1 DEF b1, n1
<1>7. Loop(b1, "=") = b2
  <2>1. Loop(Standing("name", h, nm, name, ps, n1), "=")
          = Standing("value", h, name, <<>>, ps, n1 + 1)
    BY LoopName
  <2>2. QED
    BY <2>1 DEF n2
<1>8. Looped(b2, value) = b3
  <2> HIDE DEF b2, b3
  <2>1. Looped(b2, value)
          = Standing("value", h, name, value, ps, n2 + Len(value))
    <3>1. FitsWord("value", value)
      BY <1>1 DEF FitsWord
    <3>2. QED
      BY <1>1, <1>2, <1>4, <3>1, LoopedWord DEF b2
  <2>2. QED
    BY <2>1 DEF b3, n3
<1>9. Loop(b3, LF) = b4
  <2>1. Loop(Standing("value", h, name, value, ps, n3), LF)
          = Standing("name", h, name, <<>>, Append(ps, <<name, value>>),
                     n3 + 1)
    BY LoopValue
  <2>2. QED
    BY <2>1
<1>10. s \in Text /\ t \in Text /\ <<"=">> \in Text /\ <<LF>> \in Text
  BY <1>1, <1>2, TextOne, TextConcat
<1> HIDE DEF b0, b1, b2, b3, b4
<1>11. Looped(b0, s) = b2
  BY <1>1, <1>2, <1>5, <1>6, <1>7, <1>10, LoopedConcat, LoopedOne
<1> HIDE DEF s
<1>12. Looped(b0, t) = b3
  BY <1>1, <1>5, <1>8, <1>10, <1>11, LoopedConcat
<1> HIDE DEF t
<1>13. Looped(b0, t \o <<LF>>) = b4
  BY <1>2, <1>5, <1>9, <1>10, <1>12, LoopedConcat, LoopedOne
<1>14. QED
  BY <1>1, <1>3, <1>4, <1>13 DEF b0, b4, name

Body(ps) == FlattenSeq([i \in DOMAIN ps |-> Pair(ps[i])])

\* The text between the braces.
LEMMA BodyEmpty == Body(<<>>) = <<>>
<1>1. [i \in DOMAIN <<>> |-> Pair(<<>>[i])] = <<>>
  OBVIOUS
<1>2. QED
  BY <1>1, FlattenEmpty DEF Body

LEMMA PairsType ==
  ASSUME NEW ps \in Seq(Text \X Text)
  PROVE  /\ [i \in DOMAIN ps |-> Pair(ps[i])] \in Seq(Text)
         /\ Len([i \in DOMAIN ps |-> Pair(ps[i])]) = Len(ps)
<1>1. Len(ps) \in Nat /\ DOMAIN ps = 1 .. Len(ps)
  BY LenProperties
<1>2. \A i \in 1 .. Len(ps) : Pair(ps[i]) \in Text
  BY ElementOfSeq, PairType
<1>3. QED
  BY <1>1, <1>2

LEMMA BodyType ==
  ASSUME NEW ps \in Seq(Text \X Text)
  PROVE  Body(ps) \in Text
  BY PairsType, FlattenType DEF Body

LEMMA BodyAppend ==
  ASSUME NEW ps \in Seq(Text \X Text), NEW p \in Text \X Text
  PROVE  Body(Append(ps, p)) = Body(ps) \o Pair(p)
<1> DEFINE u == Append(ps, p)
           x == [i \in DOMAIN ps |-> Pair(ps[i])]
           y == [i \in DOMAIN u |-> Pair(u[i])]
<1>1. /\ u \in Seq(Text \X Text) /\ Len(u) = Len(ps) + 1
      /\ \A i \in 1 .. Len(ps) : u[i] = ps[i]
      /\ u[Len(ps) + 1] = p /\ Len(ps) \in Nat
      /\ DOMAIN ps = 1 .. Len(ps) /\ DOMAIN u = 1 .. Len(u)
  <2>1. /\ u \in Seq(Text \X Text) /\ Len(u) = Len(ps) + 1
        /\ \A i \in 1 .. Len(ps) : u[i] = ps[i]
        /\ u[Len(ps) + 1] = p
    BY AppendProperties
  <2> HIDE DEF u
  <2>2. QED
    BY <2>1, LenProperties
<1> HIDE DEF u
<1>2. /\ x \in Seq(Text) /\ Len(x) = Len(ps)
      /\ y \in Seq(Text) /\ Len(y) = Len(u)
  BY <1>1, PairsType
<1>3. Pair(p) \in Text
  BY PairType
<1>4. /\ Append(x, Pair(p)) \in Seq(Text)
      /\ Len(Append(x, Pair(p))) = Len(x) + 1
      /\ \A i \in 1 .. Len(x) : Append(x, Pair(p))[i] = x[i]
      /\ Append(x, Pair(p))[Len(x) + 1] = Pair(p)
  <2> HIDE DEF x
  <2>1. QED
    BY <1>2, <1>3, AppendProperties
<1>5. ASSUME NEW i \in 1 .. Len(y)
      PROVE  y[i] = Append(x, Pair(p))[i]
  <2>1. y[i] = Pair(u[i])
    BY <1>1, <1>2
  <2>2. CASE i = Len(ps) + 1
    BY <1>1, <1>2, <1>4, <2>1, <2>2
  <2>3. CASE i # Len(ps) + 1
    <3>1. i \in 1 .. Len(ps) /\ i \in 1 .. Len(x)
      BY <1>1, <1>2, <2>3
    <3>2. x[i] = Pair(ps[i]) /\ u[i] = ps[i]
      BY <1>1, <3>1
    <3> HIDE DEF x, y
    <3>3. QED
      BY <1>4, <2>1, <3>1, <3>2
  <2>4. QED
    BY <2>2, <2>3
<1>6. y = Append(x, Pair(p))
  <2> HIDE DEF x, y
  <2>1. Len(y) = Len(Append(x, Pair(p)))
    BY <1>1, <1>2, <1>4
  <2>2. QED
    BY <1>2, <1>4, <1>5, <2>1, SeqEqual
<1>7. FlattenSeq(y) = FlattenSeq(x) \o Pair(p)
  <2> HIDE DEF x, y
  <2>1. QED
    BY <1>2, <1>3, <1>6, FlattenAppend
<1>8. Body(ps) = FlattenSeq(x) /\ Body(u) = FlattenSeq(y)
  BY DEF Body
<1>9. QED
  BY <1>7, <1>8 DEF u

FitPairs(ps) ==
  ps \in Seq(Text \X Text) /\ \A i \in 1 .. Len(ps) : FitPair(ps[i])

\* All pairs are read as they were written, by induction on their number.
LEMMA LoopedBody ==
  ASSUME NEW h \in Text, NEW n \in Nat, NEW ps, FitPairs(ps)
  PROVE  \E nm \in Text :
           Looped(Standing("name", h, <<>>, <<>>, <<>>, n), Body(ps))
             = Standing("name", h, nm, <<>>, ps, n + Len(Body(ps)))
<1>0. /\ ps \in Seq(Text \X Text) /\ \A i \in 1 .. Len(ps) : FitPair(ps[i])
      /\ Len(ps) \in Nat
      /\ <<>> \in Text /\ <<>> \in Seq(Text \X Text) /\ Len(<<>>) = 0
  BY LenProperties, EmptySeq DEF FitPairs, Text
<1> DEFINE b == Standing("name", h, <<>>, <<>>, <<>>, n)
           first(k) == SubSeq(ps, 1, k)
           Here(k, nm) == Standing("name", h, nm, <<>>, first(k),
                                  n + Len(Body(first(k))))
           Good == {k \in 0 .. Len(ps) :
                      \E nm \in Text : Looped(b, Body(first(k))) = Here(k, nm)}
<1>1. b \in BlockStates
  BY <1>0, StandingType
<1>2. 0 \in Good
  <2>1. first(0) = <<>>
    BY SubSeqEmpty
  <2>2. Body(first(0)) = <<>>
    BY <2>1, BodyEmpty
  <2>3. Looped(b, <<>>) = b
    BY <1>1, LoopedEmpty
  <2>4. n + Len(<<>>) = n
    BY <1>0
  <2>5. Here(0, <<>>) = b
    BY <2>1, <2>2, <2>4
  <2>6. Looped(b, Body(first(0))) = Here(0, <<>>)
    BY <2>2, <2>3, <2>5
  <2> HIDE DEF b, first, Here
  <2>7. QED
    BY <1>0, <2>6
<1>3. ASSUME NEW k \in 0 .. Len(ps) - 1, k \in Good
      PROVE  k + 1 \in Good
  <2>1. /\ k \in 0 .. Len(ps) /\ k + 1 \in 1 .. Len(ps) /\ (k + 1) - 1 = k
        /\ k + 1 \in 0 .. Len(ps) /\ k + 1 # 0 /\ k \in Nat
    BY <1>0
  <2> DEFINE p == ps[k + 1]
             x == first(k)
             y == first(k + 1)
  <2>2. x \in Seq(Text \X Text)
    BY <1>0, <2>1, CutParts
  <2>3. y = Append(x, p)
    <3>1. SubSeq(ps, 1, k + 1) = Append(SubSeq(ps, 1, (k + 1) - 1), ps[k + 1])
      BY <1>0, <2>1, CutParts
    <3>2. QED
      BY <2>1, <3>1
  <2>4. FitPair(p) /\ p \in Text \X Text
    BY <1>0, <2>1 DEF FitPair
  <2>5. PICK nm \in Text : Looped(b, Body(x)) = Here(k, nm)
    BY <1>3
  <2> HIDE DEF p
  <2> DEFINE m == n + Len(Body(x))
  <2>6. Here(k, nm) = Standing("name", h, nm, <<>>, x, m)
    OBVIOUS
  <2> HIDE DEF b, x, y
  <2>7. Body(x) \in Text /\ Len(Body(x)) \in Nat /\ m \in Nat
    BY <2>2, BodyType, LenProperties DEF Text
  <2>8. Pair(p) \in Text /\ Len(Pair(p)) \in Nat
    BY <2>4, PairType, LenProperties DEF Text
  <2>9. Body(y) = Body(x) \o Pair(p)
    BY <2>2, <2>3, <2>4, BodyAppend
  <2>10. Len(Body(y)) = Len(Body(x)) + Len(Pair(p))
    BY <2>7, <2>8, <2>9, TextConcat
  <2>11. m + Len(Pair(p)) = n + Len(Body(y))
    BY <2>7, <2>8, <2>10
  <2> HIDE DEF m
  <2>12. Looped(Standing("name", h, nm, <<>>, x, m), Pair(p))
           = Standing("name", h, p[1], <<>>, Append(x, p), m + Len(Pair(p)))
    <3>1. \A z \in Seq(Text \X Text), j \in Nat :
            Looped(Standing("name", h, nm, <<>>, z, j), Pair(p))
              = Standing("name", h, p[1], <<>>, Append(z, p), j + Len(Pair(p)))
      BY <2>4, LoopedPair
    <3>2. QED
      BY <2>2, <2>7, <3>1
  <2>13. Looped(b, Body(y)) = Looped(Looped(b, Body(x)), Pair(p))
    BY <1>1, <2>7, <2>8, <2>9, LoopedConcat
  <2>14. Looped(b, Body(y))
           = Standing("name", h, p[1], <<>>, y, n + Len(Body(y)))
    BY <2>3, <2>5, <2>6, <2>11, <2>12, <2>13
  <2>15. p[1] \in Text
    BY <2>4
  <2>16. Looped(b, Body(first(k + 1))) = Here(k + 1, p[1])
    BY <2>14 DEF y
  <2> HIDE DEF first, Here
  <2>17. QED
    BY <2>1, <2>15, <2>16
<1>4. Len(ps) \in Good
  <2> HIDE DEF Good
  <2>1. 0 .. Len(ps) \subseteq Good
    BY <1>0, <1>2, <1>3, UpTo
  <2>2. QED
    BY <1>0, <2>1
<1>5. first(Len(ps)) = ps
  BY <1>0, SubSeqFull
<1>6. PICK nm \in Text : Looped(b, Body(first(Len(ps)))) = Here(Len(ps), nm)
  <2> HIDE DEF b, first, Here
  <2>1. QED
    BY <1>4
<1>7. QED
  BY <1>5, <1>6

\* The loop over two and over three characters.
LEMMA LoopedThree ==
  ASSUME NEW b \in BlockStates,
         NEW x \in Chars, NEW y \in Chars, NEW z \in Chars
  PROVE  /\ <<x, y>> \in Text /\ Looped(b, <<x, y>>) = Loop(Loop(b, x), y)
         /\ <<x, y, z>> \in Text
         /\ Looped(b, <<x, y, z>>) = Loop(Loop(Loop(b, x), y), z)
<1>1. /\ <<x>> \in Text /\ <<y>> \in Text /\ <<z>> \in Text
  BY TextOne
<1>2. <<x, y>> \in Text /\ <<x, y, z>> \in Text
  BY DEF Text
<1>3. <<x, y>> = <<x>> \o <<y>>
  <2> DEFINE s == <<x>>
             t == <<y>>
             u == s \o t
             v == <<x, y>>
  <2>1. /\ s \in Seq(Chars) /\ t \in Seq(Chars) /\ v \in Seq(Chars)
    BY <1>1, <1>2 DEF Text
  <2>2. Len(s) = 1 /\ s[1] = x /\ Len(t) = 1 /\ t[1] = y
    OBVIOUS
  <2>3. Len(v) = 2 /\ v[1] = x /\ v[2] = y
    OBVIOUS
  <2> HIDE DEF s, t, v
  <2>4. /\ u \in Seq(Chars) /\ Len(u) = Len(s) + Len(t)
        /\ \A i \in 1 .. Len(s) + Len(t) :
             u[i] = IF i <= Len(s) THEN s[i] ELSE t[i - Len(s)]
    BY <2>1, ConcatProperties
  <2> HIDE DEF u
  <2>5. Len(u) = 2 /\ u[1] = x /\ u[2] = y
    BY <2>2, <2>4
  <2>6. \A i \in 1 .. 2 : u[i] = v[i]
    BY <2>3, <2>5
  <2>7. u = v
    BY <2>1, <2>3, <2>4, <2>5, <2>6, SeqEqual
  <2>8. QED
    BY <2>7 DEF u, v, s, t
<1>4. <<x, y, z>> = <<x, y>> \o <<z>>
  <2> DEFINE s == <<x, y>>
             t == <<z>>
             u == s \o t
             v == <<x, y, z>>
  <2>1. /\ s \in Seq(Chars) /\ t \in Seq(Chars) /\ v \in Seq(Chars)
    BY <1>1, <1>2 DEF Text
  <2>2. /\ Len(s) = 2 /\ s[1] = x /\ s[2] = y
    OBVIOUS
  <2>3. /\ Len(t) = 1 /\ t[1] = z
    OBVIOUS
  <2>4. /\ Len(v) = 3 /\ v[1] = x /\ v[2] = y /\ v[3] = z
    OBVIOUS
  <2> HIDE DEF s, t, v
  <2>5. /\ u \in Seq(Chars) /\ Len(u) = Len(s) + Len(t)
        /\ \A i \in 1 .. Len(s) + Len(t) :
             u[i] = IF i <= Len(s) THEN s[i] ELSE t[i - Len(s)]
    BY <2>1, ConcatProperties
  <2> HIDE DEF u
  <2>6. Len(u) = 3 /\ u[1] = x /\ u[2] = y /\ u[3] = z
    BY <2>2, <2>3, <2>5
  <2>7. \A i \in 1 .. 3 : u[i] = v[i]
    BY <2>4, <2>6
  <2>8. u = v
    BY <2>1, <2>4, <2>5, <2>6, <2>7, SeqEqual
  <2>9. QED
    BY <2>8 DEF u, v, s, t
<1>5. Loop(b, x) \in BlockStates /\ Loop(Loop(b, x), y) \in BlockStates
  BY LoopType
<1>6. Looped(b, <<x, y>>) = Loop(Loop(b, x), y)
  <2>1. Looped(b, <<x>> \o <<y>>) = Looped(Looped(b, <<x>>), <<y>>)
    BY <1>1, LoopedConcat
  <2>2. /\ Looped(b, <<x>>) = Loop(b, x)
        /\ Looped(Loop(b, x), <<y>>) = Loop(Loop(b, x), y)
    BY <1>5, LoopedOne
  <2>3. QED
    BY <1>3, <2>1, <2>2
<1>7. Looped(b, <<x, y, z>>) = Loop(Loop(Loop(b, x), y), z)
  <2> DEFINE d == Loop(Loop(b, x), y)
             s == <<x, y>>
             t == <<z>>
  <2>1. s \in Text /\ t \in Text /\ d \in BlockStates
    BY <1>1, <1>2, <1>5
  <2>2. <<x, y, z>> = s \o t /\ Looped(b, s) = d
    BY <1>4, <1>6
  <2>3. Looped(d, t) = Loop(d, z)
    BY <2>1, LoopedOne
  <2> HIDE DEF s, t, d
  <2>4. Looped(b, s \o t) = Looped(d, t)
    BY <2>1, <2>2, LoopedConcat
  <2>5. QED
    BY <2>2, <2>3, <2>4 DEF d
<1>8. QED
  BY <1>2, <1>6, <1>7

Opening == <<LF, "{", LF>>
Closing == <<"}", LF>>

LEMMA TextMore ==
  ASSUME NEW x \in Chars, NEW y \in Chars, NEW z \in Chars
  PROVE  /\ <<x, y>> \in Text /\ Len(<<x, y>>) = 2
         /\ <<x, y, z>> \in Text /\ Len(<<x, y, z>>) = 3
  BY DEF Text

\* What formatMessage puts around the pairs.
LEMMA Marks ==
  /\ Opening \in Text /\ Len(Opening) = 3
  /\ Closing \in Text /\ Len(Closing) = 2
<1>1. LF \in Chars /\ "{" \in Chars /\ "}" \in Chars
  BY Letters
<1>2. Opening \in Text /\ Len(Opening) = 3
  BY <1>1, TextMore DEF Opening
<1>3. Closing \in Text /\ Len(Closing) = 2
  BY <1>1, TextMore DEF Closing
<1>4. QED
  BY <1>2, <1>3

\* parseBlock reads what is before and after the pairs.
LEMMA LoopedOpening ==
  ASSUME NEW h \in Text, h # <<>>, NEW m \in Nat
  PROVE  Looped(Standing("header", <<>>, <<>>, h, <<>>, m), Opening)
           = Standing("name", h, <<>>, <<>>, <<>>, m + 3)
<1> DEFINE m1 == m + 1
           m2 == m1 + 1
           x == Standing("header", <<>>, <<>>, h, <<>>, m)
           y == Standing("brace", h, <<>>, h, <<>>, m1)
           z == Standing("open", h, <<>>, <<>>, <<>>, m2)
<1>1. m2 + 1 = m + 3
  OBVIOUS
<1> HIDE DEF m1, m2
<1>2. x \in BlockStates /\ LF \in Chars /\ "{" \in Chars
  <2>1. <<>> \in Text /\ <<>> \in Seq(Text \X Text)
    BY EmptySeq DEF Text
  <2>2. x \in BlockStates
    BY <2>1, StandingType
  <2>3. QED
    BY <2>2, Letters
<1>3. Loop(x, LF) = y
  BY LoopHeader DEF m1
<1>5. Loop(y, "{") = z
  BY LoopBrace DEF m2
<1>6. Loop(z, LF) = Standing("name", h, <<>>, <<>>, <<>>, m2 + 1)
  BY LoopOpen
<1> HIDE DEF x, y, z
<1>7. Looped(x, Opening) = Loop(Loop(Loop(x, LF), "{"), LF)
  BY <1>2, LoopedThree DEF Opening
<1>8. QED
  BY <1>1, <1>3, <1>5, <1>6, <1>7 DEF x

LEMMA LoopedClosing ==
  ASSUME NEW h \in Text, NEW nm \in Text, NEW ps \in Seq(Text \X Text),
         NEW m \in Nat
  PROVE  Looped(Standing("name", h, nm, <<>>, ps, m), Closing)
           = Standing("done", h, nm, <<>>, ps, m + 2)
<1> DEFINE m1 == m + 1
           x == Standing("name", h, nm, <<>>, ps, m)
           y == Standing("end", h, nm, <<>>, ps, m1)
<1>1. m1 + 1 = m + 2
  OBVIOUS
<1> HIDE DEF m1
<1>2. x \in BlockStates /\ LF \in Chars /\ "}" \in Chars
  <2>1. <<>> \in Text
    BY EmptySeq DEF Text
  <2>2. x \in BlockStates
    BY <2>1, StandingType
  <2>3. QED
    BY <2>2, Letters
<1>4. Loop(x, "}") = y
  BY LoopEnd DEF m1
<1>5. Loop(y, LF) = Standing("done", h, nm, <<>>, ps, m1 + 1)
  BY LoopLast
<1> HIDE DEF x, y
<1>6. Looped(x, Closing) = Loop(Loop(x, "}"), LF)
  BY <1>2, LoopedThree DEF Closing
<1>7. QED
  BY <1>1, <1>4, <1>5, <1>6 DEF x

\* The length of a block.
LEMMA BlockType ==
  ASSUME NEW h \in Text, NEW ps \in Seq(Text \X Text)
  PROVE  /\ Block(h, ps) \in Text
         /\ Len(Block(h, ps)) = Len(h) + 3 + Len(Body(ps)) + 2
         /\ Len(h) \in Nat /\ Len(Body(ps)) \in Nat
<1>1. Body(ps) \in Text
  BY BodyType
<1> DEFINE s == h \o Opening
           t == s \o Body(ps)
<1>2. s \in Text /\ Len(s) = Len(h) + 3 /\ Len(h) \in Nat
  BY Marks, TextConcat
<1> HIDE DEF s
<1>3. t \in Text /\ Len(t) = Len(s) + Len(Body(ps))
  BY <1>1, <1>2, TextConcat
<1>4. Len(Body(ps)) \in Nat
  BY <1>1, LenProperties DEF Text
<1> HIDE DEF t
<1>5. t \o Closing \in Text /\ Len(t \o Closing) = Len(t) + 2
  BY <1>3, Marks, TextConcat
<1>6. Block(h, ps) = t \o Closing
  BY DEF Block, Body, Opening, Closing, s, t
<1>7. QED
  BY <1>2, <1>3, <1>4, <1>5, <1>6

(***************************************************************************)
(* parseBlock takes a block that fits into its buffers whole.              *)
(***************************************************************************)
LEMMA LoopedBlock ==
  ASSUME NEW h, FitsWord("header", h), h # <<>>, NEW ps, FitPairs(ps)
  PROVE  \E nm \in Text :
           ParseBlock(Block(h, ps))
             = Standing("done", h, nm, <<>>, ps, Len(Block(h, ps)))
<1>1. /\ h \in Text /\ ps \in Seq(Text \X Text)
      /\ <<>> \in Text /\ <<>> \in Seq(Text \X Text)
  BY EmptySeq DEF FitsWord, FitPairs, Text
<1> DEFINE n0 == Len(h)
           n1 == n0 + 3
           n2 == n1 + Len(Body(ps))
           n3 == n2 + 2
           s1 == h \o Opening
           s2 == s1 \o Body(ps)
<1>2. Fresh = Standing("header", <<>>, <<>>, <<>>, <<>>, 0)
  BY DEF Fresh, Standing
<1>3. Fresh \in BlockStates
  BY <1>1, <1>2, StandingType
<1>4. /\ n0 \in Nat /\ n1 \in Nat /\ n2 \in Nat /\ n3 = Len(Block(h, ps))
      /\ Body(ps) \in Text
  BY <1>1, BlockType, BodyType
<1>5. Looped(Fresh, h) = Standing("header", <<>>, <<>>, h, <<>>, n0)
  <2>1. Looped(Standing("header", <<>>, <<>>, <<>>, <<>>, 0), h)
          = Standing("header", <<>>, <<>>, h, <<>>, 0 + Len(h))
    <3>1. \A x \in Text, ps0 \in Seq(Text \X Text), j \in Nat :
            Looped(Standing("header", x, x, <<>>, ps0, j), h)
              = Standing("header", x, x, h, ps0, j + Len(h))
      BY LoopedWord
    <3>2. 0 \in Nat
      OBVIOUS
    <3>3. QED
      BY <1>1, <3>1, <3>2
  <2>2. 0 + Len(h) = n0
    BY <1>4
  <2>3. QED
    BY <1>2, <2>1, <2>2
<1>6. s1 \in Text /\ s2 \in Text
  BY <1>1, <1>4, Marks, TextConcat
<1> HIDE DEF n0
<1>7. Looped(Fresh, s1) = Standing("name", h, <<>>, <<>>, <<>>, n1)
  <2> DEFINE x == Standing("header", <<>>, <<>>, h, <<>>, n0)
  <2>1. Looped(x, Opening) = Standing("name", h, <<>>, <<>>, <<>>, n0 + 3)
    BY <1>1, <1>4, LoopedOpening
  <2> HIDE DEF x
  <2>2. Looped(Fresh, h \o Opening) = Looped(Looped(Fresh, h), Opening)
    BY <1>1, <1>3, Marks, LoopedConcat
  <2>3. QED
    BY <1>5, <2>1, <2>2 DEF x
<1> HIDE DEF n1, s1
<1>8. PICK nm \in Text :
        Looped(Standing("name", h, <<>>, <<>>, <<>>, n1), Body(ps))
          = Standing("name", h, nm, <<>>, ps, n1 + Len(Body(ps)))
  BY <1>1, <1>4, LoopedBody
<1>9. Looped(Fresh, s2) = Standing("name", h, nm, <<>>, ps, n2)
  <2>1. Looped(Fresh, s2) = Looped(Looped(Fresh, s1), Body(ps))
    BY <1>3, <1>4, <1>6, LoopedConcat
  <2>2. QED
    BY <1>7, <1>8, <2>1
<1> HIDE DEF n2, s2
<1>10. Looped(Fresh, s2 \o Closing) = Standing("done", h, nm, <<>>, ps, n3)
  <2>1. Looped(Fresh, s2 \o Closing) = Looped(Looped(Fresh, s2), Closing)
    BY <1>3, <1>6, Marks, LoopedConcat
  <2>2. Looped(Standing("name", h, nm, <<>>, ps, n2), Closing)
          = Standing("done", h, nm, <<>>, ps, n2 + 2)
    BY <1>1, <1>4, LoopedClosing
  <2>3. QED
    BY <1>9, <2>1, <2>2
<1>11. Block(h, ps) = s2 \o Closing
  BY DEF Block, Body, Opening, Closing, s1, s2
<1>12. QED
  BY <1>4, <1>10, <1>11 DEF ParseBlock

\* The first character of a text.
LEMMA FirstOf ==
  ASSUME NEW s \in Text, s # <<>>
  PROVE  /\ s[1] \in Chars /\ Len(s) \in Nat /\ Len(s) >= 1
         /\ \E t \in Text : s = <<s[1]>> \o t
<1>1. Len(s) \in Nat \ {0}
  BY EmptySeq DEF Text
<1>2. s[1] \in Chars
  BY <1>1, ElementOfSeq DEF Text
<1> DEFINE t == SubSeq(s, 1 + 1, Len(s))
<1>3. SubSeq(s, 1, Len(s)) = <<s[1]>> \o SubSeq(s, 1 + 1, Len(s))
  BY <1>1, SubSeqRecursiveFirst DEF Text
<1>4. SubSeq(s, 1 + 1, Len(s)) \in Text
  BY <1>1, CutParts DEF Text
<1>5. SubSeq(s, 1, Len(s)) = s
  BY SubSeqFull DEF Text
<1> HIDE DEF t
<1>6. t \in Text /\ s = <<s[1]>> \o t
  BY <1>3, <1>4, <1>5 DEF t
<1>7. QED
  BY <1>1, <1>2, <1>6

LEMMA FreshType == Fresh \in BlockStates
<1>1. <<>> \in Text /\ <<>> \in Seq(Text \X Text)
  BY EmptySeq DEF Text
<1>2. Fresh = Standing("header", <<>>, <<>>, <<>>, <<>>, 0)
  BY DEF Fresh, Standing
<1>3. QED
  BY <1>1, <1>2, StandingType

\* The first character of a block begins with its name.
LEMMA BlockFirst ==
  ASSUME NEW h \in Text, h # <<>>, NEW ps \in Seq(Text \X Text)
  PROVE  Block(h, ps)[1] = h[1]
<1>1. Len(h) \in Nat /\ Len(h) >= 1
  BY FirstOf
<1>2. Body(ps) \in Text
  BY BodyType
<1> DEFINE s == h \o Opening
           t == s \o Body(ps)
<1>3. /\ s \in Text /\ Len(s) = Len(h) + 3 /\ s[1] = h[1]
  <2>1. /\ s \in Seq(Chars) /\ Len(s) = Len(h) + Len(Opening)
        /\ \A i \in 1 .. Len(h) + Len(Opening) :
             s[i] = IF i <= Len(h) THEN h[i] ELSE Opening[i - Len(h)]
    BY Marks, ConcatProperties DEF Text
  <2> HIDE DEF s
  <2>2. QED
    BY <1>1, <2>1, Marks DEF Text
<1> HIDE DEF s
<1>4. t \in Text /\ Len(t) = Len(s) + Len(Body(ps)) /\ t[1] = s[1]
      /\ Len(Body(ps)) \in Nat
  <2>1. /\ t \in Seq(Chars) /\ Len(t) = Len(s) + Len(Body(ps))
        /\ \A i \in 1 .. Len(s) + Len(Body(ps)) :
             t[i] = IF i <= Len(s) THEN s[i] ELSE Body(ps)[i - Len(s)]
    BY <1>2, <1>3, ConcatProperties DEF Text
  <2>2. Len(Body(ps)) \in Nat
    BY <1>2, LenProperties DEF Text
  <2> HIDE DEF t
  <2>3. QED
    BY <1>1, <1>3, <2>1, <2>2 DEF Text
<1> HIDE DEF t
<1>5. (t \o Closing)[1] = t[1]
  <2> DEFINE u == t \o Closing
  <2>1. \A i \in 1 .. Len(t) + Len(Closing) :
          u[i] = IF i <= Len(t) THEN t[i] ELSE Closing[i - Len(t)]
    <3>1. t \in Seq(Chars) /\ Closing \in Seq(Chars)
      BY <1>4, Marks DEF Text
    <3>2. QED
      BY <3>1, ConcatProperties
  <2> HIDE DEF u
  <2>2. u[1] = t[1]
    BY <1>1, <1>3, <1>4, <2>1, Marks
  <2>3. QED
    BY <2>2 DEF u
<1>6. Block(h, ps) = t \o Closing
  BY DEF Block, Body, Opening, Closing, s, t
<1>7. QED
  BY <1>3, <1>4, <1>5, <1>6

(***************************************************************************)
(* A block that is cut off is begun, if there is anything of it, but never *)
(* taken for a whole one.                                                  *)
(***************************************************************************)
LEMMA BlockCut ==
  ASSUME NEW h, FitsWord("header", h), h # <<>>, NEW ps, FitPairs(ps),
         NEW x \in Text, NEW y \in Text, y # <<>>, Block(h, ps) = x \o y
  PROVE  /\ ParseBlock(x).state # "done"
         /\ x # <<>> => Begun(ParseBlock(x))
<1>1. /\ h \in Text /\ ps \in Seq(Text \X Text) /\ Fresh \in BlockStates
      /\ Fresh.pos = 0
  BY FreshType DEF FitsWord, FitPairs, Fresh
<1> DEFINE d == Looped(Fresh, x)
<1>2. d \in BlockStates
  BY <1>1, LoopedType
<1>3. Len(x) \in Nat /\ Len(y) \in Nat /\ Len(y) >= 1
      /\ Len(x \o y) = Len(x) + Len(y)
  BY FirstOf, TextConcat, LenProperties DEF Text
<1>4. d.state # "done"
  <2>1. SUFFICES ASSUME d.state = "done"
                 PROVE  FALSE
    OBVIOUS
  <2>2. Looped(Fresh, x \o y) = Looped(d, y)
    BY <1>1, LoopedConcat
  <2> HIDE DEF d
  <2>3. Looped(d, y) = d
    BY <1>2, <2>1, LoopedStopped
  <2>4. PICK nm \in Text :
          ParseBlock(Block(h, ps))
            = Standing("done", h, nm, <<>>, ps, Len(Block(h, ps)))
    BY LoopedBlock
  <2>5. d.pos = Len(x) + Len(y)
    <3>1. d = Standing("done", h, nm, <<>>, ps, Len(x \o y))
      BY <2>2, <2>3, <2>4 DEF ParseBlock
    <3>2. QED
      BY <1>3, <3>1, StateFields
  <2>6. d.pos <= 0 + Len(x)
    BY <1>1, LoopedPos DEF d
  <2>7. QED
    BY <1>3, <2>5, <2>6
<1>5. ASSUME x # <<>>
      PROVE  Begun(d)
  <2>1. x[1] \in Chars /\ Len(x) >= 1
    BY <1>5, FirstOf
  <2>2. PICK t \in Text : x = <<x[1]>> \o t
    BY <1>5, FirstOf
  <2>3. x[1] = h[1]
    <3>1. (x \o y)[1] = x[1]
      BY <1>3, <2>1, ConcatProperties DEF Text
    <3>2. QED
      BY <1>1, <3>1, BlockFirst
  <2>4. h[1] \notin Junk
    <3>1. Len(h) \in Nat /\ Len(h) >= 1 /\ DOMAIN h = 1 .. Len(h)
      BY <1>1, FirstOf, LenProperties DEF Text
    <3>2. h[1] \in Plain \union {Blank} /\ h[1] # Blank
      BY <3>1 DEF FitsWord, Clean
    <3>3. QED
      BY <3>2, MessageAssumption DEF Junk
  <2> DEFINE c == x[1]
             b1 == Loop(Fresh, c)
  <2> HIDE DEF c
  <2>5. c \in Chars /\ c \notin Junk /\ x = <<c>> \o t
    BY <2>1, <2>2, <2>3, <2>4 DEF c
  <2>6. b1 \in BlockStates /\ Begun(b1)
    BY <1>1, <2>5, LoopType, LoopBegun
  <2>7. <<c>> \in Text
    BY <2>5, TextOne
  <2>8. Looped(Fresh, <<c>> \o t) = Looped(b1, t)
    BY <1>1, <2>5, <2>7, LoopedConcat, LoopedOne
  <2> HIDE DEF b1
  <2>9. Begun(Looped(b1, t))
    BY <2>6, LoopedBegun
  <2>10. QED
    BY <2>5, <2>8, <2>9
<1>6. QED
  BY <1>4, <1>5 DEF ParseBlock

(***************************************************************************)
(* Where a character is in a text.                                         *)
(***************************************************************************)
LEMMA HasLeast ==
  ASSUME NEW S \in SUBSET Nat, S # {}
  PROVE  \E m \in S : \A k \in S : m <= k
<1> DEFINE Less == OpToRel(<, Nat)
<1>1. \A x, y \in Nat : x < y => <<x, y>> \in Less
  BY DEF OpToRel
<1>2. IsWellFoundedOn(Less, Nat)
  BY NatLessThanWellFounded
<1> HIDE DEF Less
<1>3. PICK x \in S : \A y \in S : ~(<<y, x>> \in Less)
  BY <1>2, WFMin
<1>4. \A k \in S : ~(k < x)
  BY <1>1, <1>3
<1>5. \A k \in S : x <= k
  BY <1>4
<1>6. QED
  BY <1>5

\* At finds a character if there is one.
LEMMA AtNone ==
  ASSUME NEW s \in Text, NEW c
  PROVE  /\ At(s, c, 1) = 0 => \A i \in 1 .. Len(s) : s[i] # c
         /\ At(s, c, 1) # 0 => \E i \in 1 .. Len(s) : s[i] = c
<1>1. Len(s) \in Nat
  BY LenProperties DEF Text
<1>2. ASSUME NEW i \in 1 .. Len(s), s[i] = c
      PROVE  At(s, c, 1) # 0
  <2> DEFINE S == {j \in 1 .. Len(s) : s[j] = c}
  <2>1. S \in SUBSET Nat /\ S # {}
    BY <1>1, <1>2
  <2> HIDE DEF S
  <2>2. PICK m \in S : \A k \in S : m <= k
    BY <2>1, HasLeast
  <2>3. m \in 1 .. Len(s) /\ s[m] = c
    BY DEF S
  <2>4. \A k \in 1 .. m - 1 : s[k] # c
    <3>1. TAKE k \in 1 .. m - 1
    <3>2. k \in 1 .. Len(s) /\ ~(m <= k)
      BY <1>1, <2>3, <3>1
    <3>3. QED
      BY <2>2, <3>2 DEF S
  <2>5. At(s, c, 1) \in 1 .. Len(s)
    BY <2>3, <2>4 DEF At
  <2>6. QED
    BY <2>5
<1>3. (~\E i \in 1 .. Len(s) : s[i] = c) => At(s, c, 1) = 0
  BY DEF At
<1>4. QED
  BY <1>2, <1>3

(***************************************************************************)
(* A message that fits.                                                    *)
(***************************************************************************)
LEMMA TypeWord ==
  ASSUME NEW m \in XplMessages, Fits(m)
  PROVE  FitsWord("header", <<m.type>>) /\ <<m.type>> # <<>> /\ m.type # "."
<1>1. m.type \in Types /\ m.schema \in Text
  BY DEF XplMessages
<1>2. m.type \in Plain /\ m.type \in Chars
  BY <1>1, Letters
<1>3. m.type # Blank
  BY <1>2, MessageAssumption
<1>4. 1 < HeaderSize
  <2>1. At(m.schema, ".", 1) # 0 /\ Len(m.schema) < HeaderSize
    BY DEF Fits
  <2>2. Len(m.schema) >= 1 /\ Len(m.schema) \in Nat
    BY <1>1, <2>1, AtNone, LenProperties DEF Text
  <2>3. HeaderSize \in Nat
    BY MessageAssumption
  <2>4. QED
    BY <2>1, <2>2, <2>3
<1> DEFINE w == <<m.type>>
<1>5. w \in Text /\ Len(w) = 1
  BY <1>2, TextOne
<1>6. w[1] = m.type /\ DOMAIN w = {1}
  OBVIOUS
<1> HIDE DEF w
<1>7. Clean(w) /\ w[1] # Blank
  BY <1>2, <1>3, <1>6 DEF Clean
<1>8. FitsWord("header", w) /\ w # <<>>
  BY <1>4, <1>5, <1>7 DEF FitsWord
<1>9. m.type # "."
  BY <1>1 DEF Types
<1>10. QED
  BY <1>8, <1>9 DEF w

\* The schema fits into the buffer of the header.
LEMMA SchemaWord ==
  ASSUME NEW m \in XplMessages, Fits(m)
  PROVE  FitsWord("header", m.schema) /\ m.schema # <<>>
<1>1. m.schema \in Text
  BY DEF XplMessages
<1>2. At(m.schema, ".", 1) # 0 /\ m.schema[1] # Blank
      /\ Len(m.schema) < HeaderSize /\ Clean(m.schema)
  BY DEF Fits
<1>3. \E i \in 1 .. Len(m.schema) : m.schema[i] = "."
  BY <1>1, <1>2, AtNone
<1>4. m.schema # <<>>
  BY <1>3
<1>5. QED
  BY <1>1, <1>2, <1>4 DEF FitsWord

\* A name of one character in the header.
LEMMA HeaderPair ==
  ASSUME NEW c \in {"hop", "source", "target"}, NEW v \in Text,
         Clean(v), Len(v) < WordSize, 1 < WordSize
  PROVE  FitPair(<<<<c>>, v>>)
<1> DEFINE w == <<c>>
<1>1. c \in Plain /\ c \in Chars /\ c # "="
  BY Letters
<1>2. w \in Text /\ Len(w) = 1
  BY <1>1, TextOne
<1>3. w[1] = c /\ DOMAIN w = {1}
  OBVIOUS
<1> HIDE DEF w
<1>4. Clean(w) /\ \A i \in 1 .. Len(w) : w[i] # "="
  BY <1>1, <1>2, <1>3 DEF Clean
<1>5. <<w, v>> \in Text \X Text /\ <<w, v>>[1] = w /\ <<w, v>>[2] = v
  BY <1>2
<1> DEFINE p == <<w, v>>
<1> HIDE DEF p
<1>6. FitPair(p)
  BY <1>2, <1>4, <1>5 DEF FitPair, p
<1>7. QED
  BY <1>6 DEF p, w

LEMMA ThreeOf ==
  ASSUME NEW S, NEW a \in S, NEW b \in S, NEW c \in S
  PROVE  /\ <<a, b, c>> \in Seq(S) /\ Len(<<a, b, c>>) = 3
         /\ <<a, b, c>>[1] = a /\ <<a, b, c>>[2] = b /\ <<a, b, c>>[3] = c
  OBVIOUS

\* The header's pairs and the body's fit into the buffers.
LEMMA HeaderPairsFit ==
  ASSUME NEW m \in XplMessages, Fits(m)
  PROVE  /\ FitPairs(HeaderPairs(m)) /\ Len(HeaderPairs(m)) = 3
         /\ HeaderPairs(m)[1] = <<<<"hop">>, <<"1">>>>
         /\ HeaderPairs(m)[2] = <<<<"source">>, m.source>>
         /\ HeaderPairs(m)[3] = <<<<"target">>, m.target>>
<1> DEFINE one == <<"1">>
           a == <<<<"hop">>, one>>
           b == <<<<"source">>, m.source>>
           c == <<<<"target">>, m.target>>
<1>1. /\ m.source \in Text /\ m.target \in Text
      /\ Clean(m.source) /\ Len(m.source) < WordSize
      /\ Clean(m.target) /\ Len(m.target) < WordSize
      /\ At(m.source, "-", 1) # 0
  BY DEF XplMessages, Fits, IsTag
<1>2. 1 < WordSize
  <2>1. Len(m.source) >= 1 /\ Len(m.source) \in Nat
    BY <1>1, AtNone, LenProperties DEF Text
  <2>2. WordSize \in Nat
    BY MessageAssumption
  <2>3. QED
    BY <1>1, <2>1, <2>2
<1>3. "1" \in Plain /\ "1" \in Chars
  BY Letters
<1>4. one \in Text /\ Len(one) = 1
  BY <1>3, TextOne
<1>5. one[1] = "1" /\ DOMAIN one = {1}
  OBVIOUS
<1> HIDE DEF one
<1>6. Clean(one) /\ Len(one) < WordSize
  BY <1>2, <1>3, <1>4, <1>5 DEF Clean
<1>7. FitPair(a)
  BY <1>2, <1>4, <1>6, HeaderPair
<1>8. FitPair(b)
  BY <1>1, <1>2, HeaderPair
<1>9. FitPair(c)
  BY <1>1, <1>2, HeaderPair
<1> HIDE DEF a, b, c
<1>10. a \in Text \X Text /\ b \in Text \X Text /\ c \in Text \X Text
  BY <1>7, <1>8, <1>9 DEF FitPair
<1> DEFINE ps == <<a, b, c>>
<1>11. ps \in Seq(Text \X Text) /\ Len(ps) = 3
       /\ ps[1] = a /\ ps[2] = b /\ ps[3] = c
  BY <1>10, ThreeOf
<1>12. HeaderPairs(m) = ps
  BY DEF HeaderPairs, a, b, c, one
<1> HIDE DEF ps
<1>13. \A i \in 1 .. Len(ps) : FitPair(ps[i])
  BY <1>7, <1>8, <1>9, <1>11
<1>14. FitPairs(ps)
  BY <1>11, <1>13 DEF FitPairs
<1>15. QED
  BY <1>11, <1>12, <1>14 DEF a, b, c, one

LEMMA PairsFit ==
  ASSUME NEW m \in XplMessages, Fits(m)
  PROVE  FitPairs(m.pairs)
<1>1. m.pairs \in Seq(Text \X Text)
  BY DEF XplMessages
<1>2. DOMAIN m.pairs = 1 .. Len(m.pairs)
  BY <1>1, LenProperties
<1>3. ASSUME NEW i \in 1 .. Len(m.pairs)
      PROVE  FitPair(m.pairs[i])
  <2> DEFINE p == m.pairs[i]
  <2>1. p \in Text \X Text
    BY <1>1, ElementOfSeq
  <2>2. \A part \in {1, 2} : Len(p[part]) < WordSize /\ Clean(p[part])
    BY <1>2 DEF Fits
  <2>3. At(p[1], "=", 1) = 0
    BY <1>2 DEF Fits
  <2> HIDE DEF p
  <2>4. p[1] \in Text
    BY <2>1
  <2>5. \A j \in 1 .. Len(p[1]) : p[1][j] # "="
    BY <2>3, <2>4, AtNone
  <2>6. FitPair(p)
    BY <2>1, <2>2, <2>5 DEF FitPair
  <2>7. QED
    BY <2>6 DEF p
<1>4. QED
  BY <1>1, <1>3 DEF FitPairs

(***************************************************************************)
(* What parseMessageHeader finds in the header of formatMessage.           *)
(***************************************************************************)
LEMMA HeaderValues ==
  ASSUME NEW m \in XplMessages, Fits(m)
  PROVE  /\ HeaderGood(HeaderPairs(m))
         /\ ValueOf(HeaderPairs(m), "source") = m.source
         /\ ValueOf(HeaderPairs(m), "target") = m.target
<1> DEFINE ps == HeaderPairs(m)
<1>1. /\ ps \in Seq(Text \X Text) /\ Len(ps) = 3
      /\ ps[1] = <<<<"hop">>, <<"1">>>> /\ ps[2] = <<<<"source">>, m.source>>
      /\ ps[3] = <<<<"target">>, m.target>>
  BY HeaderPairsFit DEF FitPairs
<1>2. DOMAIN ps = {1, 2, 3}
  <2>1. DOMAIN ps = 1 .. 3
    BY <1>1, LenProperties
  <2>2. QED
    BY <2>1
<1> HIDE DEF ps
<1>3. /\ ps[1][1] = <<"hop">> /\ ps[1][2] = <<"1">>
      /\ ps[2][1] = <<"source">> /\ ps[2][2] = m.source
      /\ ps[3][1] = <<"target">> /\ ps[3][2] = m.target
  BY <1>1
<1>4. /\ <<"hop">> # <<"source">> /\ <<"hop">> # <<"target">>
      /\ <<"source">> # <<"target">>
  OBVIOUS
<1>5. /\ Named(ps, "hop") /\ Named(ps, "source") /\ Named(ps, "target")
  BY <1>2, <1>3 DEF Named
<1>6. ASSUME NEW i \in {1, 2, 3}, NEW c, ps[i][1] = <<c>>,
             \A j \in {1, 2, 3} : j # i => ps[j][1] # <<c>>
      PROVE  ValueOf(ps, c) = ps[i][2]
  <2> DEFINE Is(k) == /\ ps[k][1] = <<c>>
                      /\ \A j \in 1 .. k - 1 : ps[j][1] # <<c>>
  <2>1. Is(i)
    BY <1>6
  <2>2. \A k \in DOMAIN ps : Is(k) => k = i
    BY <1>2, <1>6
  <2>3. (CHOOSE k \in DOMAIN ps : Is(k)) = i
    <3> HIDE DEF Is
    <3>1. QED
      BY <1>2, <2>1, <2>2
  <2>4. ValueOf(ps, c) = ps[CHOOSE k \in DOMAIN ps : Is(k)][2]
    BY DEF ValueOf
  <2> HIDE DEF Is
  <2>5. QED
    BY <2>3, <2>4
<1>7. ValueOf(ps, "hop") = <<"1">>
  BY <1>3, <1>4, <1>6
<1>8. ValueOf(ps, "source") = m.source
  BY <1>3, <1>4, <1>6
<1>9. ValueOf(ps, "target") = m.target
  BY <1>3, <1>4, <1>6
<1>10. IsTag(m.source) /\ (IsTag(m.target) \/ m.target = <<"*">>)
  BY DEF Fits
<1>11. HeaderGood(ps)
  BY <1>5, <1>7, <1>8, <1>9, <1>10 DEF HeaderGood
<1>12. QED
  BY <1>8, <1>9, <1>11 DEF ps

(***************************************************************************)
(* Two ways to part a text in two.                                         *)
(***************************************************************************)
LEMMA RestOfConcat ==
  ASSUME NEW s \in Text, NEW t \in Text
  PROVE  SubSeq(s \o t, Len(s) + 1, Len(s \o t)) = t
<1> DEFINE u == s \o t
           r == SubSeq(u, Len(s) + 1, Len(u))
<1>1. /\ u \in Seq(Chars) /\ Len(u) = Len(s) + Len(t)
      /\ \A i \in 1 .. Len(s) + Len(t) :
           u[i] = IF i <= Len(s) THEN s[i] ELSE t[i - Len(s)]
  BY ConcatProperties DEF Text
<1>2. /\ Len(s) \in Nat /\ Len(t) \in Nat /\ t \in Seq(Chars)
      /\ \A i \in 1 .. Len(t) : t[i] \in Chars
  BY LenProperties, ElementOfSeq DEF Text
<1> HIDE DEF u
<1>3. \A i \in Len(s) + 1 .. Len(u) : u[i] \in Chars
  BY <1>1, ElementOfSeq, <1>2
<1>4. /\ r \in Seq(Chars)
      /\ Len(r) = IF Len(s) + 1 <= Len(u) THEN Len(u) - (Len(s) + 1) + 1 ELSE 0
      /\ \A i \in 1 .. Len(u) - (Len(s) + 1) + 1 : r[i] = u[Len(s) + 1 + i - 1]
  BY <1>1, <1>2, <1>3, SubSeqProperties
<1> HIDE DEF r
<1>5. Len(r) = Len(t)
  BY <1>1, <1>2, <1>4
<1>6. ASSUME NEW i \in 1 .. Len(r)
      PROVE  r[i] = t[i]
  <2>1. /\ i \in 1 .. Len(u) - (Len(s) + 1) + 1
        /\ Len(s) + 1 + i - 1 = Len(s) + i
    BY <1>1, <1>2, <1>5
  <2>2. r[i] = u[Len(s) + i]
    BY <1>4, <2>1
  <2>3. /\ Len(s) + i \in 1 .. Len(s) + Len(t) /\ ~(Len(s) + i <= Len(s))
        /\ (Len(s) + i) - Len(s) = i
    BY <1>2, <1>5
  <2>4. QED
    BY <1>1, <2>2, <2>3
<1>7. r = t
  BY <1>2, <1>4, <1>5, <1>6, SeqEqual
<1>8. QED
  BY <1>7 DEF r, u

IsJoin(s, a, b) == s = a \o b

\* A text cut at two places: the piece between them.
LEMMA SplitLonger ==
  ASSUME NEW s \in Text, NEW a \in Text, NEW b \in Text,
         NEW x \in Text, NEW y \in Text,
         IsJoin(s, a, b), IsJoin(s, x, y), Len(x) >= Len(a)
  PROVE  \E z \in Text : IsJoin(x, a, z) /\ IsJoin(b, z, y)
<1>0. a \o b = x \o y
  BY DEF IsJoin
<1>1. /\ Len(a) \in Nat /\ Len(b) \in Nat /\ Len(x) \in Nat /\ Len(y) \in Nat
  BY LenProperties DEF Text
<1> DEFINE n == Len(a)
           p == SubSeq(x, 1, n)
           z == SubSeq(x, n + 1, Len(x))
<1>2. n \in 0 .. Len(x)
  BY <1>1
<1>3. /\ p \in Text /\ Len(p) = n /\ z \in Text /\ x = p \o z
      /\ \A i \in 1 .. n : p[i] = x[i]
  BY <1>2, CutParts DEF Text
<1> HIDE DEF p, z
<1>4. \A i \in 1 .. Len(p) : p[i] = a[i]
  <2>1. TAKE i \in 1 .. Len(p)
  <2>2. i \in 1 .. Len(a) + Len(b) /\ i \in 1 .. Len(x) + Len(y)
        /\ i <= Len(a) /\ i <= Len(x)
    BY <1>1, <1>2, <1>3
  <2>3. (a \o b)[i] = a[i]
    BY <2>2, ConcatProperties DEF Text
  <2>4. (x \o y)[i] = x[i]
    BY <2>2, ConcatProperties DEF Text
  <2>5. QED
    BY <1>0, <1>3, <2>3, <2>4
<1>5. p = a
  BY <1>3, <1>4, SeqEqual DEF Text
<1>6. x = a \o z
  BY <1>3, <1>5
<1>7. a \o b = a \o (z \o y)
  <2>1. a \o b = (a \o z) \o y
    BY <1>0, <1>6
  <2>2. a \in Seq(Chars) /\ z \in Seq(Chars) /\ y \in Seq(Chars)
    BY <1>3 DEF Text
  <2> HIDE DEF n
  <2>3. (a \o z) \o y = a \o (z \o y)
    BY <2>2, ConcatAssociative
  <2>4. QED
    BY <2>1, <2>3
<1>8. z \o y \in Text
  BY <1>3, TextConcat
<1>9. b = z \o y
  BY <1>7, <1>8, ConcatSimplifications DEF Text
<1>10. QED
  BY <1>3, <1>6, <1>9 DEF IsJoin

LEMMA SplitShorter ==
  ASSUME NEW s \in Text, NEW a \in Text, NEW b \in Text,
         NEW x \in Text, NEW y \in Text,
         IsJoin(s, a, b), IsJoin(s, x, y), Len(x) < Len(a)
  PROVE  \E z \in Text : IsJoin(a, x, z) /\ z # <<>>
<1>1. Len(a) \in Nat /\ Len(x) \in Nat
  BY LenProperties DEF Text
<1>2. Len(a) >= Len(x)
  BY <1>1
<1>3. PICK z \in Text : IsJoin(a, x, z) /\ IsJoin(y, z, b)
  BY <1>2, SplitLonger
<1>4. z # <<>>
  <2>1. SUFFICES ASSUME z = <<>>
                 PROVE  FALSE
    OBVIOUS
  <2>2. a = x
    BY <1>3, <2>1, ConcatEmptySeq DEF Text, IsJoin
  <2>3. QED
    BY <1>1, <2>2
<1>5. QED
  BY <1>3, <1>4

(***************************************************************************)
(* parseMessage against formatMessage.                                     *)
(***************************************************************************)

\* The two blocks of a message that fits.
LEMMA FormatParts ==
  ASSUME NEW m \in XplMessages, Fits(m)
  PROVE  \E b1, b2 \in Text, n1, n2 \in Text :
           /\ Format(m) = b1 \o b2 /\ b1 = Block(<<m.type>>, HeaderPairs(m))
           /\ b2 = Block(m.schema, m.pairs)
           /\ ParseBlock(b1) = Standing("done", <<m.type>>, n1, <<>>,
                                        HeaderPairs(m), Len(b1))
           /\ ParseBlock(b2) = Standing("done", m.schema, n2, <<>>, m.pairs,
                                        Len(b2))
<1> DEFINE b1 == Block(<<m.type>>, HeaderPairs(m))
           b2 == Block(m.schema, m.pairs)
<1>1. FitsWord("header", <<m.type>>) /\ <<m.type>> # <<>>
  BY TypeWord
<1>2. FitsWord("header", m.schema) /\ m.schema # <<>>
  BY SchemaWord
<1>3. FitPairs(HeaderPairs(m)) /\ FitPairs(m.pairs)
  BY HeaderPairsFit, PairsFit
<1>4. b1 \in Text /\ b2 \in Text
  BY <1>1, <1>2, <1>3, BlockType DEF FitsWord, FitPairs
<1>5. PICK n1 \in Text :
        ParseBlock(b1) = Standing("done", <<m.type>>, n1, <<>>, HeaderPairs(m),
                                  Len(b1))
  BY <1>1, <1>3, LoopedBlock
<1>6. PICK n2 \in Text :
        ParseBlock(b2) = Standing("done", m.schema, n2, <<>>, m.pairs, Len(b2))
  BY <1>2, <1>3, LoopedBlock
<1>7. Format(m) = b1 \o b2
  BY DEF Format
<1>8. QED
  BY <1>4, <1>5, <1>6, <1>7

\* A whole message is parsed to itself.
LEMMA ParsesWhole ==
  ASSUME NEW m \in XplMessages, Fits(m)
  PROVE  ParseMessage(Format(m)) = m
<1>1. PICK b1, b2 \in Text, n1, n2 \in Text :
        /\ Format(m) = b1 \o b2
        /\ ParseBlock(b1) = Standing("done", <<m.type>>, n1, <<>>,
                                     HeaderPairs(m), Len(b1))
        /\ ParseBlock(b2) = Standing("done", m.schema, n2, <<>>, m.pairs,
                                     Len(b2))
  BY FormatParts
<1> DEFINE text   == Format(m)
           first  == ParseBlock(text)
           second == ParseBlock(SubSeq(text, first.pos + 1, Len(text)))
           schema == IF second.state = "header" THEN first.header
                     ELSE second.header
<1>2. first = Standing("done", <<m.type>>, n1, <<>>, HeaderPairs(m), Len(b1))
  <2>1. ParseBlock(b1 \o b2) = Looped(ParseBlock(b1), b2)
    BY FreshType, LoopedConcat DEF ParseBlock
  <2>2. ParseBlock(b1).state = "done"
    BY <1>1, StateFields
  <2>3. ParseBlock(b1) \in BlockStates
    BY FreshType, LoopedType DEF ParseBlock
  <2>4. Looped(ParseBlock(b1), b2) = ParseBlock(b1)
    BY <2>2, <2>3, LoopedStopped
  <2>5. QED
    BY <1>1, <2>1, <2>4
<1>3. first.state = "done" /\ first.header = <<m.type>>
      /\ first.pairs = HeaderPairs(m) /\ first.pos = Len(b1)
  <2> HIDE DEF first
  <2>1. QED
    BY <1>2, StateFields
<1>4. SubSeq(text, Len(b1) + 1, Len(text)) = b2
  BY <1>1, RestOfConcat
<1>5. second = ParseBlock(b2)
  <2> HIDE DEF first
  <2>1. QED
    BY <1>3, <1>4
<1>6. second.state = "done" /\ second.header = m.schema
      /\ second.pairs = m.pairs
  <2> HIDE DEF second
  <2>1. QED
    BY <1>1, <1>5, StateFields
<1>7. schema = m.schema
  <2> HIDE DEF first, second
  <2>1. QED
    BY <1>6
<1>8. m.type \in Types /\ <<m.type>>[1] = m.type
  BY DEF XplMessages
<1>9. At(m.schema, ".", 1) # 0
  BY DEF Fits
<1>10. m = [type |-> m.type, source |-> m.source, target |-> m.target,
            schema |-> m.schema, pairs |-> m.pairs]
  BY DEF XplMessages
<1>11. ParseMessage(text)
         = IF /\ first.state = "done"
              /\ first.header \in {<<t>> : t \in Types}
              /\ HeaderGood(first.pairs)
              /\ Complete(second)
              /\ At(schema, ".", 1) # 0
           THEN [type |-> first.header[1],
                 source |-> ValueOf(first.pairs, "source"),
                 target |-> ValueOf(first.pairs, "target"),
                 schema |-> schema, pairs |-> second.pairs]
           ELSE Absent
  BY DEF ParseMessage
<1> HIDE DEF text, first, second, schema
<1>12. Complete(second)
  BY <1>6 DEF Complete
<1>13. HeaderGood(first.pairs)
       /\ ValueOf(first.pairs, "source") = m.source
       /\ ValueOf(first.pairs, "target") = m.target
  BY <1>3, HeaderValues
<1>14. first.header \in {<<t>> : t \in Types}
  BY <1>3, <1>8
<1>15. ParseMessage(text) = [type |-> first.header[1],
                 source |-> ValueOf(first.pairs, "source"),
                 target |-> ValueOf(first.pairs, "target"),
                 schema |-> schema, pairs |-> second.pairs]
  BY <1>3, <1>7, <1>9, <1>11, <1>12, <1>13, <1>14
<1>16. ParseMessage(text) = m
  BY <1>3, <1>6, <1>7, <1>8, <1>10, <1>13, <1>15
<1>17. QED
  BY <1>16 DEF text

\* A message that is cut off is none.
LEMMA ParsesCut ==
  ASSUME NEW m \in XplMessages, Fits(m),
         NEW x \in Text, NEW y \in Text, y # <<>>, Format(m) = x \o y
  PROVE  ParseMessage(x) = Absent
<1>1. PICK b1, b2 \in Text, n1, n2 \in Text :
        /\ Format(m) = b1 \o b2 /\ b1 = Block(<<m.type>>, HeaderPairs(m))
        /\ b2 = Block(m.schema, m.pairs)
        /\ ParseBlock(b1) = Standing("done", <<m.type>>, n1, <<>>,
                                     HeaderPairs(m), Len(b1))
        /\ ParseBlock(b2) = Standing("done", m.schema, n2, <<>>, m.pairs,
                                     Len(b2))
  BY FormatParts
<1>2. /\ FitsWord("header", <<m.type>>) /\ <<m.type>> # <<>>
      /\ FitPairs(HeaderPairs(m)) /\ m.type # "."
      /\ FitsWord("header", m.schema) /\ m.schema # <<>> /\ FitPairs(m.pairs)
  BY TypeWord, SchemaWord, HeaderPairsFit, PairsFit
<1>3. /\ Len(x) \in Nat /\ Len(y) \in Nat /\ Len(b1) \in Nat /\ Len(b2) \in Nat
  BY LenProperties DEF Text
<1>0. /\ Format(m) \in Text
      /\ IsJoin(Format(m), b1, b2) /\ IsJoin(Format(m), x, y)
  BY <1>1, TextConcat DEF IsJoin
<1> DEFINE first  == ParseBlock(x)
           rest   == SubSeq(x, first.pos + 1, Len(x))
           second == ParseBlock(rest)
           schema == IF second.state = "header" THEN first.header
                     ELSE second.header
           Good   == /\ first.state = "done"
                     /\ first.header \in {<<t>> : t \in Types}
                     /\ HeaderGood(first.pairs)
                     /\ Complete(second)
                     /\ At(schema, ".", 1) # 0
<1>4. ~Good => ParseMessage(x) = Absent
  BY DEF ParseMessage
<1>5. CASE Len(x) < Len(b1)
  <2>1. PICK z \in Text : b1 = x \o z /\ z # <<>>
    <3> HIDE DEF first, rest, second, schema, Good
    <3>1. PICK z \in Text : IsJoin(b1, x, z) /\ z # <<>>
      BY <1>0, <1>5, SplitShorter
    <3>2. b1 = x \o z /\ z # <<>>
      BY <3>1 DEF IsJoin
    <3>3. QED
      BY <3>2
  <2>2. first.state # "done"
    BY <1>1, <1>2, <2>1, BlockCut
  <2> HIDE DEF first
  <2>3. QED
    BY <1>4, <2>2
<1>6. CASE Len(x) >= Len(b1)
  <2>1. PICK z \in Text : x = b1 \o z /\ b2 = z \o y
    <3> HIDE DEF first, rest, second, schema, Good
    <3>1. PICK z \in Text : IsJoin(x, b1, z) /\ IsJoin(b2, z, y)
      BY <1>0, <1>6, SplitLonger
    <3>2. x = b1 \o z /\ b2 = z \o y
      BY <3>1 DEF IsJoin
    <3>3. QED
      BY <3>2
  <2>2. first = ParseBlock(b1)
    <3>1. ParseBlock(b1 \o z) = Looped(ParseBlock(b1), z)
      BY FreshType, LoopedConcat DEF ParseBlock
    <3>2. ParseBlock(b1).state = "done"
      BY <1>1, StateFields
    <3>3. ParseBlock(b1) \in BlockStates
      BY FreshType, LoopedType DEF ParseBlock
    <3>4. Looped(ParseBlock(b1), z) = ParseBlock(b1)
      BY <3>2, <3>3, LoopedStopped
    <3>5. QED
      BY <2>1, <3>1, <3>4
  <2>3. first.header = <<m.type>> /\ first.pos = Len(b1)
    <3> HIDE DEF first
    <3>1. QED
      BY <1>1, <2>2, StateFields
  <2>4. rest = z
    <3>1. SubSeq(b1 \o z, Len(b1) + 1, Len(b1 \o z)) = z
      BY RestOfConcat
    <3> HIDE DEF first
    <3>2. QED
      BY <2>1, <2>3, <3>1
  <2>5. second.state # "done" /\ (z # <<>> => Begun(second))
    <3>1. /\ ParseBlock(z).state # "done"
          /\ z # <<>> => Begun(ParseBlock(z))
      BY <1>1, <1>2, <2>1, BlockCut
    <3> HIDE DEF rest
    <3>2. QED
      BY <2>4, <3>1
  <2>6. CASE z # <<>>
    <3>1. ~Complete(second)
      <4> HIDE DEF second
      <4>1. QED
        BY <2>5, <2>6 DEF Complete, Begun
    <3> HIDE DEF first, second, schema
    <3>2. QED
      BY <1>4, <3>1
  <2>7. CASE z = <<>>
    <3>1. second = Fresh
      <4>1. Looped(Fresh, <<>>) = Fresh
        BY FreshType, LoopedEmpty
      <4> HIDE DEF rest
      <4>2. QED
        BY <2>4, <2>7, <4>1 DEF ParseBlock
    <3>2. second.state = "header"
      <4> HIDE DEF second
      <4>1. QED
        BY <3>1 DEF Fresh
    <3>3. schema = <<m.type>>
      <4> HIDE DEF second, first
      <4>1. QED
        BY <2>3, <3>2
    <3>4. At(<<m.type>>, ".", 1) = 0
      <4> DEFINE w == <<m.type>>
      <4>1. w \in Text
        BY <1>2 DEF FitsWord
      <4>2. Len(w) = 1 /\ w[1] = m.type
        OBVIOUS
      <4> HIDE DEF w
      <4>3. ~\E i \in 1 .. Len(w) : w[i] = "."
        BY <1>2, <4>2
      <4>4. At(w, ".", 1) = 0
        BY <4>1, <4>3, AtNone
      <4>5. QED
        BY <4>4 DEF w
    <3> HIDE DEF first, second, schema
    <3>5. QED
      BY <1>4, <3>3, <3>4
  <2>8. QED
    BY <2>6, <2>7
<1>7. QED
  BY <1>3, <1>5, <1>6

\* What can be formatted is a text, and a datagram holds it.
LEMMA DatagramType ==
  ASSUME NEW m \in XplMessages
  PROVE  /\ Format(m) \in Text
         /\ Datagram(m) \in Datagrams
         /\ Datagram(m).of = m /\ Datagram(m).text = Format(m)
<1>1. /\ m.type \in Types /\ m.source \in Text /\ m.target \in Text
      /\ m.schema \in Text /\ m.pairs \in Seq(Text \X Text)
  BY DEF XplMessages
<1>2. /\ <<"hop">> \in Text /\ <<"1">> \in Text /\ <<"source">> \in Text
      /\ <<"target">> \in Text /\ <<m.type>> \in Text
  BY <1>1, Letters, TextOne
<1>3. HeaderPairs(m) \in Seq(Text \X Text)
  BY <1>1, <1>2 DEF HeaderPairs
<1> DEFINE b1 == Block(<<m.type>>, HeaderPairs(m))
           b2 == Block(m.schema, m.pairs)
<1>4. b1 \in Text /\ b2 \in Text
  BY <1>1, <1>2, <1>3, BlockType
<1>5. Format(m) = b1 \o b2
  BY DEF Format
<1> HIDE DEF b1, b2
<1>6. Format(m) \in Text
  BY <1>4, <1>5, TextConcat
<1>7. QED
  BY <1>6 DEF Datagram, Datagrams

(***************************************************************************)
(* What the receiver makes of the datagram of a message that fits.         *)
(***************************************************************************)
LEMMA ReadBack ==
  ASSUME NEW m \in XplMessages, Fits(m)
  PROVE  ParseMessage(Read(Format(m)))
           = IF Len(Format(m)) < RxSize THEN m ELSE Absent
<1> DEFINE s == Format(m)
<1>1. s \in Text
  BY DatagramType
<1>2. Len(s) \in Nat /\ RxSize \in Nat /\ RxSize >= 1
  <2>1. MaxSize \in Nat /\ RxSize = MaxSize + 1
    BY MessageAssumption
  <2>2. QED
    BY <1>1, <2>1, LenProperties DEF Text
<1>3. CASE Len(s) < RxSize
  <2>1. Read(s) = s
    BY <1>1, <1>3, SubSeqFull DEF Read, Text
  <2>2. QED
    BY <1>3, <2>1, ParsesWhole
<1>4. CASE ~(Len(s) < RxSize)
  <2> DEFINE n == RxSize - 1
             x == SubSeq(s, 1, n)
             y == SubSeq(s, n + 1, Len(s))
  <2>1. n \in 0 .. Len(s) /\ Len(s) - n >= 1
    BY <1>2, <1>4
  <2>2. /\ x \in Text /\ y \in Text /\ Len(y) = Len(s) - n /\ s = x \o y
    BY <1>1, <2>1, CutParts DEF Text
  <2>3. Read(s) = x
    BY <1>4 DEF Read
  <2> HIDE DEF x, y
  <2>4. y # <<>>
    BY <2>1, <2>2
  <2>5. ParseMessage(x) = Absent
    BY <2>2, <2>4, ParsesCut
  <2>6. QED
    BY <1>4, <2>3, <2>5
<1>5. QED
  BY <1>3, <1>4

(***************************************************************************)
(* The invariant.                                                          *)
(***************************************************************************)

\* The text of a datagram is that of the message it stands for.
Stands(d) == d # Absent /\ d.of # Absent => d.text = Format(d.of)

\* The hash has each key once, with the value last given to it.
HashIsGiven ==
  /\ hash # Absent =>
       /\ \A i, j \in DOMAIN hash : hash[i][1] = hash[j][1] => i = j
       /\ \A i \in DOMAIN hash : since[hash[i][1]] = hash[i][2]
  /\ \A k \in Keys : since[k] # Absent
       => hash # Absent /\ \E i \in DOMAIN hash : hash[i][1] = k

MsgInv ==
  /\ MsgTypeOK
  /\ Stands(wire) /\ Stands(heard)
  /\ heard # Absent => got = ParseMessage(Read(heard.text))
  /\ HashIsGiven

\* What ParseMessage is made of.
LEMMA AfterType ==
  ASSUME NEW s \in Text, NEW n \in Nat
  PROVE  SubSeq(s, n + 1, Len(s)) \in Text
<1>1. s \in Seq(Chars) /\ Len(s) \in Nat
  BY LenProperties DEF Text
<1>2. \A i \in n + 1 .. Len(s) : s[i] \in Chars
  BY <1>1, ElementOfSeq
<1>3. n + 1 \in Int /\ Len(s) \in Int
  BY <1>1
<1>4. QED
  BY <1>2, <1>3, SubSeqProperties DEF Text

LEMMA ValueOfType ==
  ASSUME NEW ps \in Seq(Text \X Text), NEW name, Named(ps, name)
  PROVE  ValueOf(ps, name) \in Text
<1> DEFINE S == {i \in DOMAIN ps : ps[i][1] = <<name>>}
<1>1. DOMAIN ps = 1 .. Len(ps) /\ Len(ps) \in Nat
  BY LenProperties
<1>2. S \in SUBSET Nat /\ S # {}
  BY <1>1 DEF Named
<1>3. PICK m \in S : \A k \in S : m <= k
  <2> HIDE DEF S
  <2>1. QED
    BY <1>2, HasLeast
<1>4. /\ m \in DOMAIN ps /\ ps[m][1] = <<name>>
      /\ \A j \in 1 .. m - 1 : ps[j][1] # <<name>>
  <2>1. ASSUME NEW j \in 1 .. m - 1
        PROVE  j \in DOMAIN ps /\ ~(m <= j)
    BY <1>1, <1>3
  <2>2. QED
    BY <1>3, <2>1
<1> DEFINE Is(i) == /\ ps[i][1] = <<name>>
                    /\ \A j \in 1 .. i - 1 : ps[j][1] # <<name>>
           n == CHOOSE i \in DOMAIN ps : Is(i)
<1>5. n \in DOMAIN ps
  <2>1. \E i \in DOMAIN ps : Is(i)
    BY <1>4
  <2> HIDE DEF Is
  <2>2. QED
    BY <2>1
<1>6. ValueOf(ps, name) = ps[n][2]
  BY DEF ValueOf
<1> HIDE DEF n
<1>7. ps[n] \in Text \X Text
  BY <1>1, <1>5, ElementOfSeq
<1>8. QED
  BY <1>6, <1>7

\* parseMessage returns a message or none.
LEMMA ParseMessageType ==
  ASSUME NEW text \in Text
  PROVE  ParseMessage(text) \in XplMessages \union {Absent}
<1> DEFINE first  == ParseBlock(text)
           second == ParseBlock(SubSeq(text, first.pos + 1, Len(text)))
           schema == IF second.state = "header" THEN first.header
                     ELSE second.header
           Good   == /\ first.state = "done"
                     /\ first.header \in {<<t>> : t \in Types}
                     /\ HeaderGood(first.pairs)
                     /\ Complete(second)
                     /\ At(schema, ".", 1) # 0
           message == [type |-> first.header[1],
                       source |-> ValueOf(first.pairs, "source"),
                       target |-> ValueOf(first.pairs, "target"),
                       schema |-> schema, pairs |-> second.pairs]
<1>1. first \in BlockStates
  BY FreshType, LoopedType DEF ParseBlock
<1>2. second \in BlockStates
  <2>1. first.pos \in Nat
    <3> HIDE DEF first
    <3>1. QED
      BY <1>1 DEF BlockStates
  <2> HIDE DEF first
  <2>2. SubSeq(text, first.pos + 1, Len(text)) \in Text
    BY <2>1, AfterType
  <2>3. QED
    BY <2>2, FreshType, LoopedType DEF ParseBlock
<1>3. ParseMessage(text) = IF Good THEN message ELSE Absent
  BY DEF ParseMessage
<1> HIDE DEF first, second
<1>4. schema \in Text /\ second.pairs \in Seq(Text \X Text)
      /\ first.pairs \in Seq(Text \X Text)
  BY <1>1, <1>2 DEF BlockStates
<1>5. ASSUME Good
      PROVE  message \in XplMessages
  <2>1. first.header[1] \in Types
    BY <1>5
  <2>2. Named(first.pairs, "source") /\ Named(first.pairs, "target")
    BY <1>5 DEF HeaderGood
  <2>3. /\ ValueOf(first.pairs, "source") \in Text
        /\ ValueOf(first.pairs, "target") \in Text
    BY <1>4, <2>2, ValueOfType
  <2> HIDE DEF schema
  <2>4. QED
    BY <1>4, <2>1, <2>3 DEF XplMessages
<1> HIDE DEF Good, message
<1>6. QED
  BY <1>3, <1>5

\* What is received is a text.
LEMMA ReadType ==
  ASSUME NEW s \in Text
  PROVE  Read(s) \in Text
<1>1. Len(s) \in Nat /\ s \in Seq(Chars) /\ RxSize \in Nat \ {0}
  <2>1. MaxSize \in Nat /\ RxSize = MaxSize + 1
    BY MessageAssumption
  <2>2. QED
    BY <2>1, LenProperties DEF Text
<1> DEFINE n == IF Len(s) < RxSize THEN Len(s) ELSE RxSize - 1
<1>2. n \in 0 .. Len(s)
  BY <1>1
<1>3. Read(s) = SubSeq(s, 1, n)
  BY DEF Read
<1> HIDE DEF n
<1>4. QED
  BY <1>1, <1>2, <1>3, CutParts DEF Text

\* The pairs of a hash are pairs of texts, and none of them is absent.
LEMMA HashTexts ==
  /\ Hashes \subseteq Seq(Text \X Text)
  /\ \A h \in Hashes : h # Absent
  /\ \A v \in Values : v # Absent
<1>1. /\ Keys \subseteq Text /\ Values \subseteq Text
      /\ Absent \notin Text /\ Absent \notin Hashes
  BY MessageAssumption
<1>2. Keys \X Values \subseteq Text \X Text
  BY <1>1
<1>3. Hashes \subseteq Seq(Text \X Text)
  BY <1>2, SeqMonotonic DEF Hashes
<1>4. QED
  BY <1>1, <1>3

\* What ParserHashAddKeyValue makes of a hash that has each key once.
LEMMA AssignedHash ==
  ASSUME NEW h \in Hashes \union {Absent}, NEW k \in Keys, NEW v \in Values,
         h # Absent =>
           \A i, j \in DOMAIN h : h[i][1] = h[j][1] => i = j
  PROVE  LET g == Assigned(h, k, v)
         IN  /\ g \in Hashes
             /\ \A i, j \in DOMAIN g : g[i][1] = g[j][1] => i = j
             /\ \E i \in DOMAIN g : g[i] = <<k, v>>
             /\ \A i \in DOMAIN g :
                  \/ g[i] = <<k, v>>
                  \/ h # Absent /\ i \in DOMAIN h /\ g[i] = h[i] /\ h[i][1] # k
             /\ h # Absent =>
                  \A i \in DOMAIN h : i \in DOMAIN g /\ g[i][1] = h[i][1]
<1> DEFINE g == Assigned(h, k, v)
           Has == h # Absent /\ \E i \in DOMAIN h : h[i][1] = k
<1>1. ASSUME h # Absent
      PROVE  /\ Len(h) \in Nat /\ DOMAIN h = 1 .. Len(h)
             /\ h \in Seq(Keys \X Values)
             /\ \A i \in 1 .. Len(h) : h[i] \in Keys \X Values
  BY <1>1, LenProperties, ElementOfSeq DEF Hashes
<1>2. CASE Has
  <2>1. g = [i \in DOMAIN h |-> IF h[i][1] = k THEN <<k, v>> ELSE h[i]]
    BY <1>2 DEF Assigned
  <2> HIDE DEF g
  <2>2. /\ DOMAIN g = 1 .. Len(h) /\ DOMAIN h = 1 .. Len(h)
        /\ \A i \in 1 .. Len(h) :
             g[i] = IF h[i][1] = k THEN <<k, v>> ELSE h[i]
    BY <1>1, <1>2, <2>1
  <2>3. g \in [1 .. Len(h) -> Keys \X Values]
    BY <1>1, <1>2, <2>1
  <2>4. g \in Hashes
    BY <1>1, <1>2, <2>3, SeqDef DEF Hashes
  <2>5. \A i \in 1 .. Len(h) : g[i][1] = h[i][1]
    BY <2>2
  <2>6. \A i, j \in DOMAIN g : g[i][1] = g[j][1] => i = j
    BY <1>2, <2>2, <2>5
  <2>7. \E i \in DOMAIN g : g[i] = <<k, v>>
    BY <1>2, <2>2
  <2>8. QED
    BY <1>2, <2>2, <2>4, <2>5, <2>6, <2>7 DEF g
<1>3. CASE ~Has
  <2> DEFINE f == IF h = Absent THEN <<>> ELSE h
  <2>1. g = Append(f, <<k, v>>)
    BY <1>3 DEF Assigned
  <2>2. f \in Seq(Keys \X Values) /\ <<k, v>> \in Keys \X Values
    BY <1>1, EmptySeq
  <2>3. /\ DOMAIN f = 1 .. Len(f) /\ Len(f) \in Nat
        /\ h = Absent => Len(f) = 0
        /\ h # Absent => f = h
    BY <2>2, LenProperties, EmptySeq
  <2> HIDE DEF f, g
  <2>4. /\ g \in Seq(Keys \X Values) /\ Len(g) = Len(f) + 1
        /\ \A i \in 1 .. Len(f) : g[i] = f[i]
        /\ g[Len(f) + 1] = <<k, v>>
    BY <2>1, <2>2, AppendProperties
  <2>5. DOMAIN g = 1 .. Len(f) + 1
    BY <2>4, LenProperties
  <2>6. \A i \in 1 .. Len(f) :
          h # Absent /\ i \in DOMAIN h /\ g[i] = h[i] /\ h[i][1] # k
    BY <1>3, <2>3, <2>4
  <2>7. \A i \in DOMAIN g : i \in 1 .. Len(f) \/ i = Len(f) + 1
    BY <2>3, <2>5
  <2>8. g[Len(f) + 1][1] = k /\ Len(f) + 1 \in DOMAIN g
    BY <2>3, <2>4, <2>5
  <2>9. ASSUME NEW i \in DOMAIN g, NEW j \in DOMAIN g, g[i][1] = g[j][1]
        PROVE  i = j
    <3>1. CASE i \in 1 .. Len(f) /\ j \in 1 .. Len(f)
      BY <2>6, <2>9, <3>1
    <3>2. CASE i = Len(f) + 1 /\ j \in 1 .. Len(f)
      BY <2>6, <2>8, <2>9, <3>2
    <3>3. CASE i \in 1 .. Len(f) /\ j = Len(f) + 1
      BY <2>6, <2>8, <2>9, <3>3
    <3>4. QED
      BY <2>7, <3>1, <3>2, <3>3
  <2>10. \A i \in DOMAIN g :
           \/ g[i] = <<k, v>>
           \/ h # Absent /\ i \in DOMAIN h /\ g[i] = h[i] /\ h[i][1] # k
    BY <2>4, <2>6, <2>7
  <2>11. h # Absent =>
           \A i \in DOMAIN h : i \in DOMAIN g /\ g[i][1] = h[i][1]
    BY <2>3, <2>5, <2>6
  <2>12. \E i \in DOMAIN g : g[i] = <<k, v>>
    BY <2>4, <2>8
  <2>13. g \in Hashes
    BY <2>4 DEF Hashes
  <2>14. QED
    BY <2>9, <2>10, <2>11, <2>12, <2>13 DEF g
<1>4. QED
  BY <1>2, <1>3

\* The invariant holds when the script begins.
LEMMA MsgInvInit == MsgInit => MsgInv
<1>1. SUFFICES ASSUME MsgInit
               PROVE  MsgInv
  OBVIOUS
<1>2. MaxSteps \in Nat
  BY MessageAssumption
<1>3. MsgTypeOK
  BY <1>1, <1>2 DEF MsgInit, MsgTypeOK
<1>4. HashIsGiven
  BY <1>1 DEF MsgInit, HashIsGiven
<1>5. QED
  BY <1>1, <1>3, <1>4 DEF MsgInit, MsgInv, Stands

\* Each action keeps it: the assignment to the hash,
LEMMA AssignKeeps ==
  ASSUME MsgInv, NEW k \in Keys, NEW v \in Values, Assign(k, v)
  PROVE  MsgInv'
<1> DEFINE g == Assigned(hash, k, v)
<1>1. /\ hash' = g /\ since' = [since EXCEPT ![k] = v]
      /\ steps' = steps + 1 /\ steps < MaxSteps
      /\ wire' = wire /\ got' = got /\ script' = script /\ heard' = heard
  BY DEF Assign
<1>2. MsgTypeOK /\ HashIsGiven
  BY DEF MsgInv
<1>3. /\ hash \in Hashes \union {Absent} /\ steps \in 0 .. MaxSteps
      /\ since \in [Keys -> Values \union {Absent}] /\ MaxSteps \in Nat
  BY <1>2, MessageAssumption DEF MsgTypeOK
<1>4. hash # Absent =>
        /\ \A i, j \in DOMAIN hash : hash[i][1] = hash[j][1] => i = j
        /\ \A i \in DOMAIN hash : since[hash[i][1]] = hash[i][2]
  BY <1>2 DEF HashIsGiven
<1>5. \A l \in Keys : since[l] # Absent
        => hash # Absent /\ \E i \in DOMAIN hash : hash[i][1] = l
  BY <1>2 DEF HashIsGiven
<1>6. /\ g \in Hashes
      /\ \A i, j \in DOMAIN g : g[i][1] = g[j][1] => i = j
      /\ \E i \in DOMAIN g : g[i] = <<k, v>>
      /\ \A i \in DOMAIN g :
           \/ g[i] = <<k, v>>
           \/ /\ hash # Absent /\ i \in DOMAIN hash /\ g[i] = hash[i]
              /\ hash[i][1] # k
      /\ hash # Absent =>
           \A i \in DOMAIN hash : i \in DOMAIN g /\ g[i][1] = hash[i][1]
  BY <1>3, <1>4, AssignedHash
<1> HIDE DEF g
<1>7. g # Absent /\ v # Absent
  BY <1>6, HashTexts
<1>8. /\ since' \in [Keys -> Values \union {Absent}]
      /\ \A l \in Keys : since'[l] = IF l = k THEN v ELSE since[l]
  BY <1>1, <1>3
<1>9. \A i \in DOMAIN hash : hash # Absent => hash[i][1] \in Keys
  BY <1>3, LenProperties, ElementOfSeq DEF Hashes
<1>10. ASSUME NEW i \in DOMAIN g
       PROVE  since'[g[i][1]] = g[i][2]
  <2>1. CASE g[i] = <<k, v>>
    BY <1>8, <2>1
  <2>2. CASE /\ hash # Absent /\ i \in DOMAIN hash /\ g[i] = hash[i]
             /\ hash[i][1] # k
    BY <1>4, <1>8, <1>9, <2>2
  <2>3. QED
    BY <1>6, <2>1, <2>2
<1>11. ASSUME NEW l \in Keys, since'[l] # Absent
       PROVE  \E i \in DOMAIN g : g[i][1] = l
  <2>1. CASE l = k
    BY <1>6, <2>1
  <2>2. CASE l # k
    BY <1>5, <1>6, <1>8, <1>11, <2>2
  <2>3. QED
    BY <2>1, <2>2
<1>12. HashIsGiven'
  BY <1>1, <1>6, <1>7, <1>10, <1>11 DEF HashIsGiven
<1>13. MsgTypeOK'
  BY <1>1, <1>2, <1>3, <1>6, <1>8 DEF MsgTypeOK
<1>14. QED
  BY <1>1, <1>12, <1>13 DEF MsgInv, Stands

\* A command's message is one that the receiver's types hold.
LEMMA CommandMessage ==
  ASSUME hash \in Hashes, NEW t \in Tags
  PROVE  [type |-> "xpl-cmnd", source |-> Source, target |-> t,
          schema |-> Schema, pairs |-> hash] \in XplMessages
<1>1. Source \in Text /\ t \in Text /\ Schema \in Text
  BY MessageAssumption
<1>2. hash \in Seq(Text \X Text)
  BY HashTexts
<1>3. QED
  BY <1>1, <1>2 DEF XplMessages, Types

\* the command, which empties the hash,
LEMMA XplCmdKeeps ==
  ASSUME MsgInv, NEW t \in Tags, XplCmd(t)
  PROVE  MsgInv'
<1>1. MsgTypeOK /\ HashIsGiven /\ Stands(wire) /\ Stands(heard)
  BY DEF MsgInv
<1>2. /\ steps' = steps + 1 /\ steps < MaxSteps
      /\ got' = got /\ heard' = heard
  BY DEF XplCmd
<1>3. /\ hash \in Hashes \union {Absent} /\ steps' \in 0 .. MaxSteps
      /\ since \in [Keys -> Values \union {Absent}]
      /\ {wire, heard} \subseteq Datagrams \union {Absent}
      /\ got \in XplMessages \union {Absent}
      /\ script \in {"runs", "failed", "aborted"}
  <2>1. MaxSteps \in Nat
    BY MessageAssumption
  <2>2. QED
    BY <1>1, <1>2, <2>1 DEF MsgTypeOK
<1>4. CASE SplitsTag(t) /\ hash # Absent
  <2> DEFINE m == [type |-> "xpl-cmnd", source |-> Source, target |-> t,
                   schema |-> Schema, pairs |-> hash]
  <2>1. /\ wire' = (IF FitsBuffer(Format(m)) THEN Datagram(m) ELSE wire)
        /\ hash' = <<>> /\ since' = [l \in Keys |-> Absent]
        /\ script' = script
    BY <1>4 DEF XplCmd, Emptied
  <2>2. m \in XplMessages
    BY <1>3, <1>4, CommandMessage
  <2> HIDE DEF m
  <2>3. /\ Datagram(m) \in Datagrams
        /\ Datagram(m).of = m /\ Datagram(m).text = Format(m)
    BY <2>2, DatagramType
  <2>4. wire' \in Datagrams \union {Absent} /\ Stands(wire)'
    BY <1>1, <1>3, <2>1, <2>3 DEF Stands
  <2>5. hash' \in Hashes /\ DOMAIN hash' = {}
    BY <2>1, EmptySeq DEF Hashes
  <2>6. HashIsGiven'
    BY <2>1, <2>5 DEF HashIsGiven
  <2>7. since' \in [Keys -> Values \union {Absent}]
    BY <2>1
  <2>8. MsgTypeOK'
    BY <1>2, <1>3, <2>1, <2>4, <2>5, <2>7 DEF MsgTypeOK
  <2>9. QED
    BY <1>1, <1>2, <2>4, <2>6, <2>8 DEF MsgInv, Stands
<1>5. CASE ~(SplitsTag(t) /\ hash # Absent)
  <2>1. /\ script' \in {"aborted", "failed"}
        /\ hash' = hash /\ wire' = wire /\ since' = since
    BY <1>5 DEF XplCmd
  <2>2. MsgTypeOK'
    BY <1>2, <1>3, <2>1 DEF MsgTypeOK
  <2>3. HashIsGiven'
    BY <1>1, <2>1 DEF HashIsGiven
  <2>4. QED
    BY <1>1, <1>2, <2>1, <2>2, <2>3 DEF MsgInv, Stands
<1>6. QED
  BY <1>4, <1>5

\* another node's datagram, formatted or not,
LEMMA NodeSendsKeeps ==
  ASSUME MsgInv, NEW d \in Datagrams, NodeSends(d),
         d.of # Absent => d.text = Format(d.of)
  PROVE  MsgInv'
<1>1. /\ wire' = d /\ hash' = hash /\ got' = got /\ script' = script
      /\ steps' = steps /\ since' = since /\ heard' = heard
  BY DEF NodeSends
<1>2. MsgTypeOK'
  BY <1>1 DEF MsgInv, MsgTypeOK
<1>3. HashIsGiven'
  BY <1>1 DEF MsgInv, HashIsGiven
<1>4. QED
  BY <1>1, <1>2, <1>3 DEF MsgInv, Stands

\* the receiver, which parses what fits into its buffer,
LEMMA ReceiveKeeps ==
  ASSUME MsgInv, Receive
  PROVE  MsgInv'
<1>1. /\ got' = ParseMessage(Read(wire.text)) /\ heard' = wire
      /\ wire' = Absent /\ wire # Absent
      /\ hash' = hash /\ script' = script /\ steps' = steps /\ since' = since
  BY DEF Receive
<1>2. wire \in Datagrams
  BY <1>1 DEF MsgInv, MsgTypeOK
<1>3. wire.text \in Text
  BY <1>2 DEF Datagrams
<1>4. got' \in XplMessages \union {Absent}
  BY <1>1, <1>3, ReadType, ParseMessageType
<1>5. MsgTypeOK'
  BY <1>1, <1>2, <1>4 DEF MsgInv, MsgTypeOK
<1>6. HashIsGiven'
  BY <1>1 DEF MsgInv, HashIsGiven
<1>7. QED
  BY <1>1, <1>5, <1>6 DEF MsgInv, Stands

\* and the loss of a datagram.
LEMMA LoseKeeps ==
  ASSUME MsgInv, Lose
  PROVE  MsgInv'
<1>1. /\ wire' = Absent /\ hash' = hash /\ got' = got /\ script' = script
      /\ steps' = steps /\ since' = since /\ heard' = heard
  BY DEF Lose
<1>2. MsgTypeOK'
  BY <1>1 DEF MsgInv, MsgTypeOK
<1>3. HashIsGiven'
  BY <1>1 DEF MsgInv, HashIsGiven
<1>4. QED
  BY <1>1, <1>2, <1>3 DEF MsgInv, Stands

LEMMA MsgInvNext == MsgInv /\ [MsgNext]_msgVars => MsgInv'
<1>1. SUFFICES ASSUME MsgInv, [MsgNext]_msgVars
               PROVE  MsgInv'
  OBVIOUS
<1>2. ASSUME NEW k \in Keys, NEW v \in Values, Assign(k, v)
      PROVE  MsgInv'
  BY <1>1, <1>2, AssignKeeps
<1>3. ASSUME NEW t \in Tags, XplCmd(t)
      PROVE  MsgInv'
  BY <1>1, <1>3, XplCmdKeeps
<1>4. ASSUME NEW m \in Formatted, NodeSends(Datagram(m))
      PROVE  MsgInv'
  <2>1. m \in XplMessages
    BY MessageAssumption
  <2>2. /\ Datagram(m) \in Datagrams
        /\ Datagram(m).text = Format(Datagram(m).of)
    BY <2>1, DatagramType
  <2>3. QED
    BY <1>1, <1>4, <2>2, NodeSendsKeeps
<1>5. ASSUME NEW text \in Foreign, NodeSends([text |-> text, of |-> Absent])
      PROVE  MsgInv'
  <2> DEFINE d == [text |-> text, of |-> Absent]
  <2>1. text \in Text
    BY MessageAssumption
  <2>2. d \in Datagrams /\ d.of = Absent
    BY <2>1 DEF Datagrams
  <2>3. NodeSends(d)
    BY <1>5
  <2> HIDE DEF d
  <2>4. QED
    BY <1>1, <2>2, <2>3, NodeSendsKeeps
<1>6. CASE Receive
  BY <1>1, <1>6, ReceiveKeeps
<1>7. CASE Lose
  BY <1>1, <1>7, LoseKeeps
<1>8. CASE UNCHANGED msgVars
  <2>1. MsgTypeOK'
    BY <1>1, <1>8 DEF MsgInv, MsgTypeOK, msgVars
  <2>2. HashIsGiven'
    BY <1>1, <1>8 DEF MsgInv, HashIsGiven, msgVars
  <2>3. QED
    BY <1>1, <1>8, <2>1, <2>2 DEF MsgInv, Stands, msgVars
<1>9. QED
  BY <1>1, <1>2, <1>3, <1>4, <1>5, <1>6, <1>7, <1>8 DEF MsgNext

(***************************************************************************)
(* A message's text is what formatMessage made of it, what the receiver    *)
(* has is what parseMessage makes of the datagram, and %xplout has each    *)
(* key once with the value last given to it.                               *)
(***************************************************************************)
THEOREM MsgInvAlways == MsgSpec => []MsgInv
<1>1. QED
  BY MsgInvInit, MsgInvNext, PTL DEF MsgSpec

(***************************************************************************)
(* The types of the state: the hash is a list of pairs, a datagram is a    *)
(* text, and parseMessage returns a message or none.                       *)
(***************************************************************************)
THEOREM MsgTypeCorrect == MsgSpec => []MsgTypeOK
<1>1. MsgInv => MsgTypeOK
  BY DEF MsgInv
<1>2. QED
  BY <1>1, MsgInvAlways, PTL

(***************************************************************************)
(* parseMessage gives back every message of formatMessage whose parts fit  *)
(* into the receiver's buffers, whatever its characters, its number of     *)
(* pairs and the sizes of the buffers, and none if recvfrom cut it off.    *)
(***************************************************************************)
THEOREM ReadsBackAlways == MsgSpec => []ReadsBack
<1>1. MsgInv => ReadsBack
  <2>1. SUFFICES ASSUME MsgInv, heard # Absent, heard.of # Absent,
                        Fits(heard.of)
                 PROVE  got = IF Len(heard.text) < RxSize THEN heard.of
                              ELSE Absent
    BY DEF ReadsBack
  <2>2. heard \in Datagrams
    BY <2>1 DEF MsgInv, MsgTypeOK
  <2>3. heard.of \in XplMessages
    BY <2>1, <2>2 DEF Datagrams
  <2>4. /\ heard.text = Format(heard.of)
        /\ got = ParseMessage(Read(heard.text))
    BY <2>1 DEF MsgInv, Stands
  <2>5. QED
    BY <2>1, <2>3, <2>4, ReadBack
<1>2. QED
  BY <1>1, MsgInvAlways, PTL

(***************************************************************************)
(* xplcmd sends exactly the pairs assigned to %xplout since the script's   *)
(* last command, each key once with its latest value: no pair is left over *)
(* from an earlier message (sendXPLCommand, deleteHashContents).           *)
(***************************************************************************)
THEOREM CommandPairsAlways == MsgSpec => CommandPairs
<1> DEFINE sent  == wire'.of.pairs
           given == {k \in Keys : since[k] # Absent}
           Right ==
             /\ \A i, j \in DOMAIN sent : sent[i][1] = sent[j][1] => i = j
             /\ {sent[i] : i \in DOMAIN sent} = {<<k, since[k]>> : k \in given}
<1>1. ASSUME MsgInv, NEW t \in Tags, XplCmd(t), wire' # wire
      PROVE  Right
  <2> DEFINE m == [type |-> "xpl-cmnd", source |-> Source, target |-> t,
                   schema |-> Schema, pairs |-> hash]
  <2>1. hash # Absent /\ wire' = Datagram(m)
    BY <1>1 DEF XplCmd
  <2>2. sent = hash
    BY <2>1 DEF Datagram
  <2>3. HashIsGiven /\ hash \in Hashes
    BY <1>1, <2>1 DEF MsgInv, MsgTypeOK
  <2>4. /\ \A i, j \in DOMAIN hash : hash[i][1] = hash[j][1] => i = j
        /\ \A i \in DOMAIN hash : since[hash[i][1]] = hash[i][2]
        /\ \A k \in given : \E i \in DOMAIN hash : hash[i][1] = k
    BY <2>1, <2>3 DEF HashIsGiven
  <2>5. ASSUME NEW i \in DOMAIN hash
        PROVE  /\ hash[i][1] \in given
               /\ hash[i] = <<hash[i][1], since[hash[i][1]]>>
    <3>1. hash[i] \in Keys \X Values
      BY <2>3, LenProperties, ElementOfSeq DEF Hashes
    <3>2. hash[i][2] # Absent
      BY <3>1, HashTexts
    <3>3. QED
      BY <2>4, <3>1, <3>2
  <2>6. ASSUME NEW k \in given
        PROVE  \E i \in DOMAIN hash : hash[i] = <<k, since[k]>>
    <3>1. PICK i \in DOMAIN hash : hash[i][1] = k
      BY <2>4
    <3> HIDE DEF given
    <3>2. QED
      BY <2>5, <3>1
  <2> HIDE DEF sent, given
  <2>7. {hash[i] : i \in DOMAIN hash} = {<<k, since[k]>> : k \in given}
    BY <2>5, <2>6
  <2>8. QED
    BY <2>2, <2>4, <2>7
<1>2. MsgInv => ((\E t \in Tags : XplCmd(t)) /\ wire' # wire => Right)
  BY <1>1
<1>3. MsgInv /\ [MsgNext]_msgVars
        => [(\E t \in Tags : XplCmd(t)) /\ wire' # wire => Right]_msgVars
  BY <1>2
<1>4. QED
  BY <1>3, MsgInvAlways, PTL DEF MsgSpec, CommandPairs

==============================================================================
