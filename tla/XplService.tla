---------------------------- MODULE XplService -----------------------------
(***************************************************************************)
(* The services of the xPL core (xplcore.c): the heartbeats each service   *)
(* sends, its search for a hub, and the dispatch of a received message to  *)
(* the listeners.                                                          *)
(*                                                                         *)
(* All of this runs on the main thread: xplTick, once a second, walks the  *)
(* list of services and sends the heartbeats that are due; rxReadyAction   *)
(* hands each received message to the services in the order of the list.   *)
(* A heartbeat goes to the network by broadcast and comes back only        *)
(* through a hub, which may be down, slow, or lose it.                     *)
(***************************************************************************)
EXTENDS Naturals, Sequences, FiniteSets

CONSTANTS
  Services,     \* the services that can be created, each its own source tag
  Others,       \* source tags of other nodes
  Traffic,      \* the messages that other nodes send
  Modes,        \* the report modes that XplAddMessageListener is called with
  Interval,     \* heartbeat interval (300 in the code)
  Discovery,    \* interval of the search for a hub (3)
  NoEcho,       \* interval when the search was given up (60)
  MaxTries,     \* heartbeats before the search is given up (40)
  NetCap,       \* bound on the messages on their way from the hub
  MaxRequests   \* bound on heartbeat requests between two heartbeats

\* The classes of messages that rxReadyAction tells apart; "nocommand" is an
\* hbeat.request without a pair named command.
Schemas == {"heartbeat", "group", "config", "request", "nocommand", "normal"}

Broadcast == "*"

Messages == [schema : Schemas, from : Services \union Others,
             to : Services \union Others \union {Broadcast}]

ReportModes == {"normal", "own", "everything", "configonly"}

ASSUME ServiceAssumption ==
  /\ Services \intersect Others = {} /\ Broadcast \notin Services \union Others
  /\ Traffic \subseteq [schema : Schemas, from : Others,
                        to : Services \union Others \union {Broadcast}]
  /\ Modes \subseteq ReportModes
  /\ Interval \in Nat /\ Interval >= 3
  /\ Discovery \in 0 .. Interval
  /\ NoEcho \in 0 .. Interval
  /\ MaxTries \in Nat /\ MaxTries >= 2
  /\ NetCap \in Nat
  /\ MaxRequests \in Nat

VARIABLES
  servList,   \* the list from xp->servHead to xp->servTail
  svc,        \* the service objects
  hubUp,      \* a hub runs on this host
  net,        \* messages forwarded by the hub, to be read in order
  forwarded,  \* history: services of which the hub forwarded a heartbeat
  calls,      \* the listener calls made for the message handled last
  running     \* the process is there

vars == <<servList, svc, hubUp, net, forwarded, calls, running>>

Listed == {servList[i] : i \in 1 .. Len(servList)}

\* A service as createService leaves it.  "age" counts the ticks since the
\* last heartbeat was attempted, "requests" the heartbeat requests since.
NewRecord ==
  [enabled |-> FALSE, hub |-> "unconfirmed", tries |-> 0, timer |-> 0,
   listener |-> FALSE, mode |-> "normal", groups |-> FALSE,
   age |-> 0, requests |-> 0]

Init ==
  /\ servList = <<>>
  /\ svc = [s \in Services |-> NewRecord]
  /\ hubUp = FALSE
  /\ net = <<>>
  /\ forwarded = {}
  /\ calls = {}
  /\ running = TRUE

----------------------------------------------------------------------------
(* Heartbeats.                                                             *)

\* A mutant of HeartbeatSent: the search for a hub is never given up.
SearchForever(r) ==
  CASE r.hub = "unconfirmed" -> [r EXCEPT !.tries = @ + 1, !.timer = Discovery]
    [] r.hub = "noecho"      -> [r EXCEPT !.timer = NoEcho]
    [] r.hub = "confirmed"   -> [r EXCEPT !.timer = Interval]

\* sendHeartbeat when the message could be sent.
HeartbeatSent(r) ==
  LET t == r.tries + 1
  IN CASE r.hub = "unconfirmed" /\ t >= MaxTries ->
            [r EXCEPT !.tries = t, !.hub = "noecho", !.timer = NoEcho]
       [] r.hub = "unconfirmed" /\ t < MaxTries ->
            [r EXCEPT !.tries = t, !.timer = Discovery]
       [] r.hub = "noecho"    -> [r EXCEPT !.timer = NoEcho]
       [] r.hub = "confirmed" -> [r EXCEPT !.timer = Interval]

\* sendHeartbeat: when sending fails nothing changes, and the timer, if it
\* was zero, has the next tick try again.
SendHeartbeat(r, ok) ==
  LET a == [r EXCEPT !.age = 0, !.requests = 0]
  IN IF ok THEN HeartbeatSent(a) ELSE a

\* xplTick for one service, whether it is enabled or not.
Ticked(r, ok) ==
  IF r.timer = 0
  THEN SendHeartbeat(r, ok)
  ELSE [r EXCEPT !.timer = @ - 1, !.age = @ + 1]

\* What the hub makes of messages sent in a row: it forwards some of them,
\* as far as they fit the receive buffer.
Forwarded(ms) ==
  LET room == NetCap - Len(net)
  IN net' = net \o SubSeq(ms, 1, IF Len(ms) < room THEN Len(ms) ELSE room)

Heartbeat(s) == [schema |-> "heartbeat", from |-> s, to |-> Broadcast]

\* hbeat.end is not a heartbeat to the code that classifies messages.
Goodbye(s) == [schema |-> "normal", from |-> s, to |-> Broadcast]

\* What the hub forwards when it hears the heartbeats of the services in
\* "sent" and lets those of the services in "fwd" through: a heartbeat for
\* each, in the order of the list; f is that order.
Echoes(n, f) == [i \in 1 .. n |-> Heartbeat(servList[f[i]])]

InOrder(n, f, heard) ==
  /\ \A i, j \in 1 .. n : i < j => f[i] < f[j]
  /\ {f[i] : i \in 1 .. n} = {i \in 1 .. Len(servList) : servList[i] \in heard}

HubHears(sent, fwd) ==
  IF hubUp
  THEN \E n \in 0 .. Len(servList) : \E f \in [1 .. n -> 1 .. Len(servList)] :
         /\ InOrder(n, f, sent \intersect fwd)
         /\ Forwarded(Echoes(n, f))
         /\ forwarded' = forwarded \union
              {(net')[i].from : i \in Len(net) + 1 .. Len(net')}
  ELSE UNCHANGED <<net, forwarded>>

----------------------------------------------------------------------------
(* Operations of the user.                                                 *)

\* XplNewService.
NewService(s) ==
  /\ s \notin Listed
  /\ servList' = Append(servList, s)
  /\ svc' = [svc EXCEPT ![s] = NewRecord]
  /\ calls' = {}
  /\ UNCHANGED <<hubUp, net, forwarded, running>>

\* XplEnableService: a new search, begun with a heartbeat.
Enable(s, ok, fwd) ==
  /\ s \in Listed /\ ~svc[s].enabled
  /\ svc' = [svc EXCEPT ![s] = SendHeartbeat(
                [@ EXCEPT !.enabled = TRUE, !.hub = "unconfirmed",
                          !.tries = 0], ok)]
  /\ HubHears(IF ok THEN {s} ELSE {}, fwd)
  /\ calls' = {}
  /\ UNCHANGED <<servList, hubUp, running>>

\* A goodbye heartbeat, which the hub forwards or not.
SayGoodbye(s) ==
  /\ IF hubUp THEN \E ms \in {<<>>, <<Goodbye(s)>>} : Forwarded(ms)
              ELSE UNCHANGED net
  /\ UNCHANGED forwarded

\* XplDisableService.
Disable(s) ==
  /\ s \in Listed /\ svc[s].enabled
  /\ svc' = [svc EXCEPT ![s].enabled = FALSE]
  /\ SayGoodbye(s)
  /\ calls' = {}
  /\ UNCHANGED <<servList, hubUp, running>>

\* The list when its i-th service is unlinked.
Unlinked(i) ==
  SubSeq(servList, 1, i - 1) \o SubSeq(servList, i + 1, Len(servList))

\* XplDestroyService.
Destroy(s) ==
  /\ IF svc[s].enabled THEN SayGoodbye(s) ELSE UNCHANGED <<net, forwarded>>
  /\ \E i \in 1 .. Len(servList) : servList[i] = s /\ servList' = Unlinked(i)
  /\ svc' = [svc EXCEPT ![s] = NewRecord]
  /\ calls' = {}
  /\ UNCHANGED <<hubUp, running>>

\* XplAddMessageListener.
AddListener(s, mode, groups) ==
  /\ s \in Listed
  /\ svc' = [svc EXCEPT ![s].listener = TRUE, ![s].mode = mode,
                        ![s].groups = groups]
  /\ calls' = {}
  /\ UNCHANGED <<servList, hubUp, net, forwarded, running>>

\* XplRemoveMessageListener, which leaves the report mode.
RemoveListener(s) ==
  /\ s \in Listed /\ svc[s].listener
  /\ svc' = [svc EXCEPT ![s].listener = FALSE]
  /\ calls' = {}
  /\ UNCHANGED <<servList, hubUp, net, forwarded, running>>

----------------------------------------------------------------------------
(* The timer.                                                              *)

Due == {s \in Listed : svc[s].timer = 0}

\* xplTick: the services in "ok" can send, of those the hub forwards "fwd".
Tick(ok, fwd) ==
  /\ running
  /\ svc' = [s \in Services |->
               IF s \in Listed THEN Ticked(svc[s], s \in ok) ELSE svc[s]]
  /\ HubHears(Due \intersect ok, fwd)
  /\ calls' = {}
  /\ UNCHANGED <<servList, hubUp, running>>

----------------------------------------------------------------------------
(* Dispatch of a received message (rxReadyAction).                         *)

\* A heartbeat is due within a few ticks of a request, and not at once.
RequestDelay(t) == LET d == t % 7 IN IF d < 2 THEN d + 2 ELSE d

\* A mutant of Requested: the delay is added to the time that is left.
RequestAdds(r) == [r EXCEPT !.timer = @ + 7, !.requests = @ + 1]

\* A heartbeat was requested.
Requested(r) == [r EXCEPT !.timer = RequestDelay(@), !.requests = @ + 1]

IsUs(s, m) == m.from = s

\* A mutant of Confirms: once the search was given up no echo is looked at.
ConfirmsUnlessGivenUp(s, r, m) ==
  IsUs(s, m) /\ m.schema = "heartbeat" /\ r.hub = "unconfirmed"

\* A mutant of Confirms: the heartbeat of any node will do.
ConfirmsAny(s, r, m) == m.schema = "heartbeat" /\ r.hub # "confirmed"

\* An echo of the service's own heartbeat confirms the hub.
Confirms(s, r, m) ==
  IsUs(s, m) /\ m.schema = "heartbeat" /\ r.hub # "confirmed"

\* What the message does to a service it reaches.
Seen(s, r, m) ==
  LET q == IF m.schema = "request" THEN Requested(r) ELSE r
  IN IF Confirms(s, q, m)
     THEN [q EXCEPT !.hub = "confirmed", !.timer = Interval]
     ELSE q

\* A broadcast from another node, a group message if those are wanted, or a
\* message to this service.
Matches(s, r, m) ==
  \/ m.to = Broadcast /\ ~IsUs(s, m)
  \/ m.to # Broadcast /\ m.schema = "group" /\ r.groups
  \/ m.to = s /\ m.schema # "group"

\* A mutant of Reports: a configuration message sets reportIt early too, instead
\* of going to the call.
ReportsEarly(s, r, m) ==
  r.listener /\ r.mode \in {"normal", "own"} /\ Matches(s, r, m)
    /\ (r.mode = "own" => ~IsUs(s, m))

\* The listener is called where reportIt is set by a match; where it was set
\* before, by the report mode, the call is skipped along with the match.
Reports(s, r, m) ==
  /\ r.listener
  /\ \/ r.mode = "configonly" /\ m.schema = "config"
     \/ r.mode = "own" /\ ~IsUs(s, m) /\ Matches(s, r, m)
     \/ r.mode = "normal" /\ Matches(s, r, m)

\* A service that wants configuration messages only ends the dispatch of any
\* other message: the services behind it in the list do not see it.
Stops(r, m) == r.mode = "configonly" /\ m.schema # "config"

Reached(m) ==
  {servList[i] : i \in {j \in 1 .. Len(servList) :
                          \A k \in 1 .. j - 1 : ~Stops(svc[servList[k]], m)}}

\* A request for a heartbeat has to have a command, which the first service of
\* the list looks at: without one a NULL pointer ends the process.
NoCommand(m) == m.schema = "nocommand" /\ servList # <<>>

Dispatch(m) ==
  /\ svc' = [s \in Services |->
               IF s \in Reached(m) THEN Seen(s, svc[s], m) ELSE svc[s]]
  /\ calls' = {<<s, m>> : s \in {t \in Reached(m) : Reports(t, svc[t], m)}}
  /\ UNCHANGED running

RxReady ==
  /\ running /\ net # <<>>
  /\ LET m == Head(net)
     IN \/ ~NoCommand(m) /\ Dispatch(m)
        \/ NoCommand(m) /\ running' = FALSE /\ calls' = {} /\ UNCHANGED svc
  /\ net' = Tail(net)
  /\ UNCHANGED <<servList, hubUp, forwarded>>

----------------------------------------------------------------------------
(* The hub and the other nodes.                                            *)

HubToggles ==
  /\ hubUp' = ~hubUp
  /\ calls' = {}
  /\ UNCHANGED <<servList, svc, net, forwarded, running>>

\* Requests that a service has seen, or will see, since its last heartbeat.
PendingRequests(s) ==
  svc[s].requests
    + Cardinality({i \in 1 .. Len(net) : net[i].schema = "request"})

\* Their traffic leaves room for the echoes of the services' heartbeats: the
\* receiver's list has no bound of its own.
OtherSends(m) ==
  /\ running /\ hubUp
  /\ Len(net) + Cardinality(Services) < NetCap
  /\ m.schema = "request"
       => \A s \in Services : PendingRequests(s) < MaxRequests
  /\ Forwarded(<<m>>)
  /\ calls' = {}
  /\ UNCHANGED <<servList, svc, hubUp, forwarded, running>>

----------------------------------------------------------------------------
User(s) ==
  \/ NewService(s)
  \/ \E ok \in BOOLEAN, fwd \in SUBSET {s} : Enable(s, ok, fwd)
  \/ Disable(s)
  \/ Destroy(s)
  \/ \E mode \in Modes, groups \in BOOLEAN : AddListener(s, mode, groups)
  \/ RemoveListener(s)

Next ==
  \/ \E s \in Services : running /\ User(s)
  \/ \E ok, fwd \in SUBSET Services : Tick(ok, fwd)
  \/ RxReady
  \/ HubToggles
  \/ \E m \in Traffic : OtherSends(m)

SafeSpec == Init /\ [][Next]_vars

\* A tick on which the service s sends a heartbeat that the hub forwards.
EchoedTick(s) ==
  /\ s \in Due /\ hubUp /\ Len(net) < NetCap
  /\ Tick({s}, {s})

(***************************************************************************)
(* The timer ticks and received messages are read; neither sending nor the *)
(* hub, while it runs, fails for ever.                                     *)
(***************************************************************************)
Fairness ==
  /\ WF_vars(\E ok, fwd \in SUBSET Services : Tick(ok, fwd))
  /\ WF_vars(RxReady)
  /\ \A s \in Services : SF_vars(EchoedTick(s))

Spec == SafeSpec /\ Fairness

----------------------------------------------------------------------------
(* Properties.                                                             *)

ServiceRecords ==
  [enabled : BOOLEAN, hub : {"unconfirmed", "noecho", "confirmed"},
   tries : 0 .. MaxTries, timer : 0 .. Interval, listener : BOOLEAN,
   mode : ReportModes, groups : BOOLEAN, age : Nat, requests : Nat]

TypeOK ==
  /\ servList \in Seq(Services)
  /\ svc \in [Services -> ServiceRecords]
  /\ hubUp \in BOOLEAN
  /\ net \in Seq(Messages)
  /\ forwarded \subseteq Services \union Others
  /\ calls \subseteq Services \X Messages
  /\ running \in BOOLEAN

(***************************************************************************)
(* A hub drops a client that it has not heard for two intervals.  The time *)
(* since the last heartbeat was attempted and the time to the next one     *)
(* stay within two intervals, plus two ticks for each heartbeat request    *)
(* since: a request may postpone a heartbeat that was due, and an echo     *)
(* that arrives late restarts the interval.                                *)
(***************************************************************************)
SilenceBound ==
  \A s \in Services :
    svc[s].age + svc[s].timer <= 2 * Interval + 2 * svc[s].requests

(***************************************************************************)
(* For each service, discovery implements HubDiscovery: "confirmed" means  *)
(* that the hub has forwarded a heartbeat of this very service.            *)
(***************************************************************************)
Disc(s) == INSTANCE HubDiscovery
             WITH state <- svc[s].hub, forwarded <- (s \in forwarded)

DiscoverySound ==
  /\ \A s \in Services : Disc(s)!Init
  /\ [][\A s \in Services :
          Disc(s)!Next \/ UNCHANGED Disc(s)!discVars]_vars

\* Whom a message is for: a broadcast is for everybody but its sender, a group
\* message for those who want them, another one for whom it is addressed to.
For(s, m) ==
  IF m.to = Broadcast THEN m.from # s
  ELSE IF m.schema = "group" THEN svc[s].groups
  ELSE m.to = s

\* An earlier service of the list wants configuration messages only and so keeps
\* all others from this one (cleanup leaves the loop over the services).
Hidden(i, m) ==
  m.schema # "config" /\ \E j \in 1 .. i - 1 : svc[servList[j]].mode = "configonly"

(***************************************************************************)
(* No call is lost and none is made in excess: of the services with a      *)
(* listener, those in the normal mode get the messages that are for them   *)
(* and those that want configuration messages get these and no others,     *)
(* whatever was enabled, removed or created again before; behind a service *)
(* that wants configuration messages only there is nothing else to get.    *)
(* The modes "own" and "everything" are left out: for them the calls are   *)
(* not what the comments in rxReadyAction say.                             *)
(***************************************************************************)
RoutedRight ==
  [][RxReady /\ running' =>
       /\ \A c \in calls' : c[1] \in Listed /\ c[2] = Head(net)
       /\ \A i \in 1 .. Len(servList) :
            LET s == servList[i]
                m == Head(net)
                called == <<s, m>> \in calls'
            IN /\ svc[s].mode = "normal" =>
                    (called <=> svc[s].listener /\ For(s, m) /\ ~Hidden(i, m))
               /\ svc[s].mode = "configonly" =>
                    (called <=> svc[s].listener /\ m.schema = "config")]_vars

(***************************************************************************)
(* If the hub stays up and the service stays enabled, the hub is found,    *)
(* however late it was started: giving up the search only slows it down.   *)
(* A process that a request without a command ends is excepted.            *)
(***************************************************************************)
HubFound ==
  \A s \in Services :
    <>[](running /\ hubUp /\ s \in Listed /\ svc[s].enabled)
      => <>[](svc[s].hub = "confirmed")

=============================================================================
