--------------------------- MODULE HubDiscovery ----------------------------
(***************************************************************************)
(* What the xPL core promises the user of one service about the hub: the   *)
(* state that XplGetHubDiscoveryState returns says "confirmed" only when   *)
(* the hub has forwarded a heartbeat of the service, the search is given   *)
(* up ("noecho") and resumed by nothing but a new start, and a             *)
(* confirmation is kept until then.  XplService implements this for each   *)
(* of its services.                                                        *)
(***************************************************************************)

VARIABLES
  state,     \* what XplGetHubDiscoveryState returns
  forwarded  \* the hub has forwarded a heartbeat of the service

discVars == <<state, forwarded>>

Init ==
  /\ state = "unconfirmed"
  /\ forwarded = FALSE

\* The hub forwards a heartbeat of the service.
Forward ==
  /\ forwarded' = TRUE
  /\ UNCHANGED state

\* The search is given up, possibly with a last heartbeat that gets through.
GiveUp ==
  /\ state = "unconfirmed"
  /\ state' = "noecho"
  /\ forwarded' \in {forwarded, TRUE}

\* The echo of a heartbeat arrives.
Confirm ==
  /\ state # "confirmed"
  /\ forwarded
  /\ state' = "confirmed"
  /\ UNCHANGED forwarded

\* The service is enabled, or a new one is made: a new search.
Restart ==
  /\ state' = "unconfirmed"
  /\ forwarded' \in {forwarded, TRUE}

Next ==
  \/ Forward
  \/ GiveUp
  \/ Confirm
  \/ Restart

Spec == Init /\ [][Next]_discVars

============================================================================
