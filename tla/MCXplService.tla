---------------------------- MODULE MCXplService ----------------------------
(***************************************************************************)
(* TLC instance of XplService: one service, as the daemon has, and one     *)
(* other node.                                                             *)
(***************************************************************************)
EXTENDS XplService

CONSTANTS s1, other

Msg(schema, from, to) == [schema |-> schema, from |-> from, to |-> to]

MCServices == {s1}

MCOthers == {other}

\* The messages of the other node that a service tells apart.
MCTraffic ==
  {Msg("heartbeat", other, Broadcast), Msg("request", other, Broadcast),
   Msg("nocommand", other, s1), Msg("normal", other, s1),
   Msg("config", other, other), Msg("group", other, other)}

MCNormal == {"normal"}

MCAllModes == ReportModes

============================================================================
