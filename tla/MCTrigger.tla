----------------------------- MODULE MCTrigger ------------------------------
(***************************************************************************)
(* TLC instance of Trigger: one node, messages of each schema, and scripts *)
(* that take the device, take the zone and then fail, do not parse, or are *)
(* cut inside of an if, whose test may be met or not.                      *)
(***************************************************************************)
EXTENDS Trigger

CONSTANTS tag, s1, s2, script, good, failing, bad, halved

Sent(type, hbeat, all, schema, device, zone) ==
  [type |-> type, hbeat |-> hbeat, all |-> all, tag |-> tag, schema |-> schema,
   pair |-> [p \in Pairs |-> IF p = "device" THEN device ELSE zone],
   bare |-> device = None /\ zone = None]

MCMessages ==
  {Sent("trig", FALSE, TRUE, "sensor.basic", s1, None),
   Sent("trig", FALSE, TRUE, "hvac.zone", None, s2),
   Sent("trig", FALSE, TRUE, "other", s2, None),
   Sent("trig", FALSE, FALSE, "hvac.zone", None, s2),
   Sent("trig", FALSE, TRUE, "sensor.basic", None, None),
   Sent("stat", TRUE, TRUE, "other", None, None)}

MCTakes == [t \in {good, failing, bad, halved} |->
              [s \in Schemas |->
                 CASE t \in {good, halved} /\ s = "sensor.basic" -> "device"
                   [] t = failing /\ s = "hvac.zone" -> "zone"
                   [] OTHER -> None]]

============================================================================
