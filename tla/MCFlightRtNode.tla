--------------------------- MODULE MCFlightRtNode ---------------------------
(***************************************************************************)
(* Finite instances of FlightRtNode.  Linux asks for Failsafe only, as     *)
(* TelemetryNode does.                                                     *)
(***************************************************************************)
EXTENDS FlightRtNode

MCArmRequests == {"Failsafe"}
MCSamples == [low : BOOLEAN, arm : BOOLEAN, fs : BOOLEAN]

\* A pilot who wants to fly: switch HIGH, throttle low, no failsafe.
MCArmingSample == [low : {TRUE}, arm : {TRUE}, fs : {FALSE}]

\* Per run, the slots that matter to its question and how often each is
\* published by one life of the Linux process.
MCSafetyPublish == [s \in Slots |-> IF s \in {"heartbeat", "setpoint"} THEN 1 ELSE 0]
MCCommandPublish == [s \in Slots |-> CASE s = "config" -> 2
                                       [] s \in {"arm", "emergency"} -> 1
                                       [] OTHER -> 0]
MCOnlyConfig == [s \in Slots |-> IF s = "config" THEN 2 ELSE 0]
=============================================================================
