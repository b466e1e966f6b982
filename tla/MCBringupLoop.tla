--------------------------- MODULE MCBringupLoop ---------------------------
(***************************************************************************)
(* Finite instances of BringupLoop.  Throttles stand for the classes the   *)
(* code tells apart: idle, above the arming limit but below the kill       *)
(* threshold, and above the kill threshold.                                *)
(***************************************************************************)
EXTENDS BringupLoop

MCFrames == [throttle : {1000, 1350, 1400}, arm : BOOLEAN]

\* Frames for the runs that are about Linux: the throttle stays low.
MCOneThrottle == [throttle : {1050}, arm : BOOLEAN]

\* Frames for runs that do not need the throttle kill.
MCTwoThrottles == [throttle : {1100, 1300}, arm : BOOLEAN]

\* The extreme corrections: no torque, and the axes that add up on one motor.
MCPids == {[roll |-> 0, pitch |-> 0, yaw |-> 0],
           [roll |-> 40, pitch |-> 40, yaw |-> -40]}

MCOnePid == {[roll |-> 40, pitch |-> 40, yaw |-> -40]}

\* One stop or clear before Linux starts again and two after it, the first of
\* which has the number of the one before.
MCEmergencies == <<1, 2>>

MCNoEmergencies == [s \in 1..MaxStarts |-> 0]

MCNoConfigs == {}

\* A config that breaks every range in its own way; std::clamp and
\* std::stof on the Linux side let a NaN through.
MCHotConfigs == {[deadzone |-> 900, rate |-> 81, angle |-> NaN]}
=============================================================================
