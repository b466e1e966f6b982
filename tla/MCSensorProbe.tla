--------------------------- MODULE MCSensorProbe ---------------------------
(***************************************************************************)
(* SensorProbe for TLC.  Tilts of 45 degrees in each axis and one beyond;  *)
(* rates that, less the bias, stand still, turn slowly and turn as fast as *)
(* the gyro can tell.                                                      *)
(***************************************************************************)
EXTENDS SensorProbe

MCTilts == {Level, [x |-> 5, y |-> 3, z |-> 4], [x |-> 9, y |-> 3, z |-> 4],
            [x |-> 0, y |-> 5, z |-> 5], [x |-> -4, y |-> -7, z |-> 1]}
MCRestRates == {-2, 1}
MCFlightRates == {-32768, 0, 40}
\* The ends of the channel, and the borders of the dead zones below.
MCSticks == {0, 1000, 1420, 1421, 1495, 1496, 1500, 1504, 1505, 1579, 1580, 2000, 4095}
MCGainSets ==
    {BootGains,
     [deadzone |-> 5, roll |-> 8, pitch |-> 8, yaw |-> 8, angle |-> 100],
     [deadzone |-> 80, roll |-> 80, pitch |-> 80, yaw |-> 80, angle |-> 1200]}
=============================================================================
