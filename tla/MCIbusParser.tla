---------------------------- MODULE MCIbusParser ----------------------------
(* IbusParser for TLC. *)
EXTENDS IbusParser

\* Sticks at rest, throttle at 1000, arm switch off.
Rest == [i \in 1..IBUS_CHANNELS |-> IF i \in {3, 5} THEN 1000 ELSE 1500]
\* Throttle at 1312 = 0x0520: the first byte of a header among the channel bytes.
MCPayloads == {Rest, [Rest EXCEPT ![3] = 1312]}
MCNoise == {32, 64}
=============================================================================
