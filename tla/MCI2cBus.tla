----------------------------- MODULE MCI2cBus -----------------------------
(* I2cBus for TLC. *)
EXTENDS I2cBus

MCData == {[i \in 1..Bits |-> 0], [i \in 1..Bits |-> 1]}
=============================================================================
