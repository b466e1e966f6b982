-------------------------- MODULE MCRtosTransport --------------------------
(***************************************************************************)
(* A finite instance of RtosTransport: two configs, so that one can be     *)
(* published while the other is read, and one stop.                        *)
(***************************************************************************)
EXTENDS RtosTransport

MCMaxVersion == [s \in Cmds |-> IF s = "config" THEN 2 ELSE 1]
=============================================================================
