---------------------------- MODULE MCLinuxNode ----------------------------
(* LinuxNode for TLC. *)
EXTENDS LinuxNode

MCAckTimeout == [c \in Cmds |-> 1]
MCEnvironments ==
    {[ion |-> TRUE,  phys |-> FALSE, devmem |-> "no_map",  shm |-> TRUE,  device |-> TRUE],
     [ion |-> FALSE, phys |-> TRUE,  devmem |-> "no_open", shm |-> TRUE,  device |-> TRUE],
     [ion |-> FALSE, phys |-> TRUE,  devmem |-> "no_open", shm |-> FALSE, device |-> TRUE],
     [ion |-> FALSE, phys |-> TRUE,  devmem |-> "no_map",  shm |-> TRUE,  device |-> FALSE]}
MCDevMem ==
    {[ion |-> FALSE, phys |-> TRUE, devmem |-> "ok", shm |-> TRUE, device |-> TRUE]}
MCValues == 1..MaxValue
=============================================================================
