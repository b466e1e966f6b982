---------------------------- MODULE BoundedFifo ----------------------------
(***************************************************************************)
(* What the doorbell ring between the mailbox ISR and the flight loop      *)
(* promises: a first-in first-out queue of at most Capacity commands.  A   *)
(* command offered to a full queue is dropped, and only then.              *)
(***************************************************************************)
EXTENDS Naturals, Sequences

CONSTANTS Cmds,      \* the commands that may be queued
          Capacity   \* how many the queue holds

VARIABLES queue,     \* commands accepted and not yet taken, oldest first
          taken,     \* the command taken last, if any
          drops      \* commands dropped so far

fifoVars == <<queue, taken, drops>>

NoCmd == "none"

FifoInit == queue = <<>> /\ taken = NoCmd /\ drops = 0

Put(c) ==
    /\ Len(queue) < Capacity
    /\ queue' = Append(queue, c)
    /\ UNCHANGED <<taken, drops>>

Drop ==
    /\ Len(queue) = Capacity
    /\ drops' = drops + 1
    /\ UNCHANGED <<queue, taken>>

Take ==
    /\ queue # <<>>
    /\ taken' = Head(queue)
    /\ queue' = Tail(queue)
    /\ UNCHANGED drops

FifoNext == (\E c \in Cmds : Put(c)) \/ Drop \/ Take

FifoSpec == FifoInit /\ [][FifoNext]_fifoVars
=============================================================================
