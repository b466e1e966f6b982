------------------------------ MODULE CmdRing ------------------------------
(***************************************************************************)
(* The ring of rt_core/RtosCmdquIsrTransport.cpp that carries doorbells    *)
(* from the mailbox ISR (onCmdFromMailbox) to the flight loop              *)
(* (popCommand).  Neither side locks: the ISR alone writes queue_head_,    *)
(* the loop alone writes queue_tail_, and each reads the other's index.    *)
(* Every access to shared memory is a step of its own, so the ISR may      *)
(* interrupt the loop anywhere, and the same ring also serves two cores.   *)
(***************************************************************************)
EXTENDS Naturals, Sequences

CONSTANTS Cmds,         \* the commands of the doorbell
          kQueueDepth,  \* slots of the ring; one of them stays empty
          MaxDrops      \* bound on the drops that are counted

ASSUME CmdRingAssumption ==
    /\ kQueueDepth \in Nat \ {0, 1}
    /\ MaxDrops \in Nat
    /\ "none" \notin Cmds

VARIABLES
    pending_queue,              \* the slots
    queue_head, queue_tail,     \* next slot to fill, next slot to read
    isr,                        \* "idle", or between two accesses of the ISR
    cmd_id,                     \* the command the ISR is storing
    task,                       \* "idle", or between two accesses of the loop
    out,                        \* the copy the loop has made
    taken, drops                \* what the loop got last; the doorbells dropped

vars == <<pending_queue, queue_head, queue_tail, isr, cmd_id, task, out, taken, drops>>

NoCmd == "none"
Indices == 0..(kQueueDepth - 1)
\* Mutant: the index is not wrapped.
SuccNoWrap(i) == i + 1

Succ(i) == (i + 1) % kQueueDepth

Init ==
    /\ pending_queue = [i \in Indices |-> NoCmd]
    /\ queue_head = 0 /\ queue_tail = 0
    /\ isr = "idle" /\ cmd_id = NoCmd
    /\ task = "idle" /\ out = NoCmd
    /\ taken = NoCmd /\ drops = 0
-----------------------------------------------------------------------------
(* onCmdFromMailbox: test for room, store, publish.                        *)
\* Mutant: one slot too early.
IsrDropEarly ==
    /\ isr = "idle"
    /\ Succ(Succ(queue_head)) = queue_tail
    /\ drops < MaxDrops
    /\ drops' = drops + 1
    /\ UNCHANGED <<pending_queue, queue_head, queue_tail, isr, cmd_id, task, out, taken>>

IsrDrop ==
    /\ isr = "idle"
    /\ Succ(queue_head) = queue_tail
    /\ drops < MaxDrops
    /\ drops' = drops + 1
    /\ UNCHANGED <<pending_queue, queue_head, queue_tail, isr, cmd_id, task, out, taken>>

\* Mutant: no test for room.
IsrAcceptAlways(c) ==
    /\ isr = "idle"
    /\ cmd_id' = c
    /\ isr' = "store"
    /\ UNCHANGED <<pending_queue, queue_head, queue_tail, task, out, taken, drops>>

IsrAccept(c) ==
    /\ isr = "idle"
    /\ Succ(queue_head) # queue_tail
    /\ cmd_id' = c
    /\ isr' = "store"
    /\ UNCHANGED <<pending_queue, queue_head, queue_tail, task, out, taken, drops>>

IsrStore ==
    /\ isr = "store"
    /\ pending_queue' = [pending_queue EXCEPT ![queue_head] = cmd_id]
    /\ isr' = "publish"
    /\ UNCHANGED <<queue_head, queue_tail, cmd_id, task, out, taken, drops>>

IsrPublish ==
    /\ isr = "publish"
    /\ queue_head' = Succ(queue_head)
    /\ isr' = "idle"
    /\ cmd_id' = NoCmd
    /\ UNCHANGED <<pending_queue, queue_tail, task, out, taken, drops>>
-----------------------------------------------------------------------------
(* popCommand: test for work, copy, release the slot.                      *)
TaskPeek ==
    /\ task = "idle"
    /\ queue_tail # queue_head
    /\ task' = "copy"
    /\ UNCHANGED <<pending_queue, queue_head, queue_tail, isr, cmd_id, out, taken, drops>>

TaskCopy ==
    /\ task = "copy"
    /\ out' = pending_queue[queue_tail]
    /\ task' = "release"
    /\ UNCHANGED <<pending_queue, queue_head, queue_tail, isr, cmd_id, taken, drops>>

TaskRelease ==
    /\ task = "release"
    /\ queue_tail' = Succ(queue_tail)
    /\ taken' = out
    /\ out' = NoCmd
    /\ task' = "idle"
    /\ UNCHANGED <<pending_queue, queue_head, isr, cmd_id, drops>>

Next == \/ IsrDrop \/ (\E c \in Cmds : IsrAccept(c)) \/ IsrStore \/ IsrPublish
        \/ TaskPeek \/ TaskCopy \/ TaskRelease

Spec == Init /\ [][Next]_vars
-----------------------------------------------------------------------------
\* Indices stay inside the ring and every slot holds a command or nothing.
TypeOK ==
    /\ pending_queue \in [Indices -> Cmds \cup {NoCmd}]
    /\ queue_head \in Indices /\ queue_tail \in Indices
    /\ isr \in {"idle", "store", "publish"} /\ cmd_id \in Cmds \cup {NoCmd}
    /\ task \in {"idle", "copy", "release"} /\ out \in Cmds \cup {NoCmd}
    /\ taken \in Cmds \cup {NoCmd} /\ drops \in 0..MaxDrops

\* While the ISR stores and publishes, the room it tested for is still there,
\* and while the loop copies and releases, the slot it found is still filled
\* and still unchanged: neither side's test goes stale before it is used.
NoStaleIndex ==
    /\ isr # "idle" => Succ(queue_head) # queue_tail
    /\ isr = "publish" => pending_queue[queue_head] = cmd_id
    /\ task # "idle" => queue_tail # queue_head
    /\ task = "release" => out = pending_queue[queue_tail]

\* The commands in the ring, oldest first.
Pending ==
    [i \in 1..((queue_head + kQueueDepth - queue_tail) % kQueueDepth) |->
        pending_queue[(queue_tail + i - 1) % kQueueDepth]]

Fifo == INSTANCE BoundedFifo WITH Capacity <- kQueueDepth - 1, queue <- Pending

\* The ring implements a FIFO that holds all but one of its slots: a command
\* is lost only when the ring is full, and none is repeated or reordered.
RingIsFifo == Fifo!FifoSpec
=============================================================================
