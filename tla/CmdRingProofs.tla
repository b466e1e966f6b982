--------------------------- MODULE CmdRingProofs ---------------------------
(***************************************************************************)
(* Theorems about the lock-free ring of RtosCmdquIsrTransport.cpp for      *)
(* every depth of the ring and every set of commands: its two sides never  *)
(* act on a test that has gone stale, and it implements a bounded FIFO.    *)
(***************************************************************************)
EXTENDS CmdRing, SequenceTheorems, TLAPS

\* The index arithmetic of the ring: queue_head_ and queue_tail_ are less
\* than kQueueDepth, so a modulo subtracts at most once.
LEMMA Mod ==
    ASSUME NEW a \in Nat, a < 2 * kQueueDepth
    PROVE  a % kQueueDepth = IF a < kQueueDepth THEN a ELSE a - kQueueDepth
<1> DEFINE N == kQueueDepth
<1> N \in Nat \ {0}
    BY CmdRingAssumption
<1> HIDE DEF N
<1>1. CASE a < N
    <2> a % N = a
        BY <1>1
    <2> QED BY <1>1 DEF N
<1>2. CASE a >= N
    <2> a % N = a - N
        BY <1>2 DEF N
    <2> QED BY <1>2 DEF N
<1> QED BY <1>1, <1>2

\* The successor of an index wraps at the end of the ring.
LEMMA SuccIs ==
    ASSUME NEW i \in Indices
    PROVE  /\ Succ(i) = IF i = kQueueDepth - 1 THEN 0 ELSE i + 1
           /\ Succ(i) \in Indices
<1>1. i + 1 \in Nat /\ i + 1 < 2 * kQueueDepth
    BY CmdRingAssumption DEF Indices
<1> QED BY <1>1, Mod, CmdRingAssumption DEF Succ, Indices

\* How many commands lie between the two indices.
Used == IF queue_head >= queue_tail THEN queue_head - queue_tail
        ELSE queue_head + kQueueDepth - queue_tail

\* The slot of the i-th command from the tail.
SlotOf(i) == IF queue_tail + i - 1 < kQueueDepth THEN queue_tail + i - 1
             ELSE queue_tail + i - 1 - kQueueDepth

\* What Pending is, without the modulo.
PendingShape ==
    /\ Used \in 0..(kQueueDepth - 1)
    /\ Pending = [i \in 1..Used |-> pending_queue[SlotOf(i)]]
    /\ \A i \in 1..Used : SlotOf(i) \in Indices

\* The commands in the ring are those of the slots from tail to head.
LEMMA PendingIs == TypeOK => PendingShape
<1> SUFFICES ASSUME TypeOK PROVE PendingShape
    OBVIOUS
<1>1. Used \in 0..(kQueueDepth - 1)
    BY CmdRingAssumption DEF TypeOK, Indices, Used
<1>2. (queue_head + kQueueDepth - queue_tail) % kQueueDepth = Used
    <2> DEFINE d == queue_head + kQueueDepth - queue_tail
    <2>1. d \in Nat /\ d < 2 * kQueueDepth
        BY CmdRingAssumption DEF TypeOK, Indices
    <2>2. Used = IF d < kQueueDepth THEN d ELSE d - kQueueDepth
        BY CmdRingAssumption DEF TypeOK, Indices, Used
    <2> HIDE DEF d
    <2>3. d % kQueueDepth = Used
        BY <2>1, <2>2, Mod
    <2> QED BY <2>3 DEF d
<1>3. ASSUME NEW i \in 1..Used
      PROVE  (queue_tail + i - 1) % kQueueDepth = SlotOf(i) /\ SlotOf(i) \in Indices
    <2> DEFINE d == queue_tail + i - 1
    <2>1. d \in Nat /\ d < 2 * kQueueDepth
        BY <1>1, CmdRingAssumption DEF TypeOK, Indices
    <2>2. /\ SlotOf(i) = IF d < kQueueDepth THEN d ELSE d - kQueueDepth
          /\ SlotOf(i) \in Indices
        BY <2>1, CmdRingAssumption DEF TypeOK, Indices, SlotOf
    <2> HIDE DEF d
    <2>3. d % kQueueDepth = SlotOf(i)
        BY <2>1, <2>2, Mod
    <2> QED BY <2>2, <2>3 DEF d
<1> QED BY <1>1, <1>2, <1>3 DEF Pending, PendingShape

\* The ring is a sequence of what its slots may hold.
LEMMA PendingSeq ==
    TypeOK => /\ Pending \in Seq(Cmds \cup {NoCmd})
              /\ Len(Pending) = Used
              /\ \A i \in 1..Used : Pending[i] = pending_queue[SlotOf(i)]
<1> SUFFICES ASSUME TypeOK
             PROVE  /\ Pending \in Seq(Cmds \cup {NoCmd})
                    /\ Len(Pending) = Used
                    /\ \A i \in 1..Used : Pending[i] = pending_queue[SlotOf(i)]
    OBVIOUS
<1>1. \A i \in 1..Used : pending_queue[SlotOf(i)] \in Cmds \cup {NoCmd}
    BY PendingIs DEF TypeOK, PendingShape
<1>2. Used \in Nat
    BY PendingIs DEF PendingShape
<1> QED BY <1>1, <1>2, PendingIs DEF PendingShape

\* The ring is full, as the ISR tests it, exactly when it holds all but one
\* of its slots, and empty when the indices meet.
LEMMA FullAndEmpty ==
    TypeOK => /\ Succ(queue_head) = queue_tail <=> Used = kQueueDepth - 1
              /\ queue_head = queue_tail <=> Used = 0
<1> SUFFICES ASSUME TypeOK
             PROVE  /\ Succ(queue_head) = queue_tail <=> Used = kQueueDepth - 1
                    /\ queue_head = queue_tail <=> Used = 0
    OBVIOUS
<1>1. /\ queue_head \in Indices /\ queue_tail \in Indices
      /\ Succ(queue_head) = IF queue_head = kQueueDepth - 1 THEN 0 ELSE queue_head + 1
    BY SuccIs DEF TypeOK
<1> QED BY <1>1, CmdRingAssumption DEF Indices, Used

\* The inductive invariant: types, no stale test, what the ISR stores is a
\* command, and so is every slot between the indices.
RingInv ==
    /\ TypeOK
    /\ NoStaleIndex
    /\ isr # "idle" => cmd_id \in Cmds
    /\ \A i \in 1..Used : pending_queue[SlotOf(i)] \in Cmds
-----------------------------------------------------------------------------
\* Storing touches a slot outside the ring's contents.
LEMMA StoreKeeps ==
    ASSUME RingInv, IsrStore
    PROVE  /\ TypeOK' /\ Used' = Used
           /\ Pending' = Pending
           /\ \A i \in 1..Used : pending_queue'[SlotOf(i)'] = pending_queue[SlotOf(i)]
<1>1. TypeOK'
    BY DEF RingInv, TypeOK, IsrStore
<1>2. Used' = Used /\ (\A i \in 1..Used : SlotOf(i)' = SlotOf(i))
    BY DEF IsrStore, Used, SlotOf
<1>3. \A i \in 1..Used : SlotOf(i) # queue_head
    BY CmdRingAssumption DEF RingInv, TypeOK, Indices, Used, SlotOf
<1>4. \A i \in 1..Used : pending_queue'[SlotOf(i)'] = pending_queue[SlotOf(i)]
    BY <1>2, <1>3, PendingIs DEF RingInv, TypeOK, IsrStore, PendingShape
<1>5. TypeOK
    BY DEF RingInv
<1>6. TypeOK' => PendingShape'
    BY PendingIs, PTL
<1> QED BY <1>1, <1>2, <1>4, <1>5, <1>6, PendingIs DEF PendingShape

\* Publishing appends the command that was stored.
LEMMA PublishAppends ==
    ASSUME RingInv, IsrPublish
    PROVE  /\ TypeOK' /\ Used' = Used + 1 /\ Used < kQueueDepth - 1
           /\ Pending' = Append(Pending, cmd_id)
           /\ \A i \in 1..Used' : pending_queue'[SlotOf(i)'] \in Cmds
<1>0. TypeOK /\ Succ(queue_head) # queue_tail /\ pending_queue[queue_head] = cmd_id
    BY DEF RingInv, NoStaleIndex, IsrPublish
<1>1. TypeOK'
    BY <1>0, SuccIs DEF TypeOK, IsrPublish
<1>2. Used' = Used + 1 /\ Used < kQueueDepth - 1 /\ Used \in Nat
    <2>1. /\ queue_head \in Indices /\ queue_tail \in Indices
          /\ queue_head' = IF queue_head = kQueueDepth - 1 THEN 0 ELSE queue_head + 1
          /\ queue_head' # queue_tail /\ queue_tail' = queue_tail
        BY <1>0, SuccIs DEF TypeOK, IsrPublish
    <2> QED BY <2>1, CmdRingAssumption DEF Indices, Used
<1>3. \A i \in 1..Used + 1 : SlotOf(i)' = SlotOf(i)
    BY DEF IsrPublish, SlotOf
<1>4. SlotOf(Used + 1) = queue_head
    BY <1>0, CmdRingAssumption DEF TypeOK, Indices, Used, SlotOf
<1>5. Pending' = [i \in 1..Used + 1 |-> pending_queue[SlotOf(i)]]
    <2>1. TypeOK' => PendingShape'
        BY PendingIs, PTL
    <2> QED BY <1>1, <2>1, <1>2, <1>3 DEF IsrPublish, PendingShape
<1>6. /\ Pending \in Seq(Cmds \cup {NoCmd}) /\ Len(Pending) = Used
      /\ \A i \in 1..Used : Pending[i] = pending_queue[SlotOf(i)]
    BY <1>0, PendingSeq
<1>7. \A i \in 1..Used + 1 : pending_queue[SlotOf(i)] =
                               IF i = Used + 1 THEN cmd_id ELSE Pending[i]
    BY <1>0, <1>2, <1>4, <1>6
<1>8. Append(Pending, cmd_id) = [i \in 1..Used + 1 |-> pending_queue[SlotOf(i)]]
    <2> DEFINE S == Cmds \cup {NoCmd}
               t == [i \in 1..Used + 1 |-> pending_queue[SlotOf(i)]]
    <2>1. cmd_id \in S
        BY DEF RingInv, TypeOK
    <2>2. /\ Append(Pending, cmd_id) \in Seq(S) /\ Len(Append(Pending, cmd_id)) = Used + 1
          /\ \A i \in 1..Used + 1 : Append(Pending, cmd_id)[i] =
                                       IF i = Used + 1 THEN cmd_id ELSE Pending[i]
        BY <1>2, <1>6, <2>1, AppendProperties
    <2>3. \A i \in 1..Used : Pending[i] \in S
        BY <1>6, ElementOfSeq
    <2>4. t \in Seq(S) /\ Len(t) = Used + 1
        BY <1>2, <1>7, <2>1, <2>3
    <2>5. \A i \in 1..Used + 1 : t[i] = Append(Pending, cmd_id)[i]
        BY <1>7, <2>2
    <2> HIDE DEF t, S
    <2>6. Append(Pending, cmd_id) = t
        BY <2>2, <2>4, <2>5, SeqEqual
    <2> QED BY <2>6 DEF t
<1>9. cmd_id \in Cmds /\ (\A i \in 1..Used : pending_queue[SlotOf(i)] \in Cmds)
    BY DEF RingInv, IsrPublish
<1>10. \A i \in 1..Used' : pending_queue'[SlotOf(i)'] \in Cmds
    BY <1>0, <1>2, <1>3, <1>4, <1>9 DEF IsrPublish
<1> QED BY <1>1, <1>2, <1>5, <1>8, <1>10

\* Releasing the slot hands over the oldest command.
LEMMA ReleaseTakes ==
    ASSUME RingInv, TaskRelease
    PROVE  /\ TypeOK' /\ Used' = Used - 1 /\ Used >= 1
           /\ Pending # <<>> /\ out = Head(Pending) /\ Pending' = Tail(Pending)
           /\ \A i \in 1..Used' : pending_queue'[SlotOf(i)'] \in Cmds
           /\ out \in Cmds
<1>0. TypeOK /\ queue_tail # queue_head /\ out = pending_queue[queue_tail]
    BY DEF RingInv, NoStaleIndex, TaskRelease
<1>1. TypeOK'
    BY <1>0, SuccIs DEF TypeOK, TaskRelease
<1>t. /\ queue_head \in Indices /\ queue_tail \in Indices
      /\ queue_tail' = IF queue_tail = kQueueDepth - 1 THEN 0 ELSE queue_tail + 1
      /\ queue_head # queue_tail /\ queue_head' = queue_head
    BY <1>0, SuccIs DEF TypeOK, TaskRelease
<1>2. Used' = Used - 1 /\ Used >= 1 /\ Used \in 0..(kQueueDepth - 1)
    BY <1>t, CmdRingAssumption DEF Indices, Used
<1>3. \A i \in 1..Used - 1 : SlotOf(i)' = SlotOf(i + 1)
    BY <1>t, <1>2, CmdRingAssumption DEF Indices, SlotOf
<1>4. SlotOf(1) = queue_tail
    BY <1>t, CmdRingAssumption DEF Indices, SlotOf
<1>5. Pending' = [i \in 1..Used - 1 |-> pending_queue[SlotOf(i + 1)]]
    <2>1. TypeOK' => PendingShape'
        BY PendingIs, PTL
    <2> QED BY <1>1, <2>1, <1>2, <1>3 DEF TaskRelease, PendingShape
<1>6. /\ Pending \in Seq(Cmds \cup {NoCmd}) /\ Len(Pending) = Used
      /\ \A i \in 1..Used : Pending[i] = pending_queue[SlotOf(i)]
    BY <1>0, PendingSeq
<1>7. Pending # <<>> /\ Head(Pending) = Pending[1]
    BY <1>2, <1>6
<1>8. Tail(Pending) = [i \in 1..Used - 1 |-> pending_queue[SlotOf(i + 1)]]
    <2> DEFINE S == Cmds \cup {NoCmd}
               t == [i \in 1..Used - 1 |-> pending_queue[SlotOf(i + 1)]]
    <2>1. \A i \in 1..Used - 1 : i + 1 \in 1..Used
        BY <1>2
    <2>2. \A i \in 1..Used - 1 : pending_queue[SlotOf(i + 1)] = Pending[i + 1]
        BY <1>6, <2>1
    <2>3. \A i \in 1..Used - 1 : Pending[i + 1] \in S
        BY <1>6, <2>1, ElementOfSeq
    <2>4. t \in Seq(S) /\ Len(t) = Used - 1
        BY <1>2, <2>2, <2>3
    <2>5. /\ Tail(Pending) \in Seq(S) /\ Len(Tail(Pending)) = Used - 1
          /\ \A i \in 1..Used - 1 : Tail(Pending)[i] = Pending[i + 1]
        BY <1>6, <1>7, HeadTailProperties
    <2>6. \A i \in 1..Used - 1 : t[i] = Tail(Pending)[i]
        BY <2>2, <2>5
    <2> HIDE DEF t, S
    <2>7. Tail(Pending) = t
        BY <2>4, <2>5, <2>6, SeqEqual
    <2> QED BY <2>7 DEF t
<1>9. \A i \in 1..Used : pending_queue[SlotOf(i)] \in Cmds
    BY DEF RingInv
<1>10. \A i \in 1..Used' : pending_queue'[SlotOf(i)'] \in Cmds
    BY <1>2, <1>3, <1>9 DEF TaskRelease
<1> QED BY <1>0, <1>1, <1>2, <1>4, <1>5, <1>6, <1>7, <1>8, <1>9, <1>10
-----------------------------------------------------------------------------
\* A step of one side keeps the tests the other side has made, and its own.
LEMMA RingStep == RingInv /\ [Next]_vars => RingInv'
<1> SUFFICES ASSUME RingInv, [Next]_vars PROVE RingInv'
    OBVIOUS
<1> USE DEF RingInv
<1>s. ASSUME UNCHANGED <<pending_queue, queue_head, queue_tail>>
      PROVE  \A i \in 1..Used' : pending_queue'[SlotOf(i)'] \in Cmds
    BY <1>s DEF Used, SlotOf
<1>1. CASE IsrDrop
    <2>1. TypeOK'
        BY <1>1, CmdRingAssumption DEF IsrDrop, TypeOK
    <2> QED BY <1>1, <1>s, <2>1 DEF IsrDrop, NoStaleIndex
<1>2. ASSUME NEW c \in Cmds, IsrAccept(c) PROVE RingInv'
    <2>1. TypeOK'
        BY <1>2 DEF IsrAccept, TypeOK
    <2> QED BY <1>2, <1>s, <2>1 DEF IsrAccept, NoStaleIndex
<1>3. CASE IsrStore
    <2>1. NoStaleIndex'
        BY <1>3 DEF IsrStore, NoStaleIndex, TypeOK
    <2> QED BY <1>3, <2>1, StoreKeeps DEF IsrStore
<1>4. CASE IsrPublish
    <2>1. NoStaleIndex'
        BY <1>4 DEF IsrPublish, NoStaleIndex
    <2> QED BY <1>4, <2>1, PublishAppends DEF IsrPublish
<1>5. CASE TaskPeek
    <2>1. TypeOK'
        BY <1>5 DEF TaskPeek, TypeOK
    <2> QED BY <1>5, <1>s, <2>1 DEF TaskPeek, NoStaleIndex
<1>6. CASE TaskCopy
    <2>1. TypeOK'
        BY <1>6 DEF TaskCopy, TypeOK
    <2> QED BY <1>6, <1>s, <2>1 DEF TaskCopy, NoStaleIndex
<1>7. CASE TaskRelease
    <2>1. isr # "idle" => Succ(queue_head') # queue_tail'
        <3> SUFFICES ASSUME isr # "idle", Succ(queue_head) = Succ(queue_tail)
                     PROVE  FALSE
            BY <1>7 DEF TaskRelease
        <3>1. queue_head \in Indices /\ queue_tail \in Indices
            BY DEF TypeOK
        <3>2. queue_head = queue_tail
            BY <3>1, SuccIs, CmdRingAssumption DEF Indices
        <3> QED BY <1>7, <3>2 DEF TaskRelease, NoStaleIndex
    <2>2. NoStaleIndex'
        BY <1>7, <2>1 DEF TaskRelease, NoStaleIndex
    <2> QED BY <1>7, <2>2, ReleaseTakes DEF TaskRelease
<1>8. CASE UNCHANGED vars
    <2>1. TypeOK' /\ NoStaleIndex'
        BY <1>8 DEF vars, TypeOK, NoStaleIndex
    <2> QED BY <1>8, <1>s, <2>1 DEF vars
<1> QED BY <1>1, <1>2, <1>3, <1>4, <1>5, <1>6, <1>7, <1>8 DEF Next

\* The ring starts empty.
LEMMA RingInit == Init => RingInv
<1> SUFFICES ASSUME Init PROVE RingInv
    OBVIOUS
<1>1. TypeOK
    BY CmdRingAssumption DEF Init, TypeOK, Indices
<1>2. Used = 0
    BY DEF Init, Used
<1> QED BY <1>1, <1>2 DEF Init, RingInv, NoStaleIndex

\* The room the ISR tested for is still there when it stores and publishes,
\* and the slot the loop found filled is unchanged when it copies and
\* releases it, for every interleaving of onCmdFromMailbox with popCommand
\* and every depth of the ring.
THEOREM NoStaleIndexHolds == Spec => []NoStaleIndex
<1>1. RingInv => NoStaleIndex
    BY DEF RingInv
<1> QED BY <1>1, RingInit, RingStep, PTL DEF Spec
-----------------------------------------------------------------------------
\* One step of the ring is one step of the FIFO, or none: a doorbell is
\* accepted when its index is published, taken when its slot is released and
\* dropped only by a full ring.
LEMMA RingStepIsFifoStep ==
    RingInv /\ [Next]_vars => [Fifo!FifoNext]_(Fifo!fifoVars)
<1> SUFFICES ASSUME RingInv, [Next]_vars PROVE [Fifo!FifoNext]_(Fifo!fifoVars)
    OBVIOUS
<1>t. TypeOK /\ Len(Pending) = Used
    BY PendingSeq DEF RingInv
<1>s. ASSUME UNCHANGED <<pending_queue, queue_head, queue_tail, taken, drops>>
      PROVE  UNCHANGED Fifo!fifoVars
    BY <1>s DEF Fifo!fifoVars, Pending
<1>1. CASE IsrDrop
    <2>1. Len(Pending) = kQueueDepth - 1
        BY <1>1, <1>t, FullAndEmpty DEF IsrDrop
    <2>2. Pending' = Pending
        BY <1>1 DEF IsrDrop, Pending
    <2>3. Fifo!Drop
        BY <1>1, <2>1, <2>2 DEF IsrDrop, Fifo!Drop
    <2> QED BY <2>3 DEF Fifo!FifoNext
<1>2. CASE \E c \in Cmds : IsrAccept(c)
    BY <1>2, <1>s DEF IsrAccept
<1>3. CASE IsrStore
    BY <1>3, StoreKeeps DEF IsrStore, Fifo!fifoVars
<1>4. CASE IsrPublish
    <2>1. cmd_id \in Cmds
        BY <1>4 DEF RingInv, IsrPublish
    <2>2. Fifo!Put(cmd_id)
        BY <1>4, <1>t, PublishAppends DEF IsrPublish, Fifo!Put
    <2> QED BY <2>1, <2>2 DEF Fifo!FifoNext
<1>5. CASE TaskPeek \/ TaskCopy
    BY <1>5, <1>s DEF TaskPeek, TaskCopy
<1>6. CASE TaskRelease
    <2>1. Fifo!Take
        BY <1>6, ReleaseTakes DEF TaskRelease, Fifo!Take
    <2> QED BY <2>1 DEF Fifo!FifoNext
<1>7. CASE UNCHANGED vars
    BY <1>7, <1>s DEF vars
<1> QED BY <1>1, <1>2, <1>3, <1>4, <1>5, <1>6, <1>7 DEF Next

\* The empty ring is the empty queue.
LEMMA RingInitIsFifoInit == Init => Fifo!FifoInit
<1> SUFFICES ASSUME Init PROVE Fifo!FifoInit
    OBVIOUS
<1>1. TypeOK /\ Used = 0
    BY RingInit DEF Init, Used, RingInv
<1>2. Pending \in Seq(Cmds \cup {NoCmd}) /\ Len(Pending) = 0
    BY <1>1, PendingSeq
<1>3. Pending = <<>>
    BY <1>2
<1> QED BY <1>3 DEF Init, Fifo!FifoInit, NoCmd, Fifo!NoCmd

\* The lock-free ring implements the bounded queue: no doorbell is lost
\* unless the ring is full, and none is repeated or reordered.
THEOREM RingIsFifoHolds == Spec => RingIsFifo
BY RingInit, RingStep, RingInitIsFifoInit, RingStepIsFifoStep, PTL
DEF Spec, RingIsFifo, Fifo!FifoSpec
=============================================================================
