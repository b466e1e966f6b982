------------------------------- MODULE Cmdqu -------------------------------
(***************************************************************************)
(* The command path of the bring-up firmware, from the mailbox to the      *)
(* poll: prvQueueISR moves commands from the mailbox slots to the task     *)
(* queue, prvCmdQuRunTask receives one (or times out), polls the shared    *)
(* region, and answers in a mailbox slot.  Both directions share the       *)
(* slots.  amp_shared_region_poll_once reads the emergency and the config  *)
(* slot word by word, without the CRC and without locking out Linux.       *)
(* The payload of a config is one value; the range checks that follow its  *)
(* reading are in MotorMath.                                               *)
(***************************************************************************)
EXTENDS Naturals, Sequences

CONSTANTS MailboxSlots,  \* MAILBOX_MAX_NUM
          QueueLength,   \* the length of the task queue
          Values         \* config payloads

ASSUME CmdquAssumption ==
    /\ MailboxSlots \in Nat \ {0}
    /\ QueueLength \in Nat \ {0}
    /\ Values \subseteq Nat /\ 0 \notin Values /\ Values # {}

VARIABLES
    shared_backend,   \* where Linux keeps the region, see LinuxNode
    emergency,        \* region->emergency_stop: seq, reason
    config,           \* region->config: seq, update_seq, value
    mailbox,          \* the mailbox slots
    queue,            \* gTaskCtx[0].queHandle
    rt,               \* where prvCmdQuRunTask is
    cmd,              \* the command it has received, if any
    seq,              \* its local copy of the config slot's seq
    shm_ready,        \* g_amp_shm_ready, with the announced address stored
    last_emergency_seq, latched,
    last_config,      \* g_amp_last_config_slot_seq, g_amp_last_config_update_seq
    applied           \* the config payload it has applied last, 0 before any

regionVars == <<emergency, config>>
readerVars == <<seq, last_emergency_seq, latched, last_config, applied>>
rtVars == <<rt, cmd, shm_ready, readerVars>>
cmdquVars == <<shared_backend, regionVars, mailbox, queue, rtVars>>

Cmds == {"init", "arm", "emergency", "config"}
NoCmd == "none"
Slots == 1..MailboxSlots
\* A message is a command and the core it is for.
Free == <<"none", "none">>
Message(to, c) == <<to, c>>

CmdquInit ==
    /\ emergency = [seq |-> 0, reason |-> 0]
    /\ config = [seq |-> 0, update_seq |-> 0, value |-> 0]
    /\ mailbox = [i \in Slots |-> Free]
    /\ queue = <<>>
    /\ rt = "idle" /\ cmd = NoCmd /\ seq = 0
    /\ shm_ready = FALSE
    /\ last_emergency_seq = 0 /\ latched = FALSE
    /\ last_config = <<0, 0>>
    /\ applied = 0

\* The address Linux announces is that of the memory it writes.
Visible == shared_backend \in {"Ion", "DevMem"}
-----------------------------------------------------------------------------
(* prvQueueISR: the slot is freed even when the queue has no room.         *)
Isr(i) ==
    /\ mailbox[i][1] = "rt"
    /\ mailbox' = [mailbox EXCEPT ![i] = Free]
    /\ queue' = IF Len(queue) < QueueLength THEN Append(queue, mailbox[i][2]) ELSE queue
    /\ UNCHANGED <<shared_backend, regionVars, rtVars>>
-----------------------------------------------------------------------------
(* prvCmdQuRunTask.                                                        *)
TaskReceive ==
    /\ rt = "idle" /\ queue # <<>>
    /\ cmd' = Head(queue)
    /\ queue' = Tail(queue)
    /\ rt' = "poll"
    /\ UNCHANGED <<shared_backend, regionVars, mailbox, shm_ready, readerVars>>

\* The receive timed out: poll all the same.
TaskTimeout ==
    /\ rt = "idle" /\ queue = <<>>
    /\ rt' = "poll"
    /\ UNCHANGED <<shared_backend, regionVars, mailbox, queue, cmd, shm_ready, readerVars>>

\* After the poll: the command, if there was one.
PollEnd == IF cmd = NoCmd THEN "idle" ELSE "serve"

\* Memory Linux does not write holds no magic.
PollSkip ==
    /\ rt = "poll"
    /\ ~(shm_ready /\ Visible)
    /\ rt' = PollEnd
    /\ UNCHANGED <<shared_backend, regionVars, mailbox, queue, cmd, shm_ready, readerVars>>

PollEmergency ==
    /\ rt = "poll"
    /\ shm_ready /\ Visible
    /\ last_emergency_seq' = emergency.seq
    /\ rt' = IF emergency.seq # last_emergency_seq THEN "reason" ELSE "config"
    /\ UNCHANGED <<shared_backend, regionVars, mailbox, queue, cmd, shm_ready,
                   seq, latched, last_config, applied>>

\* Reason 0 clears.
PollReason ==
    /\ rt = "reason"
    /\ latched' = (emergency.reason # 0)
    /\ rt' = "config"
    /\ UNCHANGED <<shared_backend, regionVars, mailbox, queue, cmd, shm_ready,
                   seq, last_emergency_seq, last_config, applied>>

PollConfigSeq ==
    /\ rt = "config"
    /\ seq' = config.seq
    /\ rt' = "update"
    /\ UNCHANGED <<shared_backend, regionVars, mailbox, queue, cmd, shm_ready,
                   last_emergency_seq, latched, last_config, applied>>

\* Mutant: only update_seq is compared.
ConfigIsNewByUpdate(s, u) == u # last_config[2] /\ <<s, u>> # <<0, 0>>

ConfigIsNew(s, u) == <<s, u>> # last_config /\ <<s, u>> # <<0, 0>>

PollUpdateSeq ==
    /\ rt = "update"
    /\ IF ConfigIsNew(seq, config.update_seq)
       THEN last_config' = <<seq, config.update_seq>> /\ rt' = "value"
       ELSE UNCHANGED last_config /\ rt' = PollEnd
    /\ seq' = 0
    /\ UNCHANGED <<shared_backend, regionVars, mailbox, queue, cmd, shm_ready,
                   last_emergency_seq, latched, applied>>

PollValue ==
    /\ rt = "value"
    /\ applied' = config.value
    /\ rt' = PollEnd
    /\ UNCHANGED <<shared_backend, regionVars, mailbox, queue, cmd, shm_ready,
                   seq, last_emergency_seq, latched, last_config>>

\* The switch over cmd_id, and the answer in a free slot.
Serve(i) ==
    /\ rt = "serve"
    /\ mailbox[i] = Free /\ \A j \in 1..(i - 1) : mailbox[j] # Free
    /\ mailbox' = [mailbox EXCEPT ![i] = Message("linux", cmd)]
    /\ shm_ready' = (shm_ready \/ cmd = "init")
    /\ rt' = "idle" /\ cmd' = NoCmd
    /\ UNCHANGED <<shared_backend, regionVars, queue, readerVars>>

\* MAILBOX_LOCK_FAILED, or no free slot: the answer is dropped.
ServeUnanswered ==
    /\ rt = "serve"
    /\ shm_ready' = (shm_ready \/ cmd = "init")
    /\ rt' = "idle" /\ cmd' = NoCmd
    /\ UNCHANGED <<shared_backend, regionVars, mailbox, queue, readerVars>>

TaskNext ==
    \/ TaskReceive \/ TaskTimeout
    \/ PollSkip \/ PollEmergency \/ PollReason
    \/ PollConfigSeq \/ PollUpdateSeq \/ PollValue
    \/ ServeUnanswered \/ \E i \in Slots : Serve(i)

CmdquNext == TaskNext \/ \E i \in Slots : Isr(i)
=============================================================================
