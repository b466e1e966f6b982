----------------------------- MODULE LinuxNode -----------------------------
(***************************************************************************)
(* The Linux process (TelemetryNode over MailboxTransport) against the     *)
(* command path of the bring-up firmware (Cmdqu).                          *)
(* Linux code takes no time except where it blocks: in an ioctl that waits *)
(* for an answer, and in sleep_until.  linux says where run() is; op is    *)
(* the command being sent there and stage how far it is: storing the slot, *)
(* ringing, waiting.  The driver behind the ioctl is external: it puts the *)
(* command in a free mailbox slot and ends the wait at the first answer    *)
(* with that command's number, so an answer that comes after its timeout   *)
(* ends a later wait for the same command.                                 *)
(* A config is one value, clamped to 1..MaxValue.  Setpoint, heartbeat and *)
(* arm slots are left out: this firmware does not act on them.             *)
(* Times are kept relative to the clock, so that the clock needs no bound. *)
(***************************************************************************)
EXTENDS Cmdqu, Integers

CONSTANTS MaxValue, DefaultValue,
          Environments,    \* what the process may find when it starts
          Inputs,          \* the values set by CLI lines and INI texts
          AckTimeout,      \* k*AckTimeoutMs, per command
          Period,          \* kTickUs
          RcTimeout,       \* kRcTimeoutUs
          MaxInputs,       \* bound on the CLI lines and INI edits
          MaxLosses        \* bound on the times the link comes back

\* What the process may find when it starts: ION, AMP_CMD_REGION_PHYS, /dev/mem,
\* the shm file and the mailbox device.
AllEnvironments ==
    [ion: BOOLEAN, phys: BOOLEAN, devmem: {"ok", "no_open", "no_map"},
     shm: BOOLEAN, device: BOOLEAN]

ASSUME LinuxNodeAssumption ==
    /\ Environments \subseteq AllEnvironments
    /\ MaxValue \in Nat \ {0}
    /\ Values = 1..MaxValue /\ DefaultValue \in Values
    /\ Inputs \subseteq Nat
    /\ AckTimeout \in [Cmds -> Nat]
    /\ Period \in Nat \ {0}
    /\ {RcTimeout, MaxInputs, MaxLosses} \subseteq Nat

VARIABLES
    linux, op, stage,
    todo,             \* the payload words it has yet to store
    wait_left,        \* time left of the wait
    fallback_mode,    \* there is no mailbox device
    candidate,        \* the config being sent
    active_config, config_sent,
    ini_cache,
    rc_seen, failsafe_sent,
    rc_age,           \* time since last_rc_ok_us, counted up to MaxAge
    rc_late,          \* now_us - last_rc_ok_us > kRcTimeoutUs in this cycle
    sleep_left,       \* time left until wake, negative when it is past
    inputs,           \* CLI lines and INI edits so far
    losses,           \* times the link came back
    stop_owed,        \* history: the link was up, no stop published since
    clean             \* history: every send so far has been answered in time

sendVars == <<op, stage, todo, wait_left, candidate>>
configVars == <<active_config, config_sent>>
iniVars == <<ini_cache, inputs>>
rcVars == <<rc_seen, failsafe_sent, rc_late, losses, stop_owed>>
clockVars == <<rc_age, sleep_left>>
linuxVars == <<linux, fallback_mode, sendVars, configVars, iniVars, rcVars, clean>>
vars == <<cmdquVars, linuxVars, clockVars>>

\* allocateSharedRegion.
Backend(e) ==
    CASE e.ion                         -> "Ion"
      [] ~e.ion /\ e.phys /\ e.devmem = "ok" -> "DevMem"
      [] OTHER                         -> IF e.shm THEN "Shm" ELSE "Fallback"

\* shared_phys_addr_ is set.  It outlives a failing open of /dev/mem.
HasAddress(e) ==
    \/ Backend(e) \in {"Ion", "DevMem"}
    \/ Backend(e) = "Fallback" /\ e.phys /\ e.devmem = "no_open"

\* An INI text is the settings it holds: none, or one value.
NoText == <<>>
Texts == {NoText} \cup {<<v>> : v \in Inputs}
\* The longest a stop may take: a cycle that just misses the timeout, and the next one,
\* each blocked by two config commands.
StopDelay ==
    LET block == 2 * AckTimeout["config"]
    IN RcTimeout + (IF block > Period THEN block ELSE Period) + block

\* Past this all ages are alike: once the stop is out only the timeout tells them apart.
MaxAge(owed) == IF owed THEN StopDelay + 1 ELSE RcTimeout + 1

NoConfig == [value |-> 0, update_seq |-> 0]

Init ==
    /\ CmdquInit
    /\ shared_backend = "Fallback" /\ fallback_mode = FALSE
    /\ linux = "start" /\ op = NoCmd /\ stage = "none" /\ todo = {}
    /\ wait_left = 0 /\ candidate = NoConfig
    /\ active_config = [value |-> DefaultValue, update_seq |-> 1]
    /\ config_sent = FALSE
    /\ ini_cache = NoText
    /\ rc_seen = FALSE /\ failsafe_sent = FALSE /\ rc_late = FALSE
    /\ rc_age = 0 /\ sleep_left = 0
    /\ inputs = 0 /\ losses = 0
    /\ stop_owed = FALSE /\ clean = TRUE
-----------------------------------------------------------------------------
(* Sending a command.                                                      *)
\* The words of the slot that the firmware reads; it ignores the arm slot.
Words(c) ==
    CASE c = "config"    -> {"value", "update_seq"}
      [] c = "emergency" -> {"reason"}
      [] OTHER           -> {}

Send(c) ==
    /\ op' = c
    /\ todo' = Words(c)
    /\ stage' = IF Words(c) = {} THEN "ring" ELSE "store"
    /\ UNCHANGED wait_left

\* publishSlot: the payload words in any order.
StoreWord(w) ==
    /\ w \in todo
    /\ todo' = todo \ {w}
    /\ IF op = "config"
       THEN config' = [config EXCEPT ![w] = candidate[w]] /\ UNCHANGED emergency
       ELSE emergency' = [emergency EXCEPT !.reason = 1] /\ UNCHANGED config
    /\ UNCHANGED <<shared_backend, mailbox, queue, rtVars, linux, fallback_mode, op, stage,
                   wait_left, candidate, configVars, iniVars, rcVars, clean, clockVars>>

\* Mutant: a stop's seq may be stored before its reason.
PayloadStoredNotReason == todo \subseteq {"reason"}

PayloadStored == todo = {}

StoreSeq ==
    /\ stage = "store" /\ PayloadStored
    /\ stage' = "ring"
    /\ IF op = "config"
       THEN config' = [config EXCEPT !.seq = candidate.update_seq] /\ UNCHANGED <<emergency, stop_owed, rc_age>>
       ELSE /\ emergency' = [emergency EXCEPT !.seq = @ + 1]
            /\ stop_owed' = FALSE
            /\ rc_age' = IF rc_age > MaxAge(FALSE) THEN MaxAge(FALSE) ELSE rc_age
            /\ UNCHANGED config
    /\ UNCHANGED <<shared_backend, mailbox, queue, rtVars, linux, fallback_mode, op, todo,
                   wait_left, candidate, configVars, iniVars, rc_seen, failsafe_sent, rc_late, losses,
                   clean, sleep_left>>

\* Where run() goes on after a command was sent there.
After == [boot |-> "cycle", cli |-> "ini", ini |-> "stop", stop |-> "arm", arm |-> "cycle"]

\* sendCommand has returned: what its caller makes of the result.
Return(ok) ==
    /\ linux' = IF op = "init" THEN IF ok THEN "boot" ELSE "failed" ELSE After[linux]
    /\ shared_backend' = IF op = "init" /\ ~ok THEN "Fallback" ELSE shared_backend
    /\ IF op = "config" /\ ok
       THEN active_config' = candidate /\ config_sent' = TRUE
       ELSE UNCHANGED configVars
    /\ failsafe_sent' = (failsafe_sent \/ op = "arm")
    /\ clean' = (clean /\ ok)
    /\ op' = NoCmd /\ stage' = "none" /\ wait_left' = 0 /\ candidate' = NoConfig
    /\ UNCHANGED <<todo, fallback_mode, iniVars, rc_seen, rc_late, losses, stop_owed>>

\* Without a device every command succeeds.
RingNothing ==
    /\ stage = "ring" /\ todo = {}
    /\ fallback_mode
    /\ Return(TRUE)
    /\ UNCHANGED <<regionVars, mailbox, queue, rtVars, clockVars>>

Ring(i) ==
    /\ stage = "ring" /\ todo = {}
    /\ ~fallback_mode
    /\ mailbox[i] = Free /\ \A j \in 1..(i - 1) : mailbox[j] # Free
    /\ mailbox' = [mailbox EXCEPT ![i] = Message("rt", op)]
    /\ stage' = "wait"
    /\ wait_left' = AckTimeout[op]
    /\ UNCHANGED <<shared_backend, regionVars, queue, rtVars, linux, fallback_mode, op, todo,
                   candidate, configVars, iniVars, rcVars, clean, clockVars>>

\* No free slot, or flushing the ION region failed: the slot stays published.
RingFails ==
    /\ stage = "ring" /\ todo = {}
    /\ ~fallback_mode
    /\ (\A i \in Slots : mailbox[i] # Free) \/ shared_backend = "Ion"
    /\ Return(FALSE)
    /\ UNCHANGED <<regionVars, mailbox, queue, rtVars, clockVars>>

\* The driver's interrupt: an answer nobody waits for is discarded.
DriverIsr(i) ==
    /\ mailbox[i][1] = "linux"
    /\ mailbox' = [mailbox EXCEPT ![i] = Free]
    /\ IF stage = "wait" /\ op = mailbox[i][2]
       THEN Return(TRUE)
       ELSE UNCHANGED <<shared_backend, linuxVars>>
    /\ UNCHANGED <<regionVars, queue, rtVars, clockVars>>

WaitTimesOut ==
    /\ stage = "wait" /\ wait_left = 0
    /\ Return(FALSE)
    /\ UNCHANGED <<regionVars, mailbox, queue, rtVars, clockVars>>
-----------------------------------------------------------------------------
(* TelemetryNode::run.                                                     *)
At(p) == linux = p /\ op = NoCmd
otherVars == <<cmdquVars, fallback_mode, clean>>

\* MailboxTransport::open, up to the announcement of the address.
Open(e) ==
    /\ At("start")
    /\ fallback_mode' = ~e.device
    /\ IF e.device /\ ~HasAddress(e)
       THEN linux' = "failed" /\ UNCHANGED <<shared_backend, sendVars>>
       ELSE /\ shared_backend' = Backend(e)
            /\ IF e.device THEN Send("init") /\ linux' = "announce"
                           ELSE UNCHANGED <<op, stage, todo, wait_left>> /\ linux' = "boot"
            /\ UNCHANGED candidate
    /\ UNCHANGED <<regionVars, mailbox, queue, rtVars, configVars, iniVars, rcVars, clean, clockVars>>

\* Mutant: no upper limit.
ClampBelow(v) == IF v < 1 THEN 1 ELSE v

Clamp(v) == IF v < 1 THEN 1 ELSE IF v > MaxValue THEN MaxValue ELSE v

\* pushConfig.  Until the first success every candidate has update_seq 1.
PushConfig(v) ==
    IF Clamp(v) = active_config.value /\ config_sent
    THEN linux' = After[linux] /\ UNCHANGED sendVars
    ELSE /\ Send("config")
         /\ candidate' = [value |-> Clamp(v),
                          update_seq |-> active_config.update_seq + (IF config_sent THEN 1 ELSE 0)]
         /\ UNCHANGED linux

Boot ==
    /\ At("boot")
    /\ PushConfig(active_config.value)
    /\ UNCHANGED <<otherVars, configVars, iniVars, rcVars, clockVars>>

\* Mutant: a link that comes back does not arm the stop again.
ReadRcKeepsSent(link_ok) ==
    /\ link_ok /\ failsafe_sent => losses < MaxLosses
    /\ losses' = IF link_ok /\ failsafe_sent THEN losses + 1 ELSE losses
    /\ rc_seen' = (rc_seen \/ link_ok)
    /\ rc_age' = IF link_ok THEN 0 ELSE rc_age
    /\ rc_late' = (rc_age' > RcTimeout)
    /\ stop_owed' = (stop_owed \/ link_ok)
    /\ UNCHANGED failsafe_sent

\* The RC sample of a cycle, and what the cycle will find in now_us - last_rc_ok_us.
ReadRc(link_ok) ==
    /\ link_ok /\ failsafe_sent => losses < MaxLosses
    /\ losses' = IF link_ok /\ failsafe_sent THEN losses + 1 ELSE losses
    /\ rc_seen' = (rc_seen \/ link_ok)
    /\ rc_age' = IF link_ok THEN 0 ELSE rc_age
    /\ rc_late' = (rc_age' > RcTimeout)
    /\ stop_owed' = (stop_owed \/ link_ok)
    /\ failsafe_sent' = (failsafe_sent /\ ~link_ok)

\* sleep_until has returned.
BeginCycle(link_ok) ==
    /\ At("cycle") /\ sleep_left <= 0
    /\ linux' = "cli"
    /\ sleep_left' = sleep_left + Period
    /\ ReadRc(link_ok)
    /\ UNCHANGED <<otherVars, sendVars, configVars, iniVars>>

\* No line, or one that sets nothing.
CliNothing ==
    /\ At("cli")
    /\ linux' = "ini"
    /\ UNCHANGED <<otherVars, sendVars, configVars, iniVars, rcVars, clockVars>>

CliSet(v) ==
    /\ At("cli")
    /\ inputs < MaxInputs
    /\ inputs' = inputs + 1
    /\ PushConfig(v)
    /\ UNCHANGED <<otherVars, configVars, ini_cache, rcVars, clockVars>>

\* No INI file, or one that has not changed.
IniNothing ==
    /\ At("ini")
    /\ linux' = "stop"
    /\ UNCHANGED <<otherVars, sendVars, configVars, iniVars, rcVars, clockVars>>

\* A new text: the cache is set before the push, and stays when the push fails.
LoadIni(text) ==
    /\ At("ini")
    /\ inputs < MaxInputs /\ ini_cache # text
    /\ inputs' = inputs + 1
    /\ ini_cache' = text
    /\ IF text = NoText THEN linux' = After[linux] /\ UNCHANGED sendVars
                        ELSE PushConfig(Head(text))
    /\ UNCHANGED <<otherVars, configVars, rcVars, clockVars>>

\* The clock was read before this cycle's config commands.
CheckRc ==
    /\ At("stop")
    /\ rc_late' = FALSE
    /\ IF rc_seen /\ rc_late /\ ~failsafe_sent
       THEN Send("emergency") /\ UNCHANGED <<linux, candidate>>
       ELSE linux' = "cycle" /\ UNCHANGED sendVars
    /\ UNCHANGED <<otherVars, configVars, iniVars, rc_seen, failsafe_sent, losses, stop_owed, clockVars>>

SendFailsafe ==
    /\ At("arm")
    /\ Send("arm")
    /\ UNCHANGED <<linux, candidate, otherVars, configVars, iniVars, rcVars, clockVars>>

-----------------------------------------------------------------------------
(* Time and scheduling.                                                    *)
\* Time passes while Linux waits or sleeps.
Tick ==
    /\ (stage = "wait" /\ wait_left > 0) \/ (At("cycle") /\ sleep_left > 0)
    /\ wait_left' = IF stage = "wait" THEN wait_left - 1 ELSE wait_left
    /\ rc_age' = IF rc_seen /\ rc_age < MaxAge(stop_owed) THEN rc_age + 1 ELSE rc_age
    /\ sleep_left' = IF linux \in {"announce", "boot"} THEN sleep_left ELSE sleep_left - 1
    /\ UNCHANGED <<cmdquVars, linux, fallback_mode, op, stage, todo, candidate, configVars, iniVars,
                   rcVars, clean>>

SendNext ==
    \/ \E w \in {"value", "update_seq", "reason"} : StoreWord(w)
    \/ StoreSeq \/ RingNothing \/ RingFails \/ WaitTimesOut
    \/ \E i \in Slots : Ring(i)

LoopNext ==
    \/ \E e \in Environments : Open(e)
    \/ Boot
    \/ \E ok \in BOOLEAN : BeginCycle(ok)
    \/ CliNothing \/ \E v \in Inputs : CliSet(v)
    \/ IniNothing \/ \E text \in Texts : LoadIni(text)
    \/ CheckRc \/ SendFailsafe

\* Steps of run() between two commands touch nothing that the firmware sees: they are
\* taken before the other core goes on.
AtLocalStep == op = NoCmd /\ linux # "failed" /\ ~(linux = "cycle" /\ sleep_left > 0)

Task == TaskNext /\ ~AtLocalStep /\ UNCHANGED <<linuxVars, clockVars>>
Interrupts ==
    /\ ~AtLocalStep
    /\ \E i \in Slots : DriverIsr(i) \/ (Isr(i) /\ UNCHANGED <<linuxVars, clockVars>>)

Next == SendNext \/ LoopNext \/ Task \/ Interrupts \/ Tick

Spec == Init /\ [][Next]_vars

\* Linux and the firmware's task are scheduled, interrupts are served, time passes.
\* Task and Interrupts are disabled at each local step of Linux, hence SF.
FairSpec ==
    /\ Spec
    /\ WF_vars(SendNext \/ LoopNext \/ Tick)
    /\ SF_vars(Task)
    /\ SF_vars(Interrupts)
-----------------------------------------------------------------------------
\* The region, the mailbox, the firmware's task and the Linux process keep their types;
\* what Linux clamps stays clamped in the slot and in the firmware.
TypeOK ==
    /\ shared_backend \in {"Fallback", "Ion", "DevMem", "Shm"} /\ fallback_mode \in BOOLEAN
    /\ emergency \in [seq: Nat, reason: 0..1]
    /\ config \in [seq: Nat, update_seq: Nat, value: Values \cup {0}]
    /\ mailbox \in [Slots -> {Free} \cup ({"rt", "linux"} \X Cmds)]
    /\ queue \in Seq(Cmds) /\ Len(queue) <= QueueLength
    /\ rt \in {"idle", "poll", "reason", "config", "update", "value", "serve"}
    /\ cmd \in Cmds \cup {NoCmd} /\ {seq, last_emergency_seq} \subseteq Nat
    /\ {shm_ready, latched} \subseteq BOOLEAN
    /\ last_config \in Nat \X Nat /\ applied \in Values \cup {0}
    /\ linux \in DOMAIN After \cup {"start", "announce", "cycle", "failed"}
    /\ op \in Cmds \cup {NoCmd} /\ stage \in {"none", "store", "ring", "wait"}
    /\ todo \subseteq Words(op)
    /\ candidate \in [value: Values \cup {0}, update_seq: Nat]
    /\ active_config \in [value: Values, update_seq: Nat]
    /\ ini_cache \in Texts
    /\ {config_sent, rc_seen, failsafe_sent, rc_late, stop_owed, clean} \subseteq BOOLEAN
    /\ {wait_left, inputs, losses} \subseteq Nat
    /\ rc_age \in 0..MaxAge(stop_owed) /\ sleep_left \in Int /\ sleep_left <= Period

(* A stop is never taken for a clear: once the firmware has noticed an     *)
(* emergency slot, it has latched, although it reads seq and reason apart  *)
(* and checks no CRC.                                                      *)
StopNeverReadAsClear == last_emergency_seq # 0 /\ rt # "reason" => latched

(* As long as every command was answered in time, an answer means that the *)
(* firmware has done what was asked: it flies with the config Linux holds  *)
(* to be in force, and has latched a stop that was sent.  Reads of a       *)
(* half-stored slot, polls between store and doorbell and the choice of    *)
(* the memory region do not change that.  The exception, "Fallback", is a  *)
(* Linux that could open neither /dev/mem nor the shm file and announces   *)
(* memory it does not write.                                               *)
AckMeansApplied ==
    clean /\ op = NoCmd /\ ~fallback_mode /\ shared_backend # "Fallback"
        => /\ config_sent => applied = active_config.value
           /\ failsafe_sent => latched

(* When the link is lost, a stop is in the region at most StopDelay ticks  *)
(* after the last good RC sample, though each cycle may block in two       *)
(* config commands between reading the clock and acting on it.             *)
StopPublishedInTime == stop_owed => rc_age <= StopDelay

(* README.md:55 promises a hot reload of the INI file, README.md:57 that a *)
(* config that arrives is applied immediately: a config that Linux holds   *)
(* to be in force comes into force, or another one takes its place.        *)
ConfigReaches ==
    \A v \in Values :
        (config_sent /\ active_config.value = v /\ shm_ready /\ Visible)
            ~> (applied = v \/ active_config.value # v)
=============================================================================
