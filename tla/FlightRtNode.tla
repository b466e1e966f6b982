---------------------------- MODULE FlightRtNode ----------------------------
(***************************************************************************)
(* The 1 kHz loop of rt_core/FlightRtNode.cpp together with its command    *)
(* transport (rt_core/RtosCmdquIsrTransport.cpp) and receiver              *)
(* (rt_core/Receiver.cpp), while Linux publishes command slots in shared   *)
(* memory and rings the mailbox doorbell.                                  *)
(*                                                                         *)
(* A cycle polls the transport, applies the command, polls the receiver,   *)
(* applies its sample, checks the timeouts and runs the control step when  *)
(* it is due.  It is cut into steps where it reads a slot, the doorbell    *)
(* ring or the clock, so Linux, the mailbox ISR and time interleave; the   *)
(* clock readings of the timeout check and of the control step, which      *)
(* follow each other at once, are one.                                     *)
(* A slot is its sequence number (and, for config, a version identifying   *)
(* its contents); slots are published and read as a whole.                 *)
(***************************************************************************)
EXTENDS Integers, Sequences

CONSTANTS
    ArmRequests,       \* arm states Linux asks for (TelemetryNode: Failsafe only)
    Samples,           \* receiver samples: shaped throttle low, arm and failsafe switches
    RingCap,           \* doorbells the ring holds (kQueueDepth - 1)
    RxLink,            \* link timeout inside Receiver::poll (80 ms)
    ReceiverTimeout,   \* kReceiverTimeoutUs
    SetpointTimeout,   \* kSetpointTimeoutUs
    HeartbeatTimeout,  \* kHeartbeatTimeoutUs
    ControlStep,       \* kControlStepUs
    LoopPeriod,        \* ticks between the starts of two cycles
    MaxCycle,          \* ticks one cycle may take
    MaxTick,           \* bound on the clock
    MaxPublish,        \* bound on publications, per slot
    MaxRestarts,       \* bound on restarts of the Linux process
    MaxPwmFaults       \* bound on PWM writes that fail

Slots == {"emergency", "arm", "setpoint", "heartbeat", "config"}
ArmStates == {"Disarmed", "Armed", "Failsafe"}

\* The doorbell is rung for these slots only; the others are polled.
BellSlots == {"emergency", "arm", "config"}

ASSUME ConstantsAssumption ==
    /\ ArmRequests \subseteq ArmStates
    /\ Samples \subseteq [low : BOOLEAN, arm : BOOLEAN, fs : BOOLEAN]
    /\ RingCap \in Nat
    /\ RxLink \in Nat /\ ReceiverTimeout \in Nat
    /\ SetpointTimeout \in Nat /\ HeartbeatTimeout \in Nat
    /\ ControlStep \in Nat \ {0}
    /\ LoopPeriod \in Nat /\ MaxCycle \in Nat /\ MaxCycle <= LoopPeriod
    /\ MaxTick \in Nat /\ MaxPublish \in [Slots -> Nat] /\ MaxRestarts \in Nat
    /\ MaxPwmFaults \in Nat

VARIABLES
    tick,               \* hal_micros, in ticks
    pc,                 \* where the loop is in its cycle
    now_us,             \* the clock at the start of the cycle
    slot_seq,           \* sequence numbers in the shared region
    arm_payload,        \* the state in the arm slot
    config_version,     \* identifies the contents of the config slot
    linux_seq,          \* sequence counters of the Linux process
    restarts,           \* restarts of the Linux process so far
    bells,              \* doorbells on their way to the mailbox ISR
    ring,               \* pending_queue_
    last_seq,           \* last_*_seq_ of the transport
    command,            \* the IncomingCommand being assembled
    arm_state,          \* Controller::arm_state_
    setpoint_source,    \* where Controller::setpoint_ came from
    active_config,      \* the version of the config in force
    last_setpoint_us, last_heartbeat_us,
    last_frame_us, last_sample,
    next_control_due_us,
    pwm,                \* what the motors get: the minimum pulse, or some motor is driven
    pwm_faults,         \* PWM writes that have failed so far
    failed_at,          \* history: when a write failed that no later one has made good
    stop_at             \* history: when a stop not yet obeyed was published

linuxVars == <<slot_seq, arm_payload, config_version, linux_seq, restarts>>
bellVars == <<bells, ring>>
cmdVars == <<last_seq, command>>
pwmVars == <<pwm, pwm_faults, failed_at>>
ctlVars == <<arm_state, setpoint_source, pwmVars>>
cfgVars == <<active_config>>
rxVars == <<last_frame_us, last_sample>>
timeVars == <<last_setpoint_us, last_heartbeat_us, next_control_due_us>>
vars == <<tick, pc, now_us, linuxVars, bellVars, cmdVars, ctlVars, cfgVars, rxVars,
          timeVars, stop_at>>

NoCommand == [emergency |-> FALSE, arm |-> "none", setpoint |-> FALSE,
              heartbeat |-> FALSE, config |-> 0]

\* init(): calibration has taken time, so the clock is past zero.
Init ==
    /\ tick = 1 /\ pc = "idle" /\ now_us = 1
    /\ slot_seq = [s \in Slots |-> 0] /\ linux_seq = [s \in Slots |-> 0]
    /\ arm_payload = "Disarmed" /\ config_version = 0 /\ restarts = 0
    /\ bells = {} /\ ring = <<>>
    /\ last_seq = [s \in Slots |-> 0] /\ command = NoCommand
    /\ arm_state = "Disarmed" /\ setpoint_source = "boot"
    /\ pwm = "min" /\ pwm_faults = 0 /\ failed_at = 0
    /\ active_config = 0
    /\ last_setpoint_us = 1 /\ last_heartbeat_us = 0
    /\ last_frame_us = 0 /\ last_sample = [low |-> FALSE, arm |-> FALSE, fs |-> FALSE]
    /\ next_control_due_us = 1 + ControlStep
    /\ stop_at = 0
-----------------------------------------------------------------------------
Tick ==
    /\ tick < MaxTick
    /\ tick - now_us < (IF pc = "idle" THEN LoopPeriod ELSE MaxCycle)
    /\ tick' = tick + 1
    /\ UNCHANGED <<pc, now_us, linuxVars, bellVars, cmdVars, ctlVars, cfgVars, rxVars,
                   timeVars, stop_at>>
-----------------------------------------------------------------------------
(* RtosCmdquIsrTransport::poll.                                            *)

\* verify_slot and the sequence test every parse function starts with.
Fresh(s) == slot_seq[s] # 0 /\ slot_seq[s] > last_seq[s]

\* What parsing slot s adds to the command.
Parsed(cmd, s) ==
    IF ~Fresh(s) THEN cmd
    ELSE CASE s = "emergency" -> [cmd EXCEPT !.emergency = TRUE]
           [] s = "arm" -> [cmd EXCEPT !.arm = arm_payload]
           [] s = "setpoint" -> [cmd EXCEPT !.setpoint = TRUE]
           [] s = "heartbeat" -> [cmd EXCEPT !.heartbeat = TRUE]
           [] s = "config" -> [cmd EXCEPT !.config = config_version]

Consumed(S) == [s \in Slots |-> IF s \in S /\ Fresh(s) THEN slot_seq[s] ELSE last_seq[s]]

\* Mutant: stops are noticed by their doorbell only.
CycleStartByBell ==
    /\ pc = "idle"
    /\ now_us' = tick
    /\ command' = NoCommand
    /\ pc' = "pop"
    /\ UNCHANGED <<last_seq, tick, linuxVars, bellVars, ctlVars, cfgVars, rxVars, timeVars, stop_at>>

\* A new emergency stop ends the poll at once: nothing else is parsed.
CycleStart ==
    /\ pc = "idle"
    /\ now_us' = tick
    /\ command' = Parsed(NoCommand, "emergency")
    /\ last_seq' = Consumed({"emergency"})
    /\ pc' = IF Fresh("emergency") THEN "apply" ELSE "pop"
    /\ UNCHANGED <<tick, linuxVars, bellVars, ctlVars, cfgVars, rxVars, timeVars, stop_at>>

\* popCommand and the parse its doorbell names.  A stop published since the
\* start of the poll also ends it, with what was parsed so far.
PopCommand ==
    /\ pc = "pop"
    /\ ring # <<>>
    /\ LET s == Head(ring) IN
          /\ command' = Parsed(command, s)
          /\ last_seq' = Consumed({s})
          /\ pc' = IF s = "emergency" /\ Fresh(s) THEN "apply" ELSE "pop"
    /\ ring' = Tail(ring)
    /\ UNCHANGED <<tick, now_us, linuxVars, bells, ctlVars, cfgVars, rxVars, timeVars, stop_at>>

\* Mutant: the config slot is read only when its doorbell was popped.
ParseSlotsNoConfig ==
    /\ pc = "pop"
    /\ ring = <<>>
    /\ command' = Parsed(Parsed(Parsed(command, "arm"), "setpoint"), "heartbeat")
    /\ last_seq' = Consumed({"arm", "setpoint", "heartbeat"})
    /\ pc' = "apply"
    /\ UNCHANGED <<tick, now_us, linuxVars, bellVars, ctlVars, cfgVars, rxVars, timeVars, stop_at>>

\* The ring is empty: every slot but the emergency stop is parsed anyway.
ParseSlots ==
    /\ pc = "pop"
    /\ ring = <<>>
    /\ command' = Parsed(Parsed(Parsed(Parsed(command, "arm"), "setpoint"), "heartbeat"), "config")
    /\ last_seq' = Consumed({"arm", "setpoint", "heartbeat", "config"})
    /\ pc' = "apply"
    /\ UNCHANGED <<tick, now_us, linuxVars, bellVars, ctlVars, cfgVars, rxVars, timeVars, stop_at>>
-----------------------------------------------------------------------------
(* Actuator::output, stop.  The four channels are written in turn; a       *)
(* failing one ends the write and leaves the rest at their old pulse.      *)
PwmWritten(v) == pwm' = v /\ failed_at' = 0 /\ UNCHANGED pwm_faults

PwmFails(v) ==
    /\ pwm_faults < MaxPwmFaults
    /\ pwm_faults' = pwm_faults + 1
    /\ pwm' \in {pwm, IF "driven" \in {v, pwm} THEN "driven" ELSE "min"}
    /\ failed_at' = IF failed_at = 0 THEN tick ELSE failed_at

WritePwm(v) == PwmWritten(v) \/ PwmFails(v)

(* FlightRtNode::applyCommand.                                             *)
EnterFailsafe == arm_state' = "Failsafe" /\ WritePwm("min")

\* A stop is obeyed once the node is in Failsafe.
NoteObeyed == stop_at' = IF arm_state' = "Failsafe" THEN 0 ELSE stop_at

ApplyEmergency ==
    /\ command.emergency
    /\ EnterFailsafe
    /\ UNCHANGED <<setpoint_source, cfgVars, timeVars>>

\* Mutant: a config is dropped while armed.
ApplyOthersNotArmed ==
    /\ ~command.emergency
    /\ arm_state' = IF command.arm = "none" THEN arm_state ELSE command.arm
    /\ IF command.arm \in {"none", "Armed"} THEN UNCHANGED pwmVars ELSE WritePwm("min")
    /\ setpoint_source' = IF command.setpoint THEN "linux" ELSE setpoint_source
    /\ last_setpoint_us' = IF command.setpoint THEN now_us ELSE last_setpoint_us
    /\ last_heartbeat_us' = IF command.heartbeat THEN now_us ELSE last_heartbeat_us
    /\ active_config' = IF command.config # 0 /\ arm_state # "Armed"
                        THEN command.config ELSE active_config
    /\ UNCHANGED next_control_due_us

ApplyOthers ==
    /\ ~command.emergency
    /\ arm_state' = IF command.arm = "none" THEN arm_state ELSE command.arm
    /\ IF command.arm \in {"none", "Armed"} THEN UNCHANGED pwmVars ELSE WritePwm("min")
    /\ setpoint_source' = IF command.setpoint THEN "linux" ELSE setpoint_source
    /\ last_setpoint_us' = IF command.setpoint THEN now_us ELSE last_setpoint_us
    /\ last_heartbeat_us' = IF command.heartbeat THEN now_us ELSE last_heartbeat_us
    /\ active_config' = IF command.config # 0 THEN command.config ELSE active_config
    /\ UNCHANGED next_control_due_us

ApplyCommand ==
    /\ pc = "apply"
    /\ pc' = "rx"
    /\ ApplyEmergency \/ ApplyOthers
    /\ NoteObeyed
    /\ UNCHANGED <<tick, now_us, linuxVars, bellVars, cmdVars, rxVars>>
-----------------------------------------------------------------------------
(* Receiver::poll and FlightRtNode::applyReceiver.                         *)
HasLink(timeout) == last_frame_us # 0 /\ tick - last_frame_us <= timeout

\* Mutant: arming does not look at the throttle.
ArmAfterAnyThrottle(sample) ==
    IF sample.arm /\ arm_state = "Disarmed" THEN "Armed"
    ELSE IF ~sample.arm /\ arm_state = "Armed" THEN "Disarmed"
    ELSE arm_state

\* The three outcomes of a sample: failsafe, arm or disarm, keep.
ArmAfter(sample) ==
    IF sample.arm /\ sample.low /\ arm_state = "Disarmed" THEN "Armed"
    ELSE IF ~sample.arm /\ arm_state = "Armed" THEN "Disarmed"
    ELSE arm_state

\* Mutant: disarming leaves the motors to the next control step.
ApplyReceiverNoStop(sample) ==
    \/ /\ sample.fs
       /\ EnterFailsafe
       /\ UNCHANGED <<setpoint_source, timeVars>>
    \/ /\ ~sample.fs
       /\ arm_state' = ArmAfter(sample)
       /\ setpoint_source' = "rc"
       /\ last_setpoint_us' = now_us
       /\ UNCHANGED <<pwmVars, last_heartbeat_us, next_control_due_us>>

\* Mutant: the setpoint follows the sticks only once armed.
ApplyReceiverLateSetpoint(sample) ==
    \/ /\ sample.fs
       /\ EnterFailsafe
       /\ UNCHANGED <<setpoint_source, timeVars>>
    \/ /\ ~sample.fs
       /\ arm_state' = ArmAfter(sample)
       /\ IF arm_state = "Armed" /\ ~sample.arm THEN WritePwm("min") ELSE UNCHANGED pwmVars
       /\ setpoint_source' = IF arm_state = "Armed" THEN "rc" ELSE setpoint_source
       /\ last_setpoint_us' = IF arm_state = "Armed" THEN now_us ELSE last_setpoint_us
       /\ UNCHANGED <<last_heartbeat_us, next_control_due_us>>

\* Mutant: the failsafe switch and the link count only while armed.
ApplyReceiverArmedOnly(sample) ==
    \/ /\ sample.fs
       /\ IF arm_state = "Armed" THEN EnterFailsafe ELSE UNCHANGED <<arm_state, pwmVars>>
       /\ UNCHANGED <<setpoint_source, timeVars>>
    \/ /\ ~sample.fs
       /\ arm_state' = ArmAfter(sample)
       /\ IF arm_state = "Armed" /\ ~sample.arm THEN WritePwm("min") ELSE UNCHANGED pwmVars
       /\ setpoint_source' = "rc"
       /\ last_setpoint_us' = now_us
       /\ UNCHANGED <<last_heartbeat_us, next_control_due_us>>

ApplyReceiver(sample) ==
    \/ /\ sample.fs
       /\ EnterFailsafe
       /\ UNCHANGED <<setpoint_source, timeVars>>
    \/ /\ ~sample.fs
       /\ arm_state' = ArmAfter(sample)
       /\ IF arm_state = "Armed" /\ ~sample.arm THEN WritePwm("min") ELSE UNCHANGED pwmVars
       /\ setpoint_source' = "rc"
       /\ last_setpoint_us' = now_us
       /\ UNCHANGED <<last_heartbeat_us, next_control_due_us>>

\* A frame was completed by the bytes of this poll (the last one counts).
RxFrame ==
    /\ pc = "rx"
    /\ pc' = "control"
    /\ \E s \in Samples : last_sample' = s /\ ApplyReceiver(s)
    /\ last_frame_us' = tick
    /\ NoteObeyed
    /\ UNCHANGED <<tick, now_us, linuxVars, bellVars, cmdVars, cfgVars>>

\* No frame: the last sample again, or the failsafe sample once it is older
\* than the link timeout.
LostSample == [low |-> TRUE, arm |-> FALSE, fs |-> TRUE]

RxSilent ==
    /\ pc = "rx"
    /\ pc' = "control"
    /\ LET s == IF HasLink(RxLink) THEN last_sample ELSE LostSample IN
          last_sample' = s /\ ApplyReceiver(s)
    /\ NoteObeyed
    /\ UNCHANGED <<tick, now_us, linuxVars, bellVars, cmdVars, cfgVars, last_frame_us>>
-----------------------------------------------------------------------------
(* The timeouts, then the control step.                                    *)
TimedOut ==
    /\ arm_state = "Armed"
    /\ \/ tick - last_setpoint_us > SetpointTimeout
       \/ last_heartbeat_us # 0 /\ tick - last_heartbeat_us > HeartbeatTimeout
       \/ ~HasLink(ReceiverTimeout)

ControlDue == tick >= next_control_due_us

\* The next multiple of the control step after the clock.
NextDue == next_control_due_us + ((tick - next_control_due_us) \div ControlStep + 1) * ControlStep

\* Mutant: the outputs are written only while armed.
ControlOutputArmed ==
    IF arm_state = "Armed" THEN WritePwm("driven") ELSE UNCHANGED pwmVars

\* controller_.update returns the minimum pulse unless armed.
ControlOutput == WritePwm(IF arm_state = "Armed" THEN "driven" ELSE "min")

\* Several writes of the minimum pulse in one cycle count as one.
Control ==
    /\ pc = "control"
    /\ pc' = "idle"
    /\ next_control_due_us' = IF ControlDue THEN NextDue ELSE next_control_due_us
    /\ \E imuReads \in BOOLEAN :
          IF TimedOut \/ (ControlDue /\ ~imuReads)
          THEN EnterFailsafe
          ELSE /\ arm_state' = arm_state
               /\ IF ControlDue THEN ControlOutput ELSE UNCHANGED pwmVars
    /\ NoteObeyed
    /\ UNCHANGED <<tick, now_us, linuxVars, bellVars, cmdVars, setpoint_source, cfgVars, rxVars,
                   last_setpoint_us, last_heartbeat_us>>

CycleStep == CycleStart \/ PopCommand \/ ParseSlots \/ ApplyCommand \/ RxFrame \/ RxSilent \/ Control
-----------------------------------------------------------------------------
(* Linux and the mailbox.                                                  *)
rtVars == <<tick, pc, now_us, cmdVars, ctlVars, cfgVars, rxVars, timeVars>>

\* Mutant: the doorbell is rung for the high-rate slots too.
PublishRingsAll(s) ==
    /\ linux_seq[s] < MaxPublish[s]
    /\ linux_seq' = [linux_seq EXCEPT ![s] = @ + 1]
    /\ slot_seq' = [slot_seq EXCEPT ![s] = linux_seq[s] + 1]
    /\ bells' = bells \cup {s}
    /\ UNCHANGED <<arm_payload, config_version, stop_at, restarts, ring, rtVars>>

\* MailboxTransport: the slot is published, then the doorbell is rung.  Every
\* publication has a number of its own here; the config that reuses one after
\* an unanswered push is in RtosTransport and LinuxNode.
Publish(s) ==
    /\ linux_seq[s] < MaxPublish[s]
    /\ linux_seq' = [linux_seq EXCEPT ![s] = @ + 1]
    /\ slot_seq' = [slot_seq EXCEPT ![s] = linux_seq[s] + 1]
    /\ IF s = "arm" THEN arm_payload' \in ArmRequests ELSE UNCHANGED arm_payload
    /\ config_version' = IF s = "config" THEN config_version + 1 ELSE config_version
    /\ bells' = IF s \in BellSlots THEN bells \cup {s} ELSE bells
    /\ stop_at' = IF s = "emergency" /\ stop_at = 0 /\ arm_state # "Failsafe"
                  THEN tick ELSE stop_at
    /\ UNCHANGED <<restarts, ring, rtVars>>

\* A new Linux process starts its counters from zero; the region keeps its
\* contents because magic and version still match.
LinuxRestart ==
    /\ restarts < MaxRestarts
    /\ restarts' = restarts + 1
    /\ linux_seq' = [s \in Slots |-> 0]
    /\ UNCHANGED <<slot_seq, arm_payload, config_version, bellVars, stop_at, rtVars>>

\* onCmdFromMailbox, in interrupt context: a full ring drops the doorbell.
MailboxIsr(s) ==
    /\ s \in bells
    /\ bells' = bells \ {s}
    /\ ring' = IF Len(ring) < RingCap THEN Append(ring, s) ELSE ring
    /\ UNCHANGED <<linuxVars, stop_at, rtVars>>

Next == \/ Tick
        \/ CycleStart \/ PopCommand \/ ParseSlots \/ ApplyCommand
        \/ RxFrame \/ RxSilent \/ Control
        \/ \E s \in Slots : Publish(s)
        \/ LinuxRestart
        \/ \E s \in BellSlots : MailboxIsr(s)

Spec == Init /\ [][Next]_vars

\* The loop is the only task of its core and never blocks for longer than
\* its period.
FairSpec == Spec /\ WF_vars(CycleStep)
-----------------------------------------------------------------------------
\* Every variable of the loop, of the transport and of the region keeps its
\* type, and no stored clock reading lies in the future.
TypeOK ==
    /\ tick \in Nat \ {0} /\ now_us \in 1..tick
    /\ pc \in {"idle", "pop", "apply", "rx", "control"}
    /\ slot_seq \in [Slots -> Nat] /\ linux_seq \in [Slots -> Nat]
    /\ arm_payload \in ArmStates /\ config_version \in Nat /\ restarts \in Nat
    /\ bells \subseteq BellSlots /\ ring \in Seq(BellSlots)
    /\ last_seq \in [Slots -> Nat]
    /\ command \in [emergency : BOOLEAN, arm : ArmStates \cup {"none"}, setpoint : BOOLEAN,
                    heartbeat : BOOLEAN, config : Nat]
    /\ arm_state \in ArmStates /\ setpoint_source \in {"boot", "linux", "rc"}
    /\ pwm \in {"min", "driven"} /\ pwm_faults \in Nat /\ failed_at \in 0..tick
    /\ active_config \in Nat
    /\ last_setpoint_us \in 1..tick /\ last_heartbeat_us \in 0..tick
    /\ last_frame_us \in 0..tick /\ last_sample \in [low : BOOLEAN, arm : BOOLEAN, fs : BOOLEAN]
    /\ next_control_due_us \in Nat /\ stop_at \in 0..tick

\* The rest of a loop period and the cycle that acts on it.
Reaction == LoopPeriod + MaxCycle

\* Motors are driven only in Armed, and never longer than one reaction time
\* after the receiver's 80 ms link timeout or after the heartbeat timeout:
\* every path that leaves Armed also stops the motors, control due or not.
\* A write that failed is left to StopRetried.
DriveStopsInTime ==
    pwm = "driven" /\ failed_at = 0 =>
        /\ arm_state = "Armed"
        /\ last_frame_us # 0 /\ tick - last_frame_us <= RxLink + Reaction
        /\ last_heartbeat_us # 0 => tick - last_heartbeat_us <= HeartbeatTimeout + Reaction

\* A stop whose write failed half way is made good: enterFailsafe writes the
\* outputs once and nobody looks at the result, but the control step writes
\* them again in every state, so one failure lasts for a control step and a
\* reaction time.
StopRetried ==
    failed_at # 0 /\ pwm_faults = 1 => tick - failed_at <= ControlStep + Reaction

\* Setpoints of Linux never fly: whenever the control step runs armed, the
\* setpoint is the receiver's and was refreshed in this very cycle, although
\* applyCommand stores the Linux setpoint in the same place every cycle.
RcOwnsSetpoint ==
    pc = "control" /\ arm_state = "Armed" =>
        /\ setpoint_source = "rc"
        /\ last_setpoint_us = now_us

\* README.md:36: an emergency stop is handled before the control update.  A
\* stop published at any point of a cycle stops the motors within one
\* reaction time, whether or not its doorbell reached the ring.
EmergencyStopsInTime == stop_at # 0 => tick - stop_at <= Reaction

\* README.md:23: only the receiver's arm switch arms and disarms, and arms with
\* throttle low only.  Every other change of the arm state leads into Failsafe,
\* and none leads out of it, whatever frames, switches, setpoints and heartbeats
\* follow: after a stop or a lost link only a restart of the core flies.
ArmChangesByPilot ==
    [][arm_state' # arm_state =>
           \/ arm_state' = "Failsafe"
           \/ /\ arm_state # "Failsafe" /\ pc = "rx" /\ ~last_sample'.fs
              /\ IF arm_state' = "Armed" THEN last_sample'.arm /\ last_sample'.low
                                         ELSE ~last_sample'.arm]_vars

\* A node outside Failsafe, armed or not, has had a frame within the link
\* timeout and one reaction time, from its first cycle on: a receiver that is
\* late for the first poll, or silent on the ground, ends in Failsafe.
AliveNeedsLink ==
    arm_state # "Failsafe" /\ tick - 1 > Reaction =>
        last_frame_us # 0 /\ tick - last_frame_us <= RxLink + Reaction

\* A config that the transport consumed is in force at the end of its cycle,
\* unless an emergency stop arrived in the middle of the same poll.
ConsumedConfigApplied ==
    pc = "idle" /\ last_seq["config"] # 0 =>
        \/ command.config \in {0, active_config}
        \/ arm_state = "Failsafe"

\* README.md:57: when a config arrives it is applied.  What the config slot
\* holds comes into force, unless it is replaced or the node has stopped.
ConfigTakesEffect ==
    \A v \in 1..MaxPublish["config"] + 1 :
        config_version = v ~> \/ active_config = v \/ config_version # v
                              \/ arm_state = "Failsafe"
=============================================================================
