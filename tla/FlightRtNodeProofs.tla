------------------------- MODULE FlightRtNodeProofs -------------------------
(***************************************************************************)
(* Theorems about the 1 kHz loop of FlightRtNode.cpp for every timeout,    *)
(* control step, loop period, set of receiver samples, size of the         *)
(* doorbell ring and number of publications, restarts and PWM faults.      *)
(***************************************************************************)
EXTENDS FlightRtNode, SequenceTheorems, TLAPS

Commands == [emergency : BOOLEAN, arm : ArmStates \cup {"none"}, setpoint : BOOLEAN,
             heartbeat : BOOLEAN, config : Nat]

\* The parts of TypeOK, by who writes them.
LinuxType ==
    /\ slot_seq \in [Slots -> Nat] /\ linux_seq \in [Slots -> Nat]
    /\ arm_payload \in ArmStates /\ config_version \in Nat /\ restarts \in Nat
    /\ bells \subseteq BellSlots /\ ring \in Seq(BellSlots)

CommandType == last_seq \in [Slots -> Nat] /\ command \in Commands

NodeType ==
    /\ arm_state \in ArmStates /\ setpoint_source \in {"boot", "linux", "rc"}
    /\ pwm \in {"min", "driven"} /\ pwm_faults \in Nat
    /\ active_config \in Nat
    /\ last_sample \in [low : BOOLEAN, arm : BOOLEAN, fs : BOOLEAN]
    /\ pc \in {"idle", "pop", "apply", "rx", "control"}

ClockType ==
    /\ tick \in Nat \ {0} /\ now_us \in 1..tick
    /\ failed_at \in 0..tick /\ stop_at \in 0..tick
    /\ last_setpoint_us \in 1..tick /\ last_heartbeat_us \in 0..tick
    /\ last_frame_us \in 0..tick
    /\ next_control_due_us \in Nat

\* The parts make up TypeOK.
LEMMA TypeParts == TypeOK <=> LinuxType /\ CommandType /\ NodeType /\ ClockType
BY DEF TypeOK, LinuxType, CommandType, NodeType, ClockType, Commands
-----------------------------------------------------------------------------
\* Parsing a slot of the region yields a command.
LEMMA ParsedType ==
    ASSUME LinuxType, NEW cmd \in Commands, NEW s \in Slots
    PROVE  Parsed(cmd, s) \in Commands
BY DEF LinuxType, Commands, Slots, Parsed

\* Only an emergency slot makes an emergency, and only an arm slot an arm
\* request.
LEMMA ParsedFields ==
    ASSUME NEW cmd \in Commands, NEW s \in Slots
    PROVE  /\ Parsed(cmd, s).emergency = (cmd.emergency \/ (s = "emergency" /\ Fresh(s)))
           /\ Parsed(cmd, s).arm = IF s = "arm" /\ Fresh(s) THEN arm_payload ELSE cmd.arm
BY DEF Commands, Slots, Parsed

\* The sequence numbers the transport records are numbers.
LEMMA ConsumedType ==
    ASSUME LinuxType, CommandType, NEW S
    PROVE  Consumed(S) \in [Slots -> Nat]
BY DEF LinuxType, CommandType, Consumed

\* The two outcomes of a PWM write: it makes good what failed before, or it
\* is counted and the first failure is dated.
Wrote(v) ==
    \/ failed_at' = 0 /\ pwm' = v /\ pwm_faults' = pwm_faults
    \/ /\ failed_at' # 0 /\ pwm_faults' = pwm_faults + 1
       /\ failed_at' = IF failed_at = 0 THEN tick ELSE failed_at

\* The types of what a write of the outputs changes.
PwmType == pwm \in {"min", "driven"} /\ pwm_faults \in Nat /\ failed_at \in 0..tick

\* Actuator::output, whether it succeeds or stops half way.
LEMMA WriteEffect ==
    ASSUME NodeType, ClockType, NEW v \in {"min", "driven"}, WritePwm(v), tick' = tick
    PROVE  PwmType' /\ Wrote(v)
<1>1. CASE PwmWritten(v)
    BY <1>1 DEF PwmWritten, NodeType, ClockType, PwmType, Wrote
<1>2. CASE PwmFails(v)
    BY <1>2 DEF PwmFails, NodeType, ClockType, PwmType, Wrote
<1> QED BY <1>1, <1>2 DEF WritePwm

\* Whatever changes the arm state outside the control step writes the minimum
\* pulse when it leaves Armed.
NodeEffect ==
    /\ arm_state' \in ArmStates /\ setpoint_source' \in {"boot", "linux", "rc"} /\ PwmType'
    /\ \/ UNCHANGED pwmVars /\ (arm_state = "Armed" => arm_state' = "Armed")
       \/ Wrote("min")
       \/ Wrote("driven") /\ pc = "control" /\ arm_state = "Armed" /\ arm_state' = "Armed"
    /\ stop_at' = (IF arm_state' = "Failsafe" THEN 0 ELSE stop_at)
    /\ tick' = tick /\ now_us' = now_us

\* FlightRtNode::applyCommand.
LEMMA ApplyEffect ==
    ASSUME TypeOK, ApplyCommand
    PROVE  /\ NodeEffect /\ pc' = "rx"
           /\ arm_state' = IF command.emergency THEN "Failsafe"
                           ELSE IF command.arm = "none" THEN arm_state ELSE command.arm
           /\ last_setpoint_us' \in {last_setpoint_us, now_us}
           /\ last_heartbeat_us' \in {last_heartbeat_us, now_us}
           /\ active_config' \in {active_config, command.config}
           /\ ~command.emergency => command.config \in {0, active_config'}
           /\ UNCHANGED <<linuxVars, bellVars, cmdVars, rxVars, next_control_due_us>>
<1> USE TypeParts DEF NodeEffect
<1>0. tick' = tick /\ NodeType /\ ClockType /\ command \in Commands
    BY DEF ApplyCommand, CommandType
<1>1. CASE ApplyEmergency
    <2>1. PwmType' /\ Wrote("min")
        BY <1>0, <1>1, WriteEffect DEF ApplyEmergency, EnterFailsafe
    <2> QED BY <1>0, <1>1, <2>1
            DEF ApplyCommand, ApplyEmergency, EnterFailsafe, NoteObeyed, ArmStates, timeVars, cfgVars,
                NodeType
<1>2. CASE ApplyOthers
    <2>1. PwmType' /\ (Wrote("min") \/ (UNCHANGED pwmVars /\ command.arm \in {"none", "Armed"}))
        BY <1>0, <1>2, WriteEffect DEF ApplyOthers, NodeType, ClockType, PwmType, pwmVars
    <2>2. arm_state' \in ArmStates /\ setpoint_source' \in {"boot", "linux", "rc"}
        BY <1>0, <1>2 DEF ApplyOthers, NodeType, Commands
    <2> QED BY <1>0, <1>2, <2>1, <2>2 DEF ApplyCommand, ApplyOthers, NoteObeyed
<1> QED BY <1>1, <1>2 DEF ApplyCommand

\* FlightRtNode::applyReceiver, for the sample of a new frame, the last one or
\* the failsafe sample.
LEMMA ReceiverEffect ==
    ASSUME TypeOK, RxFrame \/ RxSilent
    PROVE  /\ NodeEffect /\ pc = "rx" /\ pc' = "control"
           /\ last_sample' \in [low : BOOLEAN, arm : BOOLEAN, fs : BOOLEAN]
           /\ last_setpoint_us' \in {last_setpoint_us, now_us}
           /\ last_frame_us' \in {last_frame_us, tick}
           /\ arm_state' # "Failsafe" =>
                 /\ arm_state # "Failsafe" /\ ~last_sample'.fs
                 /\ setpoint_source' = "rc" /\ last_setpoint_us' = now_us
                 /\ last_frame_us' # 0 /\ tick - last_frame_us' <= RxLink
           /\ arm_state' \notin {arm_state, "Failsafe"} =>
                 IF arm_state' = "Armed" THEN last_sample'.arm /\ last_sample'.low
                                         ELSE ~last_sample'.arm
           /\ UNCHANGED <<linuxVars, bellVars, cmdVars, cfgVars, last_heartbeat_us, next_control_due_us>>
<1> USE TypeParts DEF NodeEffect
<1> DEFINE Sample == [low : BOOLEAN, arm : BOOLEAN, fs : BOOLEAN]
<1>0. tick' = tick /\ now_us' = now_us /\ NodeType /\ ClockType
    BY DEF RxFrame, RxSilent
<1>1. PICK s \in Sample : last_sample' = s /\ ApplyReceiver(s)
    BY <1>0, ConstantsAssumption DEF RxFrame, RxSilent, LostSample, NodeType
<1>2. last_frame_us' \in {last_frame_us, tick}
      /\ (~s.fs => last_frame_us' # 0 /\ tick - last_frame_us' <= RxLink)
    BY <1>0, <1>1, ConstantsAssumption DEF RxFrame, RxSilent, LostSample, HasLink, ClockType
<1>3. CASE s.fs
    <2>1. EnterFailsafe /\ UNCHANGED <<setpoint_source, timeVars>>
        BY <1>1, <1>3 DEF ApplyReceiver
    <2>2. PwmType' /\ Wrote("min")
        BY <1>0, <2>1, WriteEffect DEF EnterFailsafe
    <2> QED BY <1>0, <1>1, <1>2, <2>1, <2>2
            DEF RxFrame, RxSilent, EnterFailsafe, NoteObeyed, ArmStates, timeVars, NodeType
<1>4. CASE ~s.fs
    <2>1. /\ arm_state' = ArmAfter(s) /\ setpoint_source' = "rc" /\ last_setpoint_us' = now_us
          /\ IF arm_state = "Armed" /\ ~s.arm THEN WritePwm("min") ELSE UNCHANGED pwmVars
          /\ UNCHANGED <<last_heartbeat_us, next_control_due_us>>
        BY <1>1, <1>4 DEF ApplyReceiver
    <2>2. /\ arm_state' \in ArmStates
          /\ arm_state' # arm_state => IF arm_state' = "Armed" THEN s.arm /\ s.low ELSE ~s.arm
          /\ arm_state = "Failsafe" => arm_state' = "Failsafe"
          /\ arm_state = "Armed" /\ s.arm => arm_state' = "Armed"
        BY <1>0, <2>1 DEF ArmAfter, NodeType, ArmStates
    <2>3. PwmType' /\ (Wrote("min") \/ (UNCHANGED pwmVars /\ (arm_state = "Armed" => arm_state' = "Armed")))
        BY <1>0, <2>1, <2>2, WriteEffect DEF NodeType, ClockType, PwmType, pwmVars
    <2> QED BY <1>0, <1>1, <1>2, <1>4, <2>1, <2>2, <2>3 DEF RxFrame, RxSilent, NoteObeyed
<1> QED BY <1>3, <1>4

\* The control step is scheduled for a later tick, and at most one period
\* later.
LEMMA NextDueBounds ==
    ASSUME ClockType, ControlDue
    PROVE  NextDue \in Nat /\ tick < NextDue /\ NextDue <= tick + ControlStep
<1> DEFINE d == tick - next_control_due_us
           q == d \div ControlStep
<1>1. d \in Nat /\ ControlStep \in Nat /\ ControlStep > 0
    BY ConstantsAssumption DEF ClockType, ControlDue
<1> HIDE DEF d
<1>2. q \in Nat /\ q * ControlStep <= d /\ d < q * ControlStep + ControlStep
    BY <1>1
<1>3. (q + 1) * ControlStep = q * ControlStep + ControlStep /\ q * ControlStep \in Nat
    BY <1>1, <1>2
<1>4. NextDue = next_control_due_us + (q + 1) * ControlStep
    BY DEF NextDue, d
<1> HIDE DEF q
<1> QED BY <1>1, <1>2, <1>3, <1>4 DEF d, ClockType

\* The timeouts and the control step.
LEMMA ControlEffect ==
    ASSUME TypeOK, Control
    PROVE  /\ NodeEffect /\ pc = "control" /\ pc' = "idle"
           /\ next_control_due_us' = IF ControlDue THEN NextDue ELSE next_control_due_us
           /\ arm_state' \in {arm_state, "Failsafe"}
           /\ arm_state' = "Armed" => ~TimedOut
           /\ ControlDue => Wrote("min") \/ Wrote("driven")
           /\ UNCHANGED <<linuxVars, bellVars, cmdVars, setpoint_source, cfgVars, rxVars,
                          last_setpoint_us, last_heartbeat_us>>
<1> USE TypeParts DEF NodeEffect
<1>0. tick' = tick /\ now_us' = now_us /\ NodeType /\ ClockType /\ pc = "control" /\ pc' = "idle"
    BY DEF Control
<1>1. CASE EnterFailsafe
    <2>1. PwmType' /\ Wrote("min")
        BY <1>0, <1>1, WriteEffect DEF EnterFailsafe
    <2> QED BY <1>0, <1>1, <2>1 DEF Control, EnterFailsafe, NoteObeyed, ArmStates, NodeType
<1>2. CASE ~EnterFailsafe
    <2>1. /\ ~TimedOut /\ arm_state' = arm_state
          /\ IF ControlDue THEN ControlOutput ELSE UNCHANGED pwmVars
        BY <1>2 DEF Control
    <2>2. CASE ControlDue
        <3>1. \/ arm_state = "Armed" /\ WritePwm("driven")
              \/ WritePwm("min")
            BY <2>1, <2>2 DEF ControlOutput
        <3>2. PwmType' /\ (Wrote("min") \/ (arm_state = "Armed" /\ Wrote("driven")))
            BY <1>0, <3>1, WriteEffect
        <3> QED BY <1>0, <2>1, <3>2 DEF Control, NoteObeyed, NodeType
    <2>3. CASE ~ControlDue
        <3>1. PwmType'
            BY <1>0, <2>1, <2>3 DEF PwmType, pwmVars, NodeType, ClockType
        <3> QED BY <1>0, <2>1, <2>3, <3>1 DEF Control, NoteObeyed, NodeType
    <2> QED BY <2>2, <2>3
<1> QED BY <1>1, <1>2

\* Polling the transport only moves slots into the command.
LEMMA PollEffect ==
    ASSUME TypeOK, CycleStart \/ PopCommand \/ ParseSlots
    PROVE  /\ CommandType' /\ LinuxType' /\ pc \in {"idle", "pop"} /\ pc' \in {"pop", "apply"}
           /\ UNCHANGED <<tick, linuxVars, bells, ctlVars, cfgVars, rxVars, timeVars, stop_at>>
           /\ now_us' = IF pc = "idle" THEN tick ELSE now_us
           /\ pc = "idle" => CycleStart
<1> USE TypeParts
<1>0. LinuxType /\ CommandType /\ command \in Commands
    BY DEF CommandType
<1>1. CASE CycleStart
    <2>1. NoCommand \in Commands
        BY DEF NoCommand, Commands
    <2>2. CommandType'
        BY <1>0, <1>1, <2>1, ParsedType, ConsumedType DEF CycleStart, CommandType, Slots
    <2> QED BY <1>0, <1>1, <2>2 DEF CycleStart, LinuxType, linuxVars, bellVars
<1>2. CASE PopCommand
    <2>1. Head(ring) \in BellSlots /\ Tail(ring) \in Seq(BellSlots)
        BY <1>0, <1>2, HeadTailProperties DEF PopCommand, LinuxType
    <2>2. CommandType'
        BY <1>0, <1>2, <2>1, ParsedType, ConsumedType DEF PopCommand, CommandType, Slots, BellSlots
    <2> QED BY <1>0, <1>2, <2>1, <2>2 DEF PopCommand, LinuxType, linuxVars
<1>3. CASE ParseSlots
    <2>1. Parsed(command, "arm") \in Commands
        BY <1>0, ParsedType DEF Slots
    <2>2. Parsed(Parsed(command, "arm"), "setpoint") \in Commands
        BY <1>0, <2>1, ParsedType DEF Slots
    <2>3. Parsed(Parsed(Parsed(command, "arm"), "setpoint"), "heartbeat") \in Commands
        BY <1>0, <2>2, ParsedType DEF Slots
    <2>4. Parsed(Parsed(Parsed(Parsed(command, "arm"), "setpoint"), "heartbeat"), "config") \in Commands
        BY <1>0, <2>3, ParsedType DEF Slots
    <2>5. CommandType'
        BY <1>0, <1>3, <2>4, ConsumedType DEF ParseSlots, CommandType
    <2> QED BY <1>0, <1>3, <2>5 DEF ParseSlots, LinuxType, linuxVars, bellVars
<1> QED BY <1>1, <1>2, <1>3

\* Linux and the mailbox leave the loop alone.
LEMMA LinuxEffect ==
    ASSUME TypeOK, (\E s \in Slots : Publish(s)) \/ LinuxRestart \/ (\E s \in BellSlots : MailboxIsr(s))
    PROVE  /\ LinuxType' /\ UNCHANGED rtVars
           /\ stop_at' = stop_at \/ (stop_at' = tick /\ stop_at = 0 /\ arm_state # "Failsafe")
<1> USE TypeParts
<1>1. ASSUME NEW s \in Slots, Publish(s)
      PROVE  /\ LinuxType' /\ UNCHANGED rtVars
             /\ stop_at' = stop_at \/ (stop_at' = tick /\ stop_at = 0 /\ arm_state # "Failsafe")
    <2>1. arm_payload' \in ArmStates
        BY <1>1, ConstantsAssumption DEF Publish, LinuxType
    <2> QED BY <1>1, <2>1 DEF Publish, LinuxType
<1>2. CASE LinuxRestart
    BY <1>2 DEF LinuxRestart, LinuxType, bellVars
<1>3. ASSUME NEW s \in BellSlots, MailboxIsr(s)
      PROVE  LinuxType' /\ UNCHANGED rtVars /\ stop_at' = stop_at
    <2>1. ring' \in Seq(BellSlots)
        BY <1>3 DEF MailboxIsr, LinuxType
    <2> QED BY <1>3, <2>1 DEF MailboxIsr, LinuxType, linuxVars
<1> QED BY <1>1, <1>2, <1>3

\* Every step keeps the types, and no clock reading is from the future.
LEMMA TypeStep == TypeOK /\ [Next]_vars => TypeOK'
<1> SUFFICES ASSUME TypeOK, [Next]_vars PROVE TypeOK'
    OBVIOUS
<1>p. LinuxType' /\ CommandType' /\ NodeType' /\ ClockType' => TypeOK'
    BY DEF TypeOK, LinuxType, CommandType, NodeType, ClockType, Commands
<1>t. LinuxType /\ CommandType /\ NodeType /\ ClockType
    BY TypeParts
<1>1. CASE Tick
    BY <1>1, <1>p, <1>t
    DEF Tick, LinuxType, CommandType, NodeType, ClockType, linuxVars, bellVars, cmdVars, ctlVars,
        pwmVars, cfgVars, rxVars, timeVars
<1>2. CASE CycleStart \/ PopCommand \/ ParseSlots
    BY <1>2, <1>p, <1>t, PollEffect
    DEF NodeType, ClockType, ctlVars, pwmVars, cfgVars, rxVars, timeVars
<1>3. CASE ApplyCommand
    <2>1. NodeType' /\ ClockType'
        BY <1>3, <1>t, ApplyEffect
        DEF NodeType, ClockType, NodeEffect, PwmType, CommandType, Commands, rxVars
    <2> QED BY <1>3, <1>p, <1>t, <2>1, ApplyEffect
            DEF LinuxType, CommandType, linuxVars, bellVars, cmdVars
<1>4. CASE RxFrame \/ RxSilent
    <2>1. NodeType' /\ ClockType'
        BY <1>4, <1>t, ReceiverEffect DEF NodeType, ClockType, NodeEffect, PwmType, cfgVars
    <2> QED BY <1>4, <1>p, <1>t, <2>1, ReceiverEffect
            DEF LinuxType, CommandType, linuxVars, bellVars, cmdVars
<1>5. CASE Control
    <2>1. next_control_due_us' \in Nat
        BY <1>5, <1>t, ControlEffect, NextDueBounds DEF ClockType
    <2>2. NodeType' /\ ClockType'
        BY <1>5, <1>t, <2>1, ControlEffect
        DEF NodeType, ClockType, NodeEffect, PwmType, cfgVars, rxVars
    <2> QED BY <1>5, <1>p, <1>t, <2>2, ControlEffect
            DEF LinuxType, CommandType, linuxVars, bellVars, cmdVars
<1>6. CASE (\E s \in Slots : Publish(s)) \/ LinuxRestart \/ (\E s \in BellSlots : MailboxIsr(s))
    BY <1>6, <1>p, <1>t, LinuxEffect
    DEF rtVars, CommandType, NodeType, ClockType, cmdVars, ctlVars, pwmVars, cfgVars, rxVars, timeVars
<1>7. CASE UNCHANGED vars
    BY <1>7, <1>p, <1>t
    DEF vars, LinuxType, CommandType, NodeType, ClockType, linuxVars, bellVars, cmdVars, ctlVars,
        pwmVars, cfgVars, rxVars, timeVars
<1> QED BY <1>1, <1>2, <1>3, <1>4, <1>5, <1>6, <1>7 DEF Next

\* The node keeps its types, and no stored clock reading lies in the future,
\* so that the unsigned differences of FlightRtNode.cpp never wrap.
THEOREM NodeTypeCorrect == Spec => []TypeOK
<1>1. Init => TypeOK
    BY ConstantsAssumption DEF Init, TypeOK, NoCommand, Slots, ArmStates, BellSlots
<1> QED BY <1>1, TypeStep, PTL DEF Spec
-----------------------------------------------------------------------------
\* The scheduling bounds of the loop.
CycleInv ==
    /\ tick - now_us <= LoopPeriod
    /\ pc # "idle" => tick - now_us <= MaxCycle

\* The age of the last frame at the start of the cycle, once the receiver has
\* been polled and before.
FrameWithin(bound) == last_frame_us # 0 /\ now_us - last_frame_us <= bound

\* A node that has passed the receiver poll outside Failsafe has a link.
LinkSeen == pc = "control" /\ arm_state # "Failsafe" => FrameWithin(RxLink)

\* The motors are driven only on what the last receiver poll and the last
\* timeout check have found; before they run again, the findings are older by
\* at most one loop period.
DriveInv ==
    pwm = "driven" /\ failed_at = 0 =>
        /\ arm_state = "Armed"
        /\ FrameWithin(RxLink + LoopPeriod)
        /\ pc \in {"control", "idle"} => FrameWithin(RxLink)
        /\ last_heartbeat_us # 0 => now_us - last_heartbeat_us <= HeartbeatTimeout + LoopPeriod
        /\ last_heartbeat_us # 0 /\ pc = "idle" => now_us - last_heartbeat_us <= HeartbeatTimeout

\* A write that failed is repeated by the control step that was due at most
\* one period after it, and that step runs at most one loop period late.
RetryInv ==
    /\ failed_at # 0 => pwm_faults # 0
    /\ next_control_due_us <= tick + ControlStep
    /\ failed_at # 0 /\ pwm_faults = 1 => next_control_due_us <= failed_at + ControlStep
    /\ pc = "idle" => now_us < next_control_due_us
    /\ now_us <= next_control_due_us + LoopPeriod


LoopVars == <<tick, pc, now_us, cmdVars, ctlVars, cfgVars, rxVars, timeVars>>

\* A step that is none of the loop's nor of the clock leaves the loop alone.
LEMMA OtherSteps ==
    ASSUME TypeOK, [Next]_vars, ~Tick, ~CycleStart, ~PopCommand, ~ParseSlots, ~ApplyCommand,
           ~RxFrame, ~RxSilent, ~Control
    PROVE  UNCHANGED LoopVars
<1>1. CASE (\E s \in Slots : Publish(s)) \/ LinuxRestart \/ (\E s \in BellSlots : MailboxIsr(s))
    BY <1>1, LinuxEffect DEF rtVars, LoopVars
<1>2. CASE UNCHANGED vars
    BY <1>2 DEF vars, LoopVars
<1> QED BY <1>1, <1>2 DEF Next

\* The clock outruns a cycle by no more than the loop's schedule allows.
LEMMA CycleStepInv == TypeOK /\ CycleInv /\ [Next]_vars => CycleInv'
<1> SUFFICES ASSUME TypeOK, CycleInv, [Next]_vars PROVE CycleInv'
    OBVIOUS
<1> USE ConstantsAssumption
<1>t. ClockType
    BY TypeParts
<1>1. CASE Tick
    BY <1>1, <1>t DEF Tick, CycleInv, ClockType
<1>2. CASE CycleStart \/ PopCommand \/ ParseSlots
    BY <1>2, <1>t, PollEffect DEF CycleInv, ClockType
<1>3. CASE ApplyCommand
    BY <1>3, <1>t, ApplyEffect DEF ApplyCommand, NodeEffect, CycleInv, ClockType
<1>4. CASE RxFrame \/ RxSilent
    BY <1>4, <1>t, ReceiverEffect DEF NodeEffect, CycleInv, ClockType
<1>5. CASE Control
    BY <1>5, <1>t, ControlEffect DEF NodeEffect, CycleInv, ClockType
<1>6. CASE UNCHANGED LoopVars
    BY <1>6 DEF LoopVars, CycleInv
<1> QED BY <1>1, <1>2, <1>3, <1>4, <1>5, <1>6, OtherSteps

\* The receiver poll leaves the node with a link or in Failsafe.
LEMMA LinkStep == TypeOK /\ LinkSeen /\ [Next]_vars => LinkSeen'
<1> SUFFICES ASSUME TypeOK, LinkSeen, [Next]_vars PROVE LinkSeen'
    OBVIOUS
<1> USE ConstantsAssumption DEF LinkSeen, FrameWithin
<1>t. ClockType
    BY TypeParts
<1>1. CASE Tick
    BY <1>1 DEF Tick, ctlVars, rxVars
<1>2. CASE CycleStart \/ PopCommand \/ ParseSlots
    BY <1>2, PollEffect
<1>3. CASE ApplyCommand
    BY <1>3, ApplyEffect
<1>4. CASE RxFrame \/ RxSilent
    BY <1>4, <1>t, ReceiverEffect DEF NodeEffect, ClockType
<1>5. CASE Control
    BY <1>5, ControlEffect
<1>6. CASE UNCHANGED LoopVars
    BY <1>6 DEF LoopVars, ctlVars, rxVars
<1> QED BY <1>1, <1>2, <1>3, <1>4, <1>5, <1>6, OtherSteps

\* Every step keeps driven motors backed by an armed state, a link and a
\* heartbeat.
LEMMA DriveStep == TypeOK /\ CycleInv /\ LinkSeen /\ DriveInv /\ [Next]_vars => DriveInv'
<1> SUFFICES ASSUME TypeOK, CycleInv, LinkSeen, DriveInv, [Next]_vars,
                    pwm' = "driven", failed_at' = 0
             PROVE  DriveInv'
    BY DEF DriveInv
<1> USE ConstantsAssumption DEF FrameWithin
<1>t. ClockType /\ NodeType
    BY TypeParts
<1>w. ASSUME NodeEffect, ~(pc = "control" /\ arm_state = "Armed" /\ Wrote("driven"))
      PROVE  pwm = "driven" /\ failed_at = 0 /\ arm_state' = "Armed" /\ arm_state = "Armed"
    BY <1>w DEF NodeEffect, Wrote, pwmVars, DriveInv
<1>1. CASE Tick
    BY <1>1 DEF Tick, ctlVars, pwmVars, rxVars, timeVars, DriveInv
<1>2. CASE CycleStart \/ PopCommand \/ ParseSlots
    BY <1>2, <1>t, PollEffect
    DEF ctlVars, pwmVars, rxVars, timeVars, ClockType, CycleInv, DriveInv
<1>3. CASE ApplyCommand
    <2>1. NodeEffect /\ pc # "control"
        BY <1>3, ApplyEffect DEF ApplyCommand
    <2> QED BY <1>3, <1>t, <1>w, <2>1, ApplyEffect DEF NodeEffect, rxVars, ClockType, DriveInv
<1>4. CASE RxFrame \/ RxSilent
    <2>1. pwm = "driven" /\ failed_at = 0 /\ arm_state' = "Armed"
        BY <1>4, <1>w, ReceiverEffect
    <2> QED BY <1>4, <1>t, <2>1, ReceiverEffect DEF NodeEffect, ClockType, DriveInv
<1>5. CASE Control
    <2>0. NodeEffect /\ arm_state' \in {arm_state, "Failsafe"}
        BY <1>5, ControlEffect
    <2>1. arm_state' = "Armed" /\ arm_state = "Armed"
        <3>1. CASE pc = "control" /\ arm_state = "Armed" /\ Wrote("driven") /\ arm_state' # "Armed"
            BY <2>0, <3>1 DEF NodeEffect, Wrote, pwmVars, DriveInv
        <3>2. CASE ~(pc = "control" /\ arm_state = "Armed" /\ Wrote("driven"))
            BY <1>w, <2>0, <3>2
        <3> QED BY <3>1, <3>2
    <2>2. ~TimedOut
        BY <1>5, <2>1, ControlEffect
    <2>3. last_heartbeat_us # 0 => tick - last_heartbeat_us <= HeartbeatTimeout
        BY <1>t, <2>1, <2>2 DEF TimedOut, ClockType
    <2> QED BY <1>5, <1>t, <2>1, <2>3, ControlEffect
            DEF NodeEffect, rxVars, ClockType, LinkSeen, DriveInv
<1>6. CASE UNCHANGED LoopVars
    BY <1>6 DEF LoopVars, ctlVars, pwmVars, rxVars, timeVars, DriveInv
<1> QED BY <1>1, <1>2, <1>3, <1>4, <1>5, <1>6, OtherSteps

\* Motors are driven only in Armed and never longer than one reaction time
\* after the receiver's link timeout or the heartbeat timeout, for every
\* choice of the three timeouts, the periods and the duration of a cycle.
THEOREM DriveStopsInTimeHolds == Spec => []DriveStopsInTime
<1>1. Init => CycleInv /\ LinkSeen /\ DriveInv
    BY ConstantsAssumption DEF Init, CycleInv, LinkSeen, DriveInv
<1>2. TypeOK /\ CycleInv /\ DriveInv => DriveStopsInTime
    BY ConstantsAssumption
    DEF TypeOK, CycleInv, DriveInv, FrameWithin, DriveStopsInTime, Reaction
<1> QED BY <1>1, <1>2, CycleStepInv, LinkStep, DriveStep, NodeTypeCorrect, PTL DEF Spec
-----------------------------------------------------------------------------
\* Every step keeps the retry of a failed write in sight.
LEMMA RetryStep == TypeOK /\ CycleInv /\ RetryInv /\ [Next]_vars => RetryInv'
<1> SUFFICES ASSUME TypeOK, CycleInv, RetryInv, [Next]_vars PROVE RetryInv'
    OBVIOUS
<1> USE ConstantsAssumption
<1>t. ClockType /\ NodeType
    BY TypeParts
<1>w. ASSUME NodeEffect
      PROVE  /\ failed_at' # 0 => pwm_faults' # 0
             /\ failed_at' # 0 /\ pwm_faults' = 1 => next_control_due_us <= failed_at' + ControlStep
    BY <1>t, <1>w DEF NodeEffect, Wrote, pwmVars, RetryInv, NodeType, ClockType
<1>1. CASE Tick
    BY <1>1, <1>t DEF Tick, ctlVars, pwmVars, timeVars, RetryInv, ClockType
<1>2. CASE CycleStart \/ PopCommand \/ ParseSlots
    BY <1>2, <1>t, PollEffect DEF ctlVars, pwmVars, timeVars, CycleInv, RetryInv, ClockType
<1>3. CASE ApplyCommand
    BY <1>3, <1>t, <1>w, ApplyEffect DEF NodeEffect, RetryInv, ClockType
<1>4. CASE RxFrame \/ RxSilent
    BY <1>4, <1>t, <1>w, ReceiverEffect DEF NodeEffect, RetryInv, ClockType
<1>5. CASE Control
    <2>0. NodeEffect /\ tick' = tick /\ now_us' = now_us /\ pc' = "idle"
        BY <1>5, ControlEffect DEF NodeEffect
    <2>1. CASE ControlDue
        <3>1. next_control_due_us' = NextDue /\ (Wrote("min") \/ Wrote("driven"))
            BY <1>5, <2>1, ControlEffect
        <3>2. NextDue \in Nat /\ tick < NextDue /\ NextDue <= tick + ControlStep
            BY <1>t, <2>1, NextDueBounds
        <3>3. failed_at' # 0 /\ pwm_faults' = 1 => failed_at' = tick
            BY <1>t, <3>1 DEF Wrote, RetryInv, NodeType
        <3> QED BY <1>t, <1>w, <2>0, <3>1, <3>2, <3>3 DEF RetryInv, ClockType
    <2>2. CASE ~ControlDue
        <3>1. next_control_due_us' = next_control_due_us /\ tick < next_control_due_us
            BY <1>5, <1>t, <2>2, ControlEffect DEF ControlDue, ClockType
        <3> QED BY <1>t, <1>w, <2>0, <3>1 DEF RetryInv, ClockType
    <2> QED BY <2>1, <2>2
<1>6. CASE UNCHANGED LoopVars
    BY <1>6 DEF LoopVars, ctlVars, pwmVars, timeVars, RetryInv
<1> QED BY <1>1, <1>2, <1>3, <1>4, <1>5, <1>6, OtherSteps

\* enterFailsafe ignores the result of Actuator::stop, yet a single write that
\* fails half way is repeated within a control step and a reaction time.
THEOREM StopRetriedHolds == Spec => []StopRetried
<1>1. Init => CycleInv /\ RetryInv
    BY ConstantsAssumption DEF Init, CycleInv, RetryInv
<1>2. TypeOK /\ CycleInv /\ RetryInv => StopRetried
    BY ConstantsAssumption DEF TypeOK, CycleInv, RetryInv, StopRetried, Reaction
<1> QED BY <1>1, <1>2, CycleStepInv, RetryStep, NodeTypeCorrect, PTL DEF Spec
-----------------------------------------------------------------------------
\* The control step flies armed only on a setpoint that the receiver has set
\* in the same cycle, whatever Linux has published.
THEOREM RcOwnsSetpointHolds == Spec => []RcOwnsSetpoint
<1>1. Init => RcOwnsSetpoint
    BY DEF Init, RcOwnsSetpoint
<1>2. TypeOK /\ RcOwnsSetpoint /\ [Next]_vars => RcOwnsSetpoint'
    <2> SUFFICES ASSUME TypeOK, RcOwnsSetpoint, [Next]_vars PROVE RcOwnsSetpoint'
        OBVIOUS
    <2> USE DEF RcOwnsSetpoint
    <2>1. CASE Tick
        BY <2>1 DEF Tick, ctlVars, timeVars
    <2>2. CASE CycleStart \/ PopCommand \/ ParseSlots
        BY <2>2, PollEffect
    <2>3. CASE ApplyCommand
        BY <2>3, ApplyEffect
    <2>4. CASE RxFrame \/ RxSilent
        BY <2>4, ReceiverEffect DEF NodeEffect
    <2>5. CASE Control
        BY <2>5, ControlEffect
    <2>6. CASE UNCHANGED LoopVars
        BY <2>6 DEF LoopVars, ctlVars, timeVars
    <2> QED BY <2>1, <2>2, <2>3, <2>4, <2>5, <2>6, OtherSteps
<1> QED BY <1>1, <1>2, NodeTypeCorrect, PTL DEF Spec
-----------------------------------------------------------------------------
\* A config the command carries is in force once the command is applied.
ConfigInv ==
    pc \in {"rx", "control", "idle"} => \/ command.config \in {0, active_config}
                                        \/ arm_state = "Failsafe"

\* Every step keeps a consumed config applied.
LEMMA ConfigStep == TypeOK /\ ConfigInv /\ [Next]_vars => ConfigInv'
<1> SUFFICES ASSUME TypeOK, ConfigInv, [Next]_vars PROVE ConfigInv'
    OBVIOUS
<1> USE DEF ConfigInv
<1>1. CASE Tick
    BY <1>1 DEF Tick, ctlVars, cmdVars, cfgVars
<1>2. CASE CycleStart \/ PopCommand \/ ParseSlots
    BY <1>2, PollEffect
<1>3. CASE ApplyCommand
    BY <1>3, ApplyEffect DEF cmdVars
<1>4. CASE RxFrame \/ RxSilent
    BY <1>4, ReceiverEffect DEF cmdVars, cfgVars
<1>5. CASE Control
    BY <1>5, ControlEffect DEF cmdVars, cfgVars
<1>6. CASE UNCHANGED LoopVars
    BY <1>6 DEF LoopVars, ctlVars, cmdVars, cfgVars
<1> QED BY <1>1, <1>2, <1>3, <1>4, <1>5, <1>6, OtherSteps

\* A config the transport has consumed, by its doorbell or by the final parse
\* of the slots, is in force at the end of the cycle or the node has stopped.
THEOREM ConsumedConfigAppliedHolds == Spec => []ConsumedConfigApplied
<1>1. Init => ConfigInv
    BY DEF Init, NoCommand, ConfigInv
<1>2. ConfigInv => ConsumedConfigApplied
    BY DEF ConfigInv, ConsumedConfigApplied
<1> QED BY <1>1, <1>2, ConfigStep, NodeTypeCorrect, PTL DEF Spec
-----------------------------------------------------------------------------
(* What follows depends on what Linux asks for.  TelemetryNode requests no  *)
(* arm state but Failsafe, which the theorems have as their hypothesis.     *)

\* What Linux can ask of the arm state.
RequestInv ==
    /\ slot_seq["arm"] # 0 => arm_payload \in ArmRequests
    /\ command.arm \in ArmRequests \cup {"none"}

\* A node outside Failsafe had a link at its last receiver poll, unless it has
\* not polled yet.
AliveInv ==
    arm_state # "Failsafe" =>
        /\ pc \in {"control", "idle"} => FrameWithin(RxLink) \/ (pc = "idle" /\ now_us = 1)
        /\ FrameWithin(RxLink + LoopPeriod) \/ now_us <= 1 + LoopPeriod

\* A stop is recorded by the transport only on its way to Failsafe, so that a
\* restarted Linux, counting from zero, still reaches a node that flies; and a
\* stop not yet obeyed was published after this cycle looked for it, or has
\* just been found.
StopInv ==
    /\ last_seq["emergency"] # 0 =>
          arm_state = "Failsafe" \/ (pc = "apply" /\ command.emergency)
    /\ command.emergency /\ pc # "apply" => arm_state = "Failsafe"
    /\ stop_at # 0 => /\ arm_state # "Failsafe" /\ slot_seq["emergency"] # 0
                      /\ ~command.emergency => stop_at >= now_us
                      /\ stop_at >= now_us - LoopPeriod


\* Every step keeps the requests among those Linux makes.
LEMMA RequestStep == TypeOK /\ RequestInv /\ [Next]_vars => RequestInv'
<1> SUFFICES ASSUME TypeOK, RequestInv, [Next]_vars PROVE RequestInv'
    OBVIOUS
<1>t. LinuxType /\ CommandType /\ command \in Commands
    BY TypeParts DEF CommandType
<1> USE DEF RequestInv
<1>a. ASSUME NEW cmd \in Commands, cmd.arm \in ArmRequests \cup {"none"}, NEW s \in Slots
      PROVE  Parsed(cmd, s) \in Commands /\ Parsed(cmd, s).arm \in ArmRequests \cup {"none"}
    BY <1>t, <1>a, ParsedType, ParsedFields DEF Fresh
<1>1. CASE Tick
    BY <1>1 DEF Tick, linuxVars, cmdVars
<1>2. CASE CycleStart \/ PopCommand \/ ParseSlots
    <2>1. command'.arm \in ArmRequests \cup {"none"}
        <3>1. CASE CycleStart
            <4>1. NoCommand \in Commands /\ NoCommand.arm = "none"
                BY DEF NoCommand, Commands
            <4> QED BY <1>a, <3>1, <4>1 DEF CycleStart, Slots
        <3>2. CASE PopCommand
            <4>1. Head(ring) \in BellSlots
                BY <1>t, <3>2, HeadTailProperties DEF PopCommand, LinuxType
            <4> QED BY <1>a, <1>t, <3>2, <4>1 DEF PopCommand, Slots, BellSlots
        <3>3. CASE ParseSlots
            <4> DEFINE c1 == Parsed(command, "arm")
                       c2 == Parsed(c1, "setpoint")
                       c3 == Parsed(c2, "heartbeat")
            <4>1. c1 \in Commands /\ c1.arm \in ArmRequests \cup {"none"}
                BY <1>a, <1>t DEF Slots
            <4>2. c2 \in Commands /\ c2.arm \in ArmRequests \cup {"none"}
                BY <1>a, <4>1 DEF Slots
            <4>3. c3 \in Commands /\ c3.arm \in ArmRequests \cup {"none"}
                BY <1>a, <4>2 DEF Slots
            <4> QED BY <1>a, <3>3, <4>3 DEF ParseSlots, Slots
        <3> QED BY <1>2, <3>1, <3>2, <3>3
    <2> QED BY <1>2, <2>1, PollEffect DEF linuxVars
<1>3. CASE ApplyCommand
    BY <1>3, ApplyEffect DEF linuxVars, cmdVars
<1>4. CASE RxFrame \/ RxSilent
    BY <1>4, ReceiverEffect DEF linuxVars, cmdVars
<1>5. CASE Control
    BY <1>5, ControlEffect DEF linuxVars, cmdVars
<1>6. ASSUME NEW s \in Slots, Publish(s) PROVE RequestInv'
    BY <1>6, <1>t DEF Publish, rtVars, cmdVars, LinuxType
<1>7. CASE LinuxRestart \/ \E s \in BellSlots : MailboxIsr(s)
    BY <1>7 DEF LinuxRestart, MailboxIsr, linuxVars, rtVars, cmdVars
<1>8. CASE UNCHANGED vars
    BY <1>8 DEF vars, linuxVars, cmdVars
<1> QED BY <1>1, <1>2, <1>3, <1>4, <1>5, <1>6, <1>7, <1>8 DEF Next

\* Every command asks for nothing that Linux never requests.
LEMMA RequestHolds == Spec => []RequestInv
<1>1. Init => RequestInv
    BY DEF Init, RequestInv, NoCommand, Slots
<1> QED BY <1>1, RequestStep, NodeTypeCorrect, PTL DEF Spec

\* No step leads out of Failsafe, and only the receiver's changes between Armed
\* and Disarmed.
LEMMA ArmStep ==
    ASSUME ArmRequests \subseteq {"Failsafe"}, TypeOK, RequestInv, [Next]_vars
    PROVE  /\ arm_state = "Failsafe" => arm_state' = "Failsafe"
           /\ arm_state' \notin {arm_state, "Failsafe"} =>
                 /\ pc = "rx" /\ ~last_sample'.fs
                 /\ IF arm_state' = "Armed" THEN last_sample'.arm /\ last_sample'.low
                                            ELSE ~last_sample'.arm
<1>1. CASE Tick \/ CycleStart \/ PopCommand \/ ParseSlots
    BY <1>1, PollEffect DEF Tick, ctlVars
<1>2. CASE ApplyCommand
    BY <1>2, ApplyEffect DEF RequestInv
<1>3. CASE RxFrame \/ RxSilent
    BY <1>3, ReceiverEffect
<1>4. CASE Control
    BY <1>4, ControlEffect
<1>5. CASE UNCHANGED LoopVars
    BY <1>5 DEF LoopVars, ctlVars
<1> QED BY <1>1, <1>2, <1>3, <1>4, <1>5, OtherSteps

\* Between Armed and Disarmed only applyReceiver changes, on the arm switch, and
\* enterFailsafe is final until the core restarts.
THEOREM ArmChangesByPilotHolds ==
    ASSUME ArmRequests \subseteq {"Failsafe"}
    PROVE  Spec => ArmChangesByPilot
<1>1. TypeOK /\ RequestInv /\ [Next]_vars =>
          [arm_state' # arm_state =>
              \/ arm_state' = "Failsafe"
              \/ /\ arm_state # "Failsafe" /\ pc = "rx" /\ ~last_sample'.fs
                 /\ IF arm_state' = "Armed" THEN last_sample'.arm /\ last_sample'.low
                                            ELSE ~last_sample'.arm]_vars
    BY ArmStep
<1> QED BY <1>1, NodeTypeCorrect, RequestHolds, PTL DEF Spec, ArmChangesByPilot
-----------------------------------------------------------------------------
\* Every step keeps a node outside Failsafe within reach of its last frame.
LEMMA AliveStep ==
    ASSUME ArmRequests \subseteq {"Failsafe"}
    PROVE  TypeOK /\ RequestInv /\ CycleInv /\ AliveInv /\ [Next]_vars => AliveInv'
<1> SUFFICES ASSUME TypeOK, RequestInv, CycleInv, AliveInv, [Next]_vars, arm_state' # "Failsafe"
             PROVE  AliveInv'
    BY DEF AliveInv
<1> USE ConstantsAssumption DEF FrameWithin
<1>t. ClockType
    BY TypeParts
<1>f. arm_state # "Failsafe"
    BY ArmStep
<1>1. CASE Tick
    BY <1>1, <1>f DEF Tick, rxVars, AliveInv
<1>2. CASE CycleStart \/ PopCommand \/ ParseSlots
    BY <1>2, <1>f, <1>t, PollEffect DEF rxVars, AliveInv, CycleInv, ClockType
<1>3. CASE ApplyCommand
    BY <1>3, <1>f, <1>t, ApplyEffect DEF NodeEffect, rxVars, AliveInv, ClockType
<1>4. CASE RxFrame \/ RxSilent
    BY <1>4, <1>f, <1>t, ReceiverEffect DEF NodeEffect, AliveInv, ClockType
<1>5. CASE Control
    BY <1>5, <1>f, <1>t, ControlEffect DEF NodeEffect, rxVars, AliveInv, ClockType
<1>6. CASE UNCHANGED LoopVars
    BY <1>6, <1>f DEF LoopVars, rxVars, AliveInv
<1> QED BY <1>1, <1>2, <1>3, <1>4, <1>5, <1>6, OtherSteps

\* A node that is not in Failsafe, armed or on the ground, has had a frame
\* within the receiver's link timeout and one reaction time, from its first
\* cycle on.
THEOREM AliveNeedsLinkHolds ==
    ASSUME ArmRequests \subseteq {"Failsafe"}
    PROVE  Spec => []AliveNeedsLink
<1>1. Init => CycleInv /\ AliveInv
    BY ConstantsAssumption DEF Init, CycleInv, AliveInv
<1>2. TypeOK /\ CycleInv /\ AliveInv => AliveNeedsLink
    BY ConstantsAssumption
    DEF TypeOK, CycleInv, AliveInv, FrameWithin, AliveNeedsLink, Reaction
<1> QED BY <1>1, <1>2, CycleStepInv, AliveStep, NodeTypeCorrect, RequestHolds, PTL DEF Spec
-----------------------------------------------------------------------------
\* Only a stop that ends the poll is recorded by the transport.
LEMMA PollFindsStop ==
    ASSUME TypeOK, CycleStart \/ PopCommand \/ ParseSlots, pc = "pop" => ~command.emergency
    PROVE  /\ command'.emergency => pc' = "apply"
           /\ last_seq'["emergency"] # last_seq["emergency"] => pc' = "apply" /\ command'.emergency
           /\ pc = "idle" /\ Fresh("emergency") => command'.emergency
<1>t. command \in Commands /\ LinuxType /\ CommandType
    BY TypeParts DEF CommandType
<1>1. CASE CycleStart
    <2>1. NoCommand \in Commands /\ NoCommand.emergency = FALSE
        BY DEF NoCommand, Commands
    <2> QED BY <1>1, <2>1, ParsedFields DEF CycleStart, Consumed, Slots
<1>2. CASE PopCommand
    <2>1. Head(ring) \in BellSlots
        BY <1>2, <1>t, HeadTailProperties DEF PopCommand, LinuxType
    <2>2. /\ command' = Parsed(command, Head(ring))
          /\ last_seq' = Consumed({Head(ring)})
          /\ pc' = IF Head(ring) = "emergency" /\ Fresh(Head(ring)) THEN "apply" ELSE "pop"
          /\ pc = "pop" /\ ~command.emergency
        BY <1>2 DEF PopCommand
    <2>3. Head(ring) \in Slots
        BY <2>1 DEF Slots, BellSlots
    <2>4. command'.emergency <=> Head(ring) = "emergency" /\ Fresh(Head(ring))
        BY <1>t, <2>2, <2>3, ParsedFields
    <2>5. Head(ring) # "emergency" \/ ~Fresh("emergency")
              => last_seq'["emergency"] = last_seq["emergency"]
        BY <2>2 DEF Consumed, Slots
    <2> QED BY <2>2, <2>4, <2>5
<1>3. CASE ParseSlots
    <2> DEFINE c1 == Parsed(command, "arm")
               c2 == Parsed(c1, "setpoint")
               c3 == Parsed(c2, "heartbeat")
    <2>1. c1 \in Commands /\ ~c1.emergency
        BY <1>3, <1>t, ParsedType, ParsedFields DEF ParseSlots, Slots
    <2>2. c2 \in Commands /\ ~c2.emergency
        BY <1>t, <2>1, ParsedType, ParsedFields DEF Slots
    <2>3. c3 \in Commands /\ ~c3.emergency
        BY <1>t, <2>2, ParsedType, ParsedFields DEF Slots
    <2>4. ~command'.emergency
        BY <1>3, <2>3, ParsedFields DEF ParseSlots, Slots
    <2>5. last_seq'["emergency"] = last_seq["emergency"]
        BY <1>3, <1>t DEF ParseSlots, Consumed, CommandType, Slots
    <2> QED BY <1>3, <2>4, <2>5 DEF ParseSlots
<1> QED BY <1>1, <1>2, <1>3

\* Every step keeps a stop that is not yet obeyed young.
LEMMA StopStep ==
    ASSUME ArmRequests \subseteq {"Failsafe"}
    PROVE  TypeOK /\ RequestInv /\ CycleInv /\ StopInv /\ [Next]_vars => StopInv'
<1> SUFFICES ASSUME TypeOK, RequestInv, CycleInv, StopInv, [Next]_vars PROVE StopInv'
    OBVIOUS
<1> USE ConstantsAssumption
<1>t. ClockType /\ LinuxType /\ CommandType
    BY TypeParts
<1>f. arm_state = "Failsafe" => arm_state' = "Failsafe"
    BY ArmStep
<1>1. CASE Tick
    BY <1>1 DEF Tick, linuxVars, cmdVars, ctlVars, StopInv
<1>2. CASE CycleStart \/ PopCommand \/ ParseSlots
    <2>1. pc = "pop" => ~command.emergency \/ arm_state = "Failsafe"
        BY DEF StopInv
    <2>2. UNCHANGED <<tick, slot_seq, arm_state, stop_at>> /\ pc \in {"idle", "pop"}
          /\ pc' \in {"pop", "apply"} /\ now_us' = IF pc = "idle" THEN tick ELSE now_us
        BY <1>2, PollEffect DEF linuxVars, ctlVars
    <2>3. CASE arm_state = "Failsafe"
        BY <2>2, <2>3 DEF StopInv
    <2>4. CASE arm_state # "Failsafe"
        <3>1. /\ command'.emergency => pc' = "apply"
              /\ last_seq'["emergency"] # last_seq["emergency"] =>
                    pc' = "apply" /\ command'.emergency
              /\ pc = "idle" /\ Fresh("emergency") => command'.emergency
            BY <1>2, <2>1, <2>4, PollFindsStop
        <3>2. ~command.emergency /\ last_seq["emergency"] = 0
            BY <2>2, <2>4 DEF StopInv
        <3>3. stop_at # 0 => Fresh("emergency")
            <4>1. slot_seq["emergency"] \in Nat
                BY <1>t DEF LinuxType, Slots
            <4> QED BY <3>2, <4>1 DEF Fresh, StopInv
        <3>4. stop_at # 0 => /\ ~command'.emergency => stop_at >= now_us'
                             /\ stop_at >= now_us' - LoopPeriod
            BY <1>t, <2>2, <3>1, <3>2, <3>3 DEF StopInv, CycleInv, ClockType
        <3> QED BY <2>2, <2>4, <3>1, <3>2, <3>4 DEF StopInv
    <2> QED BY <2>3, <2>4
<1>n. ASSUME NodeEffect, pc # "apply" \/ (command.emergency => arm_state' = "Failsafe"), pc' # "apply",
             UNCHANGED <<slot_seq, last_seq, command>>
      PROVE  StopInv'
    BY <1>f, <1>n DEF NodeEffect, StopInv
<1>3. CASE ApplyCommand
    BY <1>3, <1>n, ApplyEffect DEF linuxVars, cmdVars
<1>4. CASE RxFrame \/ RxSilent
    BY <1>4, <1>n, ReceiverEffect DEF linuxVars, cmdVars
<1>5. CASE Control
    BY <1>5, <1>n, ControlEffect DEF linuxVars, cmdVars
<1>6. ASSUME NEW s \in Slots, Publish(s) PROVE StopInv'
    <2>1. UNCHANGED <<tick, now_us, pc, arm_state, command, last_seq>>
        BY <1>6 DEF Publish, rtVars, ctlVars, cmdVars
    <2>5. linux_seq[s] \in Nat /\ slot_seq \in [Slots -> Nat]
        BY <1>6, <1>t DEF LinuxType
    <2>6. /\ slot_seq' = [slot_seq EXCEPT ![s] = linux_seq[s] + 1]
          /\ stop_at' = IF s = "emergency" /\ stop_at = 0 /\ arm_state # "Failsafe"
                        THEN tick ELSE stop_at
        BY <1>6 DEF Publish
    <2>2. slot_seq["emergency"] # 0 => slot_seq'["emergency"] # 0
        BY <2>5, <2>6 DEF Slots
    <2>3. CASE stop_at' = stop_at
        BY <2>1, <2>2, <2>3 DEF StopInv
    <2>4. CASE stop_at' # stop_at
        <3>1. /\ s = "emergency" /\ stop_at' = tick /\ arm_state # "Failsafe"
              /\ slot_seq'["emergency"] # 0
            BY <2>4, <2>5, <2>6 DEF Slots
        <3>2. tick >= now_us /\ tick >= now_us - LoopPeriod
            BY <1>t DEF ClockType
        <3> QED BY <2>1, <3>1, <3>2 DEF StopInv
    <2> QED BY <2>3, <2>4
<1>7. CASE LinuxRestart \/ \E s \in BellSlots : MailboxIsr(s)
    BY <1>7 DEF LinuxRestart, MailboxIsr, linuxVars, rtVars, cmdVars, ctlVars, StopInv
<1>8. CASE UNCHANGED vars
    BY <1>8 DEF vars, linuxVars, cmdVars, ctlVars, StopInv
<1> QED BY <1>1, <1>2, <1>3, <1>4, <1>5, <1>6, <1>7, <1>8 DEF Next

\* A stop that Linux publishes at any point of a cycle puts the node into
\* Failsafe within one reaction time, whether or not its doorbell reaches the
\* ring, and also when the Linux process that publishes it has restarted and
\* counts from zero.
THEOREM EmergencyStopsInTimeHolds ==
    ASSUME ArmRequests \subseteq {"Failsafe"}
    PROVE  Spec => []EmergencyStopsInTime
<1>1. Init => CycleInv /\ StopInv
    BY ConstantsAssumption DEF Init, CycleInv, StopInv, NoCommand, Slots
<1>2. TypeOK /\ CycleInv /\ StopInv => EmergencyStopsInTime
    <2> SUFFICES ASSUME TypeOK, CycleInv, StopInv PROVE EmergencyStopsInTime
        OBVIOUS
    <2>1. pc = "idle" /\ command.emergency => arm_state = "Failsafe"
        BY DEF StopInv
    <2> QED BY <2>1, ConstantsAssumption DEF TypeOK, CycleInv, StopInv, EmergencyStopsInTime, Reaction
<1> QED BY <1>1, <1>2, CycleStepInv, StopStep, NodeTypeCorrect, RequestHolds, PTL DEF Spec
=============================================================================
