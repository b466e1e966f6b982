---------------------------- MODULE BringupLoop ----------------------------
(***************************************************************************)
(* ibus_probe_poll_once of comm_main.c: the poll that the CMDQU task of    *)
(* the realtime core runs at least every two milliseconds.  One poll       *)
(*   - stamps its entry (now), drains the UART and stamps every good IBUS  *)
(*     frame twice: with the entry tick (last_frame_tick) and with the     *)
(*     tick at which the frame was decoded (g_rc_last_frame_tick);         *)
(*   - probes the sensors when their period is over, decides RC failsafe   *)
(*     from the first stamp, polls the region shared with Linux;           *)
(*   - runs the arm gate, whose freshness check uses the second stamp and  *)
(*     a later clock reading, takes the safety decision and mixes;         *)
(*   - drives the ESCs and writes the realtime report.                     *)
(* The clock and Linux run concurrently with every part of a poll, so a    *)
(* poll is four steps, cut where the code reads the clock or shared memory.*)
(* Linux may end and start again at any point; what it announces then is a *)
(* zeroed region or the one it had, with numbers that begin again at one.  *)
(***************************************************************************)
EXTENDS MotorMath

CONSTANTS
    Frames,        \* the channel contents a good IBUS frame may carry
    Pids,          \* the corrections the rate and angle loops may ask for
    Configs,       \* the config payloads Linux may publish
    FrameBudget,   \* good frames one poll may drain (128 bytes of UART)
    RcLost,        \* RC_LOST_TIMEOUT_MS, and the 300 ms of the failsafe test
    EscDelay,      \* ESC_ARM_DELAY_MS
    ProbePeriod,   \* ticks between two sensor probes
    ReportPeriod,  \* ticks between two realtime reports
    CalTarget,     \* MPU_CAL_TARGET_COUNT
    RxJitter,      \* ticks that may pass between poll entry and its last frame
    MaxPoll,       \* ticks one poll may take
    PollPeriod,    \* ticks between the entries of two consecutive polls
    MaxTick,       \* bound on the clock
    MaxStarts,     \* bound on the starts of Linux
    MaxEmergencies, \* bound on the emergency slots each start of Linux publishes
    MaxConfigs     \* bound on the numbers of the config slots Linux publishes

RC_THROTTLE_LOW_US == 1100
RC_THROTTLE_TEST_KILL_US == 1350

\* What the constants stand for: frames and configs with the fields the code
\* reads, corrections inside the controller's clamp, and a scheduler that
\* enters polls no rarer than PollPeriod and finishes each within MaxPoll.
ASSUME ConstantsAssumption ==
    /\ Frames \subseteq [throttle : Nat, arm : BOOLEAN]
    /\ Pids \subseteq PidCorrections
    /\ Configs \subseteq [deadzone : Nat, rate : Nat \cup {NaN}, angle : Nat \cup {NaN}]
    /\ FrameBudget \in Nat \ {0}
    /\ RcLost \in Nat /\ EscDelay \in Nat
    /\ ProbePeriod \in Nat \ {0} /\ ReportPeriod \in Nat \ {0}
    /\ CalTarget \in Nat \ {0}
    /\ RxJitter \in Nat /\ MaxPoll \in Nat /\ PollPeriod \in Nat
    /\ RxJitter <= MaxPoll /\ MaxPoll <= PollPeriod
    /\ MaxTick \in Nat /\ MaxStarts \in Nat /\ MaxConfigs \in Nat

ASSUME MaxEmergenciesAssumption == MaxEmergencies \in [1..MaxStarts -> Nat]

VARIABLES
    tick,                    \* xTaskGetTickCount()
    pc,                      \* where the task is in its poll
    now,                     \* the tick at the poll's entry
    budget,                  \* good frames this poll may still drain
    ch,                      \* the channels of the last good frame
    good_frames,             \* whether any good frame was ever seen
    last_frame_tick,         \* the entry tick of the poll that saw it
    g_rc_last_frame_tick,    \* the tick at which it was decoded
    last_i2c_tick, g_mpu_cal_count, g_sensor_ready,
    failsafe, g_rc_valid, g_rc_throttle_us, g_rc_arm_switch,
    g_rc_seen_arm_low, g_rc_arm_latched, g_rc_prev_arm_switch,
    g_motor_armed, g_motor_output_enabled, g_motor_safety_reason,
    g_motor_pwm_us,          \* the pulses the controller asks for
    g_esc_arm_start_tick, g_esc_arm_delay_done,
    duty,                    \* the pulses the PWM hardware emits
    starts,                  \* how often Linux has started
    region,                  \* the shared memory at each address
    shared_phys_addr,        \* the address of the region Linux writes, 0 for none
    emergency_seq,           \* the number of Linux's last emergency slot
    g_amp_shm_phys,          \* the last announced address, 0 before the first
    g_amp_last_emergency_seq, g_amp_emergency_stop_latched,
    g_amp_last_config_seq, gains,
    rt_report, last_rt_report_tick,
    low_since,               \* history: LOW was observed since the last unlatch or loss
    masked,                  \* history: the slot the task reads holds a stop that came
                             \* with the number the task had recorded last
    stop_at,                 \* history: when the stop in that slot became visible
    stop_held                \* history: a poll has read a stop, and nothing that
                             \* withdraws it has become visible since

rxVars == <<budget, ch, good_frames, last_frame_tick, g_rc_last_frame_tick>>
sensorVars == <<last_i2c_tick, g_mpu_cal_count, g_sensor_ready>>
rcVars == <<failsafe, g_rc_valid, g_rc_throttle_us, g_rc_arm_switch>>
gateVars == <<g_rc_seen_arm_low, g_rc_arm_latched, g_rc_prev_arm_switch, low_since>>
motorVars == <<g_motor_armed, g_motor_output_enabled, g_motor_safety_reason, g_motor_pwm_us>>
escVars == <<g_esc_arm_start_tick, g_esc_arm_delay_done, duty, rt_report, last_rt_report_tick>>
linuxVars == <<starts, region, shared_phys_addr, emergency_seq, g_amp_shm_phys, masked, stop_at>>
shmVars == <<g_amp_last_emergency_seq, g_amp_emergency_stop_latched,
             g_amp_last_config_seq, gains>>
vars == <<tick, pc, now, rxVars, sensorVars, rcVars, gateVars, motorVars, escVars,
          linuxVars, shmVars, stop_held>>

\* Address 0 holds no region; every start of Linux may bring one more.
Regions == 1..MaxStarts

BootConfig == [deadzone |-> 0, rate |-> 0, angle |-> 0]

\* Memory without magic, and what initializeSharedRegion makes of it.
Contents(magic, emergency, config) ==
    [magic |-> magic, emergency |-> emergency, config |-> config]
Blank(magic) == Contents(magic, [seq |-> 0, reason |-> 0], [seq |-> 0, payload |-> BootConfig])
NoRegion == Blank(FALSE)
ZeroedRegion == Blank(TRUE)

Reasons == {"OK", "FAILSAFE", "SENSOR_NOT_RDY", "NOT_ARMED"}
BootReport == [armed |-> FALSE, out |-> FALSE, reason |-> "OK", emergency |-> FALSE]

Init ==
    /\ tick = 0 /\ pc = "idle" /\ now = 0
    /\ budget = 0 /\ ch = [throttle |-> 0, arm |-> FALSE] /\ good_frames = FALSE
    /\ last_frame_tick = 0 /\ g_rc_last_frame_tick = 0
    /\ last_i2c_tick = 0 /\ g_mpu_cal_count = 0 /\ g_sensor_ready = FALSE
    /\ failsafe = TRUE /\ g_rc_valid = FALSE
    /\ g_rc_throttle_us = 1000 /\ g_rc_arm_switch = FALSE
    /\ g_rc_seen_arm_low = FALSE /\ g_rc_arm_latched = FALSE
    /\ g_rc_prev_arm_switch = FALSE /\ low_since = FALSE
    /\ g_motor_armed = FALSE /\ g_motor_output_enabled = FALSE
    /\ g_motor_safety_reason = "OK" /\ g_motor_pwm_us = AllIdle
    /\ g_esc_arm_start_tick = 0 /\ g_esc_arm_delay_done = FALSE
    /\ duty = AllIdle
    /\ starts = 0 /\ region = [a \in {0} \cup Regions |-> NoRegion]
    /\ shared_phys_addr = 0 /\ emergency_seq = 0 /\ g_amp_shm_phys = 0
    /\ masked = FALSE /\ stop_at = 0 /\ stop_held = FALSE
    /\ g_amp_last_emergency_seq = 0 /\ g_amp_emergency_stop_latched = FALSE
    /\ g_amp_last_config_seq = 0 /\ gains = BootGains
    /\ rt_report = BootReport /\ last_rt_report_tick = 0
-----------------------------------------------------------------------------
(* Time.  The clock advances at any point of a poll, within the scheduling *)
(* bounds.                                                                 *)
TickLimit == CASE pc = "idle" -> PollPeriod
               [] pc = "rx" -> RxJitter
               [] OTHER -> MaxPoll

Tick ==
    /\ tick < MaxTick
    /\ tick - now < TickLimit
    /\ tick' = tick + 1
    /\ UNCHANGED <<pc, now, rxVars, sensorVars, rcVars, gateVars, motorVars, escVars,
                   linuxVars, shmVars, stop_held>>
-----------------------------------------------------------------------------
(* The poll, first part: entry and UART.                                   *)
PollEnter ==
    /\ pc = "idle"
    /\ pc' = "rx"
    /\ now' = tick
    /\ budget' = FrameBudget
    /\ UNCHANGED <<tick, ch, good_frames, last_frame_tick, g_rc_last_frame_tick,
                   sensorVars, rcVars, gateVars, motorVars, escVars, linuxVars, shmVars,
                   stop_held>>

\* ibus_parse_byte returns 1: a frame with a good header and checksum.
RxFrame ==
    /\ pc = "rx"
    /\ budget > 0
    /\ budget' = budget - 1
    /\ ch' \in Frames
    /\ good_frames' = TRUE
    /\ last_frame_tick' = now
    /\ g_rc_last_frame_tick' = tick
    /\ UNCHANGED <<tick, pc, now, sensorVars, rcVars, gateVars, motorVars, escVars,
                   linuxVars, shmVars, stop_held>>
-----------------------------------------------------------------------------
(* Second part: sensors, RC failsafe and the region shared with Linux.     *)

\* amp_i2c_probe_once, up to the outcome that SensorProbe is shown to have.
INSTANCE SensorOutcome

Probe(hmc, mpuReads) ==
    /\ ProbeOutcome(hmc, mpuReads)
    /\ last_i2c_tick' = now

\* Mutant: the period must be exceeded, not reached.
ProbeDueLate == now - last_i2c_tick > ProbePeriod

ProbeDue == now - last_i2c_tick >= ProbePeriod

SensorStep ==
    \/ /\ ProbeDue
       /\ \E hmc \in HmcOutcomes, mpuReads \in MpuOutcomes : Probe(hmc, mpuReads)
    \/ /\ ~ProbeDue
       /\ UNCHANGED sensorVars

\* The failsafe test and the copy of the channels into the g_rc_ globals.
RcFailsafe == ~good_frames \/ now - last_frame_tick > RcLost

CopyRc ==
    /\ failsafe' = RcFailsafe
    /\ g_rc_valid' = ~RcFailsafe
    /\ g_rc_throttle_us' = IF RcFailsafe THEN 1000 ELSE ch.throttle
    /\ g_rc_arm_switch' = (~RcFailsafe /\ ch.arm)

\* amp_shared_region_poll_once, on a region that is announced and whose
\* magic and version match.
RegionUsable == g_amp_shm_phys # 0 /\ region[g_amp_shm_phys].magic

\* The slots at the announced address.
emergency_slot == region[g_amp_shm_phys].emergency
config_slot == region[g_amp_shm_phys].config

\* Mutant: only the successor of the last slot counts as new.
NewEmergencyInOrder == emergency_slot.seq = g_amp_last_emergency_seq + 1

NewEmergency == emergency_slot.seq # g_amp_last_emergency_seq

\* Mutant: the reason is followed whatever the number says.
PollEmergencyAnyNumber ==
    /\ g_amp_last_emergency_seq' = emergency_slot.seq
    /\ g_amp_emergency_stop_latched' = (emergency_slot.reason # 0)

PollEmergency ==
    /\ g_amp_last_emergency_seq' = emergency_slot.seq
    /\ g_amp_emergency_stop_latched' =
           IF NewEmergency THEN emergency_slot.reason # 0
           ELSE g_amp_emergency_stop_latched

\* motor_force_safe.  It drops the outputs, not the latch of the arm gate.
ForceSafe(reason) ==
    /\ g_motor_armed' = FALSE
    /\ g_motor_output_enabled' = FALSE
    /\ g_motor_safety_reason' = reason
    /\ g_motor_pwm_us' = AllIdle

NewConfig == config_slot.seq # g_amp_last_config_seq /\ config_slot.seq # 0

PollConfig ==
    \/ /\ NewConfig
       /\ g_amp_last_config_seq' = config_slot.seq
       /\ gains' \in ApplyConfig(gains, config_slot.payload)
    \/ /\ ~NewConfig
       /\ UNCHANGED <<g_amp_last_config_seq, gains>>

ShmPoll ==
    \/ /\ RegionUsable
       /\ PollEmergency
       /\ PollConfig
       /\ IF g_amp_emergency_stop_latched' THEN ForceSafe("FAILSAFE")
                                           ELSE UNCHANGED motorVars
    \/ /\ ~RegionUsable
       /\ UNCHANGED <<shmVars, motorVars>>

\* A stop in the slot the task reads; with a number of its own, unless the
\* slot came with the number the task had recorded last.
StopVisible == RegionUsable /\ emergency_slot.reason # 0
StopPending == StopVisible /\ ~masked

\* A slot whose next reading releases the latch: reason zero, other number.
Withdrawn == RegionUsable /\ emergency_slot.reason = 0 /\ NewEmergency

Decide ==
    /\ pc = "rx"
    /\ pc' = "gate"
    /\ SensorStep
    /\ CopyRc
    /\ ShmPoll
    /\ stop_held' = (stop_held \/ StopPending)
    /\ UNCHANGED <<tick, now, rxVars, gateVars, escVars, linuxVars>>
-----------------------------------------------------------------------------
(* Third part: the arm gate, the safety decision and the control outputs.  *)

\* rc_update_freshness_once: a second timeout, on the second stamp, with a
\* clock reading of its own.
NeverFresh == g_rc_last_frame_tick = 0
Stale == ~NeverFresh /\ tick - g_rc_last_frame_tick > RcLost
Lost == NeverFresh \/ Stale

\* motor_update_arm_gate.
GateValid == g_rc_valid /\ ~Lost
GateSwitch == g_rc_arm_switch /\ ~Stale
GateThrottle == IF Stale THEN 1000 ELSE g_rc_throttle_us
\* Mutant: no throttle kill.
GateOpenNoKill == GateValid /\ g_sensor_ready

GateOpen == GateValid /\ g_sensor_ready /\ GateThrottle <= RC_THROTTLE_TEST_KILL_US
ArmEdge == /\ g_rc_seen_arm_low /\ ~g_rc_prev_arm_switch
           /\ GateThrottle <= RC_THROTTLE_LOW_US
Latch == GateOpen /\ GateSwitch /\ (g_rc_arm_latched \/ ArmEdge)

\* Mutant: a loss of RC does not forget that LOW was observed.
UpdateArmGateKeepsLow ==
    /\ g_rc_valid' = GateValid
    /\ g_rc_throttle_us' = GateThrottle
    /\ g_rc_arm_switch' = GateSwitch
    /\ g_rc_seen_arm_low' = (g_rc_seen_arm_low \/ (GateOpen /\ ~GateSwitch))
    /\ g_rc_arm_latched' = Latch
    /\ g_rc_prev_arm_switch' = GateSwitch

UpdateArmGate ==
    /\ g_rc_valid' = GateValid
    /\ g_rc_throttle_us' = GateThrottle
    /\ g_rc_arm_switch' = GateSwitch
    /\ g_rc_seen_arm_low' = ((g_rc_seen_arm_low /\ ~Lost) \/ (GateOpen /\ ~GateSwitch))
    /\ g_rc_arm_latched' = Latch
    /\ g_rc_prev_arm_switch' = GateSwitch

\* History: RC loss forgets that LOW was observed, observing LOW records it,
\* losing the latch with the switch still HIGH forgets it.
RecordLow ==
    low_since' = IF failsafe \/ Lost THEN FALSE
                 ELSE IF ~GateSwitch THEN TRUE
                 ELSE low_since /\ ~(g_rc_arm_latched /\ ~Latch)

\* Mutant: the latched emergency stop is left to the poll of the slot.
SafetyReasonNoEmergency ==
    IF failsafe THEN "FAILSAFE"
    ELSE IF ~g_sensor_ready THEN "SENSOR_NOT_RDY"
    ELSE IF ~Latch THEN "NOT_ARMED"
    ELSE "OK"

SafetyReason ==
    IF g_amp_emergency_stop_latched \/ failsafe THEN "FAILSAFE"
    ELSE IF ~g_sensor_ready THEN "SENSOR_NOT_RDY"
    ELSE IF ~Latch THEN "NOT_ARMED"
    ELSE "OK"

SafetyDecision ==
    \/ /\ SafetyReason # "OK"
       /\ ForceSafe(SafetyReason)
    \/ /\ SafetyReason = "OK"
       /\ g_motor_armed' = TRUE
       /\ g_motor_output_enabled' = TRUE
       /\ g_motor_safety_reason' = "OK"
       /\ \E pid \in Pids : g_motor_pwm_us' = MotorPwm(GateThrottle, pid)

Gate ==
    /\ pc = "gate"
    /\ pc' = "apply"
    /\ UpdateArmGate
    /\ RecordLow
    /\ SafetyDecision
    /\ UNCHANGED <<tick, now, rxVars, sensorVars, failsafe, escVars, linuxVars, shmVars,
                   stop_held>>
-----------------------------------------------------------------------------
(* Fourth part: ESC delay, PWM hardware and report.                        *)
EscElapsed == /\ g_esc_arm_start_tick # 0
              /\ tick - g_esc_arm_start_tick >= EscDelay

\* Mutant: a start tick of zero is taken for a real one.
EscStepNoSentinel ==
    /\ g_esc_arm_start_tick' =
           IF g_esc_arm_start_tick = 0 THEN tick ELSE g_esc_arm_start_tick
    /\ g_esc_arm_delay_done' =
           (g_esc_arm_delay_done \/ tick - g_esc_arm_start_tick >= EscDelay)

EscStep ==
    /\ g_esc_arm_start_tick' =
           IF g_esc_arm_start_tick = 0 THEN tick ELSE g_esc_arm_start_tick
    /\ g_esc_arm_delay_done' =
           (g_esc_arm_start_tick # 0 /\ (g_esc_arm_delay_done \/ EscElapsed))

\* pwm_backend_write_us.
Pulse(us, escDone) ==
    IF g_motor_armed /\ g_motor_output_enabled /\ escDone
    THEN clamp_i32(clamp_i32(us, MOTOR_PWM_MIN_US, MOTOR_PWM_MAX_US),
                   MOTOR_PWM_MIN_US, MOTOR_TEST_MAX_US)
    ELSE MOTOR_PWM_SAFE_US

\* amp_shared_region_write_rt_report_once.
ReportDue == RegionUsable /\ tick - last_rt_report_tick >= ReportPeriod

WriteReport ==
    \/ /\ ReportDue
       /\ last_rt_report_tick' = tick
       /\ rt_report' = [armed |-> g_motor_armed, out |-> g_motor_output_enabled,
                        reason |-> g_motor_safety_reason,
                        emergency |-> g_amp_emergency_stop_latched]
    \/ /\ ~ReportDue
       /\ UNCHANGED <<last_rt_report_tick, rt_report>>

\* Mutant: the hardware is written only while the outputs are enabled.
ApplyEnabledOnly ==
    /\ pc = "apply"
    /\ pc' = "idle"
    /\ EscStep
    /\ duty' = IF g_motor_output_enabled
               THEN [m \in Motors |-> Pulse(g_motor_pwm_us[m], g_esc_arm_delay_done')]
               ELSE duty
    /\ WriteReport
    /\ UNCHANGED <<tick, now, rxVars, sensorVars, rcVars, gateVars, motorVars,
                   linuxVars, shmVars, stop_held>>

Apply ==
    /\ pc = "apply"
    /\ pc' = "idle"
    /\ EscStep
    /\ duty' = [m \in Motors |-> Pulse(g_motor_pwm_us[m], g_esc_arm_delay_done')]
    /\ WriteReport
    /\ UNCHANGED <<tick, now, rxVars, sensorVars, rcVars, gateVars, motorVars,
                   linuxVars, shmVars, stop_held>>

PollStep == PollEnter \/ RxFrame \/ Decide \/ Gate \/ Apply
-----------------------------------------------------------------------------
(* Linux, the other core, and the announcement of its region.              *)
taskVars == <<tick, pc, now, rxVars, sensorVars, rcVars, gateVars, motorVars, escVars, shmVars>>

\* What the task finds where it looks for the emergency slot.
VisibleSlot == IF RegionUsable THEN emergency_slot ELSE NoRegion.emergency

\* History.  A stop that appears with the recorded number is masked; a stop is
\* timed from the moment it is there to be read, and no longer held once a slot
\* that withdraws it is.
RecordSlot ==
    /\ masked' = (/\ StopVisible'
                  /\ IF VisibleSlot' = VisibleSlot THEN masked
                     ELSE VisibleSlot'.seq = g_amp_last_emergency_seq)
    /\ stop_at' = IF ~StopVisible' THEN 0
                  ELSE IF StopVisible /\ masked' = masked THEN stop_at ELSE tick
    /\ stop_held' = (stop_held /\ ~Withdrawn')

\* AMP_CMD_INIT_SHM: prvCmdQuRunTask stores the announced address after a
\* poll, every time.  The mailbox keeps announcements in order, and one that
\* Linux has given up waiting for may still arrive.
InitShm ==
    /\ pc = "idle"
    /\ \E a \in Regions :
          /\ g_amp_shm_phys <= a /\ a <= shared_phys_addr
          /\ g_amp_shm_phys' = a
    /\ UNCHANGED <<starts, region, shared_phys_addr, emergency_seq, taskVars>>
    /\ RecordSlot

\* A start of Linux that maps a region of its own, which initializeSharedRegion
\* zeroes; the memory it had before is given back and may be wiped.
OpenFresh ==
    /\ shared_phys_addr' = shared_phys_addr + 1
    /\ \E left \in {region[shared_phys_addr], NoRegion} :
          region' = [region EXCEPT ![shared_phys_addr] = left,
                                   ![shared_phys_addr + 1] = ZeroedRegion]

\* A start that maps the same memory: with its magic intact the slots stay.
OpenAgain ==
    /\ shared_phys_addr # 0
    /\ \E r \in {region[shared_phys_addr], ZeroedRegion} :
          region' = [region EXCEPT ![shared_phys_addr] = r]
    /\ UNCHANGED shared_phys_addr

\* MailboxTransport::open in a new process, whose numbers begin again.
LinuxStart ==
    /\ starts < MaxStarts
    /\ starts' = starts + 1
    /\ emergency_seq' = 0
    /\ OpenFresh \/ OpenAgain
    /\ UNCHANGED <<g_amp_shm_phys, taskVars>>
    /\ RecordSlot

\* writeEmergencyCache; a reason of zero is an explicit clear.
PublishEmergency(reason) ==
    /\ shared_phys_addr # 0
    /\ emergency_seq < MaxEmergencies[starts]
    /\ emergency_seq' = emergency_seq + 1
    /\ region' = [region EXCEPT ![shared_phys_addr] =
                      Contents(@.magic, [seq |-> emergency_seq', reason |-> reason], @.config)]
    /\ UNCHANGED <<starts, shared_phys_addr, g_amp_shm_phys, taskVars>>
    /\ RecordSlot

\* writeConfigCache stores whatever number the caller brings, a used one too.
PublishConfig(seq, c) ==
    /\ shared_phys_addr # 0
    /\ region' = [region EXCEPT ![shared_phys_addr] =
                      Contents(@.magic, @.emergency, [seq |-> seq, payload |-> c])]
    /\ UNCHANGED <<starts, shared_phys_addr, emergency_seq, g_amp_shm_phys, taskVars>>
    /\ RecordSlot

LinuxStep == \/ LinuxStart
             \/ \E reason \in {0, 1} : PublishEmergency(reason)
             \/ \E seq \in 1..MaxConfigs, c \in Configs : PublishConfig(seq, c)

Next == Tick \/ PollEnter \/ RxFrame \/ Decide \/ Gate \/ Apply \/ InitShm \/ LinuxStep

Spec == Init /\ [][Next]_vars

\* The CMDQU task never stops: its queue receive times out after 2 ms, and
\* the UART budget bounds the receive loop of a poll.
FairSpec == Spec /\ WF_vars(PollStep)
-----------------------------------------------------------------------------
RegionContents ==
    [magic : BOOLEAN, emergency : [seq : Nat, reason : {0, 1}],
     config : [seq : Nat, payload : [deadzone : Nat, rate : Nat \cup {NaN},
                                     angle : Nat \cup {NaN}]]]

Pulses == [Motors -> MOTOR_PWM_MIN_US..MOTOR_TEST_MAX_US]

\* Every variable of the poll, of the arm gate and of the shared slots keeps
\* its type; the clock readings the poll stores are never in the future.
TypeOK ==
    /\ tick \in Nat /\ now \in 0..tick
    /\ pc \in {"idle", "rx", "gate", "apply"}
    /\ budget \in 0..FrameBudget
    /\ ch \in [throttle : Nat, arm : BOOLEAN] /\ good_frames \in BOOLEAN
    /\ last_frame_tick \in 0..now /\ g_rc_last_frame_tick \in 0..tick
    /\ last_i2c_tick \in 0..now /\ g_mpu_cal_count \in 0..CalTarget
    /\ g_sensor_ready \in BOOLEAN
    /\ failsafe \in BOOLEAN /\ g_rc_valid \in BOOLEAN
    /\ g_rc_throttle_us \in Nat /\ g_rc_arm_switch \in BOOLEAN
    /\ g_rc_seen_arm_low \in BOOLEAN /\ g_rc_arm_latched \in BOOLEAN
    /\ g_rc_prev_arm_switch \in BOOLEAN /\ low_since \in BOOLEAN
    /\ g_motor_armed \in BOOLEAN /\ g_motor_output_enabled \in BOOLEAN
    /\ g_motor_safety_reason \in Reasons
    /\ g_motor_pwm_us \in Pulses /\ duty \in Pulses
    /\ g_esc_arm_start_tick \in 0..tick /\ g_esc_arm_delay_done \in BOOLEAN
    /\ starts \in 0..MaxStarts /\ shared_phys_addr \in 0..starts
    /\ region \in [{0} \cup Regions -> RegionContents]
    /\ emergency_seq \in Nat /\ g_amp_shm_phys \in 0..shared_phys_addr
    /\ masked \in BOOLEAN /\ stop_held \in BOOLEAN
    /\ g_amp_last_emergency_seq \in Nat /\ g_amp_emergency_stop_latched \in BOOLEAN
    /\ g_amp_last_config_seq \in Nat /\ gains \in Gains
    /\ rt_report \in [armed : BOOLEAN, out : BOOLEAN, reason : Reasons, emergency : BOOLEAN]
    /\ last_rt_report_tick \in 0..tick /\ stop_at \in 0..tick

Spinning == \E m \in Motors : duty[m] > MOTOR_PWM_SAFE_US

\* How long a motor may run on after the input that should stop it: the rest
\* of the poll period and the poll that acts on it.
Reaction == PollPeriod + MaxPoll

\* Motors never run on RC frames older than the loss timeout, nor on sensor
\* data older than the probe period, by more than one reaction time: the two
\* RC timeouts, the probe period and the PWM write work together however the
\* clock advances inside a poll.
StopsInTime ==
    Spinning => /\ tick - g_rc_last_frame_tick <= RcLost + Reaction
                /\ tick - last_i2c_tick < ProbePeriod + Reaction

\* A stop in the region the task reads stops the motors within one reaction
\* time of becoming visible, even when it lands between the poll's read of the
\* slot and its PWM write, and keeps them stopped as long as it is there.  The
\* exception is a stop that comes with the number the task recorded last.
EmergencyStopsInTime == Spinning /\ StopPending => tick - stop_at <= Reaction

\* A stop that a poll has read outlasts the slot it came in: from the end of
\* that poll the motors rest, whatever the receiver says, until the task can
\* read a slot with another number and reason zero.  That is a clear Linux
\* publishes or the zeroed region of a Linux that has started again; the end
\* of Linux, a wiped region, a late announcement of an older region's stop and
\* a clear with the recorded number do not release it.
StopOutlastsSlot ==
    stop_held => g_amp_emergency_stop_latched /\ (pc \in {"idle", "rx"} => ~Spinning)

\* Between polls a motor runs only for an armed, enabled controller whose arm
\* gate is latched, with RC valid, sensors calibrated and ready, no emergency
\* stop latched and the ESC delay served in full.
SpinGuard ==
    pc = "idle" /\ Spinning =>
        /\ g_motor_armed /\ g_motor_output_enabled /\ g_rc_arm_latched
        /\ g_rc_valid /\ g_rc_arm_switch /\ ~failsafe
        /\ g_sensor_ready /\ g_mpu_cal_count = CalTarget
        /\ ~g_amp_emergency_stop_latched
        /\ tick - g_esc_arm_start_tick >= EscDelay

\* The arm gate latches only when the switch was observed LOW since boot,
\* since the last RC loss and since the latch was last dropped by a sensor
\* fault or by the throttle kill (comm_main.c:1892-1895).
RearmNeedsLow == g_rc_arm_latched => low_since

\* The kill threshold leaves the mixer its headroom: while a motor is driven,
\* neither the mixer's nor the trim's upper clamp is ever reached, so the
\* corrections of the three axes reach the motors undistorted from above.
NoTopSaturation ==
    g_motor_output_enabled =>
        \A m \in Motors : g_motor_pwm_us[m] < MOTOR_TEST_MAX_US

\* Whatever Linux publishes, NaN included, no gain leaves the range the
\* controller divides by: no division by zero and no hotter loop.
GainsInRange ==
    /\ gains.deadzone \in AMP_CONFIG_DEADZONE_MIN_US..AMP_CONFIG_DEADZONE_MAX_US
    /\ {gains.roll, gains.pitch, gains.yaw}
           \subseteq AMP_CONFIG_RATE_DIV_MIN..AMP_CONFIG_RATE_DIV_MAX
    /\ gains.angle \in AMP_CONFIG_ANGLE_DIV_MIN..AMP_CONFIG_ANGLE_DIV_MAX

\* An emergency stop does not wait for ever: the motors come to rest with the
\* stop latched, unless the slot changes or goes away before a poll reads it.
\* (That they stay at rest is EmergencyStopsInTime and StopOutlastsSlot.)
EmergencyObeyed ==
    StopPending ~> (~StopPending \/ (g_amp_emergency_stop_latched /\ ~Spinning))

\* Once the last frame is older than the timeout, the motors come to rest
\* unless the receiver speaks again.
LossObeyed ==
    (tick - g_rc_last_frame_tick > RcLost)
        ~> (~Spinning \/ tick - g_rc_last_frame_tick <= RcLost)
=============================================================================
