------------------------- MODULE BringupLoopProofs -------------------------
(***************************************************************************)
(* Theorems about the poll of comm_main.c for every set of frames, every   *)
(* correction inside the controller's clamp, every period and timeout.     *)
(***************************************************************************)
EXTENDS BringupLoop, TLAPS
-----------------------------------------------------------------------------
(* The motor arithmetic, for every throttle and every correction the       *)
(* controller's clamp lets through.                                        *)

\* The throttle floor returns a throttle that is idle or below, or active.
LEMMA ActiveThrottleType ==
    ASSUME NEW throttle \in Nat
    PROVE  /\ ActiveThrottle(throttle) \in Nat
           /\ ActiveThrottle(throttle) <= MOTOR_TEST_MAX_US
           /\ throttle <= 1350 => ActiveThrottle(throttle) <= 1350
BY DEF ActiveThrottle, CONTROL_MIN_ACTIVE_THROTTLE_US, MOTOR_PWM_IDLE_US, MOTOR_TEST_MAX_US

\* The torque of a motor is at most three full corrections.
LEMMA TorqueBound ==
    ASSUME NEW pid \in PidCorrections, NEW m \in Motors
    PROVE  Torque(pid, m) \in -120..120
<1> DEFINE InClamp(r) == r \in Int /\ -40 <= r /\ r <= 40
<1>1. InClamp(pid.roll) /\ InClamp(pid.pitch) /\ InClamp(pid.yaw)
    BY DEF PidCorrections, RATE_PID_MAX_CORR_US
<1>2. ASSUME NEW r, InClamp(r), NEW p, InClamp(p), NEW y, InClamp(y)
      PROVE  /\ p + r - y \in -120..120 /\ p - r + y \in -120..120
             /\ -p - r - y \in -120..120 /\ -p + r + y \in -120..120
    BY <1>2
<1>3. /\ pid.pitch + pid.roll - pid.yaw \in -120..120
      /\ pid.pitch - pid.roll + pid.yaw \in -120..120
      /\ -pid.pitch - pid.roll - pid.yaw \in -120..120
      /\ -pid.pitch + pid.roll + pid.yaw \in -120..120
    BY <1>1, <1>2
<1> QED BY <1>3 DEF Torque

\* motor_apply_trim_i32 ends in a clamp.
LEMMA ApplyTrimRange ==
    ASSUME NEW throttle \in Int, NEW us \in Int, NEW m \in Motors
    PROVE  ApplyTrim(throttle, us, m) \in MOTOR_PWM_MIN_US..MOTOR_TEST_MAX_US
<1>1. g_motor_trim_us[m] \in Int /\ g_motor_min_spin_us[m] \in Int
    BY DEF g_motor_trim_us, g_motor_min_spin_us
<1> DEFINE trimmed == us + g_motor_trim_us[m]
           spun == IF throttle >= MOTOR_MIN_SPIN_APPLY_US /\ trimmed < g_motor_min_spin_us[m]
                   THEN g_motor_min_spin_us[m] ELSE trimmed
<1>2. spun \in Int
    BY <1>1
<1>3. ApplyTrim(throttle, us, m) = clamp_i32(spun, MOTOR_PWM_MIN_US, MOTOR_TEST_MAX_US)
    BY DEF ApplyTrim
<1> HIDE DEF spun
<1>4. clamp_i32(spun, MOTOR_PWM_MIN_US, MOTOR_TEST_MAX_US)
        \in MOTOR_PWM_MIN_US..MOTOR_TEST_MAX_US
    BY <1>2 DEF clamp_i32, MOTOR_PWM_MIN_US, MOTOR_TEST_MAX_US
<1> QED BY <1>3, <1>4

\* The controller never asks for a pulse outside the test range.
LEMMA MotorPwmRange ==
    ASSUME NEW throttle \in Nat, NEW pid \in PidCorrections
    PROVE  MotorPwm(throttle, pid) \in [Motors -> MOTOR_PWM_MIN_US..MOTOR_TEST_MAX_US]
<1>1. ActiveThrottle(throttle) \in Int
    BY ActiveThrottleType
<1>2. ASSUME NEW m \in Motors
      PROVE  ApplyTrim(ActiveThrottle(throttle), Mix(ActiveThrottle(throttle), pid, m), m)
                \in MOTOR_PWM_MIN_US..MOTOR_TEST_MAX_US
    <2>1. Mix(ActiveThrottle(throttle), pid, m) \in Int
        BY <1>1, TorqueBound DEF Mix, clamp_i32, MOTOR_PWM_MIN_US, MOTOR_TEST_MAX_US
    <2> QED BY <1>1, <2>1, ApplyTrimRange
<1> QED BY <1>2 DEF MotorPwm

\* Below the kill threshold the sum of throttle, torque and trim stays clear
\* of the ceiling, so no upper clamp of the mixer or of the trim is reached.
LEMMA MotorPwmHeadroom ==
    ASSUME NEW throttle \in Nat, throttle <= 1350, NEW pid \in PidCorrections,
           NEW m \in Motors
    PROVE  MotorPwm(throttle, pid)[m] < MOTOR_TEST_MAX_US
<1>1. ActiveThrottle(throttle) \in Nat /\ ActiveThrottle(throttle) <= 1350
    BY ActiveThrottleType
<1>2. Torque(pid, m) \in -120..120
    BY TorqueBound
<1>3. /\ Mix(ActiveThrottle(throttle), pid, m) \in Int
      /\ Mix(ActiveThrottle(throttle), pid, m) <= 1470
    BY <1>1, <1>2 DEF Mix, clamp_i32, MOTOR_PWM_MIN_US, MOTOR_TEST_MAX_US
<1>4. /\ g_motor_trim_us[m] \in Nat /\ g_motor_trim_us[m] <= 10
      /\ g_motor_min_spin_us[m] \in Nat /\ g_motor_min_spin_us[m] <= 1235
    BY DEF g_motor_trim_us, g_motor_min_spin_us
<1>5. ASSUME NEW us \in Int, us <= 1470
      PROVE  ApplyTrim(ActiveThrottle(throttle), us, m) <= 1480
    <2>1. ASSUME NEW v \in Int, v <= 1480
          PROVE  clamp_i32(v, MOTOR_PWM_MIN_US, MOTOR_TEST_MAX_US) <= 1480
        BY <2>1 DEF clamp_i32, MOTOR_PWM_MIN_US, MOTOR_TEST_MAX_US
    <2>2. us + g_motor_trim_us[m] \in Int /\ us + g_motor_trim_us[m] <= 1480
        BY <1>4, <1>5
    <2> QED BY <1>4, <2>1, <2>2 DEF ApplyTrim
<1>6. ApplyTrim(ActiveThrottle(throttle), Mix(ActiveThrottle(throttle), pid, m), m) \in Int
    BY <1>1, <1>3, ApplyTrimRange DEF MOTOR_PWM_MIN_US, MOTOR_TEST_MAX_US
<1>7. MotorPwm(throttle, pid)[m]
        = ApplyTrim(ActiveThrottle(throttle), Mix(ActiveThrottle(throttle), pid, m), m)
    BY DEF MotorPwm
<1> QED BY <1>3, <1>5, <1>6, <1>7 DEF MOTOR_TEST_MAX_US
-----------------------------------------------------------------------------
(* The poll.                                                               *)

\* The gains a config leaves are numbers whatever the config holds.
LEMMA ApplyConfigType ==
    ASSUME NEW g \in Gains,
           NEW c \in [deadzone : Nat, rate : Nat \cup {NaN}, angle : Nat \cup {NaN}],
           NEW h \in ApplyConfig(g, c)
    PROVE  h \in Gains
<1>1. ASSUME NEW v \in Nat \cup {NaN}, NEW f \in Nat, NEW lo \in Nat, NEW hi \in Nat
      PROVE  FloatToDiv(v, f, lo, hi) \subseteq Nat
    BY <1>1 DEF FloatToDiv, clamp_i32, NaN
<1>2. PICK rate \in FloatToDiv(c.rate, g.roll, AMP_CONFIG_RATE_DIV_MIN, AMP_CONFIG_RATE_DIV_MAX),
           angle \in FloatToDiv(c.angle, g.angle, AMP_CONFIG_ANGLE_DIV_MIN,
                                AMP_CONFIG_ANGLE_DIV_MAX) :
        h = [deadzone |-> IF c.deadzone = 0 THEN g.deadzone
                          ELSE clamp_i32(c.deadzone, AMP_CONFIG_DEADZONE_MIN_US,
                                         AMP_CONFIG_DEADZONE_MAX_US),
             roll |-> rate, pitch |-> rate, yaw |-> rate, angle |-> angle]
    BY DEF ApplyConfig
<1>3. rate \in Nat /\ angle \in Nat
    <2>1. /\ c.rate \in Nat \cup {NaN} /\ c.angle \in Nat \cup {NaN}
          /\ g.roll \in Nat /\ g.angle \in Nat
        BY DEF Gains
    <2>2. /\ AMP_CONFIG_RATE_DIV_MIN \in Nat /\ AMP_CONFIG_RATE_DIV_MAX \in Nat
          /\ AMP_CONFIG_ANGLE_DIV_MIN \in Nat /\ AMP_CONFIG_ANGLE_DIV_MAX \in Nat
        BY DEF AMP_CONFIG_RATE_DIV_MIN, AMP_CONFIG_RATE_DIV_MAX,
               AMP_CONFIG_ANGLE_DIV_MIN, AMP_CONFIG_ANGLE_DIV_MAX
    <2> QED BY <1>1, <1>2, <2>1, <2>2
<1>4. (IF c.deadzone = 0 THEN g.deadzone
       ELSE clamp_i32(c.deadzone, AMP_CONFIG_DEADZONE_MIN_US, AMP_CONFIG_DEADZONE_MAX_US)) \in Nat
    BY DEF Gains, clamp_i32, AMP_CONFIG_DEADZONE_MIN_US, AMP_CONFIG_DEADZONE_MAX_US
<1> QED BY <1>2, <1>3, <1>4 DEF Gains

\* motor_set_all(MOTOR_PWM_IDLE_US) stores pulses the hardware may emit.
LEMMA AllIdleType == AllIdle \in Pulses
BY DEF AllIdle, Pulses, MOTOR_PWM_IDLE_US, MOTOR_PWM_MIN_US, MOTOR_TEST_MAX_US

\* Memory as Linux gets it and as Linux zeroes it.
LEMMA RegionType == NoRegion \in RegionContents /\ ZeroedRegion \in RegionContents
<1>1. BootConfig \in [deadzone : Nat, rate : Nat \cup {NaN}, angle : Nat \cup {NaN}]
    BY DEF BootConfig
<1>2. ASSUME NEW b \in BOOLEAN PROVE Blank(b) \in RegionContents
    BY <1>1 DEF Blank, Contents, RegionContents
<1> QED BY <1>2 DEF NoRegion, ZeroedRegion

\* Both addresses are addresses of a region or zero, and the slots read
\* through the announced one have their types.
LEMMA SlotTypes ==
    ASSUME TypeOK
    PROVE  /\ g_amp_shm_phys \in {0} \cup Regions /\ shared_phys_addr \in {0} \cup Regions
           /\ emergency_slot \in [seq : Nat, reason : {0, 1}]
           /\ config_slot \in [seq : Nat, payload : [deadzone : Nat, rate : Nat \cup {NaN},
                                                    angle : Nat \cup {NaN}]]
<1>1. g_amp_shm_phys \in {0} \cup Regions /\ shared_phys_addr \in {0} \cup Regions
    BY ConstantsAssumption DEF TypeOK, Regions
<1>2. region[g_amp_shm_phys] \in RegionContents
    BY <1>1 DEF TypeOK
<1> QED BY <1>1, <1>2 DEF emergency_slot, config_slot, RegionContents

\* The state of the poll starts in its type.
LEMMA InitType == Init => TypeOK
<1>1. BootGains \in Gains
    BY DEF BootGains, Gains
<1>3. BootReport \in [armed : BOOLEAN, out : BOOLEAN, reason : Reasons, emergency : BOOLEAN]
    BY DEF BootReport, Reasons
<1>4. Init => /\ region \in [{0} \cup Regions -> RegionContents]
              /\ starts \in 0..MaxStarts /\ shared_phys_addr \in 0..starts
              /\ emergency_seq \in Nat /\ g_amp_shm_phys \in 0..shared_phys_addr
    BY RegionType, ConstantsAssumption DEF Init
<1>5. Init => ch \in [throttle : Nat, arm : BOOLEAN]
    BY DEF Init
<1>6. Init => g_mpu_cal_count \in 0..CalTarget /\ budget \in 0..FrameBudget
    BY ConstantsAssumption DEF Init
<1>7. Init => /\ tick \in Nat /\ now \in 0..tick
              /\ last_frame_tick \in 0..now /\ g_rc_last_frame_tick \in 0..tick
              /\ last_i2c_tick \in 0..now /\ g_rc_throttle_us \in Nat
              /\ g_esc_arm_start_tick \in 0..tick
              /\ g_amp_last_emergency_seq \in Nat /\ g_amp_last_config_seq \in Nat
              /\ last_rt_report_tick \in 0..tick /\ stop_at \in 0..tick
    BY DEF Init
<1>8. Init => /\ good_frames \in BOOLEAN /\ g_sensor_ready \in BOOLEAN
              /\ failsafe \in BOOLEAN /\ g_rc_valid \in BOOLEAN /\ g_rc_arm_switch \in BOOLEAN
              /\ g_rc_seen_arm_low \in BOOLEAN /\ g_rc_arm_latched \in BOOLEAN
              /\ g_rc_prev_arm_switch \in BOOLEAN /\ low_since \in BOOLEAN
              /\ g_motor_armed \in BOOLEAN /\ g_motor_output_enabled \in BOOLEAN
              /\ g_esc_arm_delay_done \in BOOLEAN /\ masked \in BOOLEAN
              /\ stop_held \in BOOLEAN /\ g_amp_emergency_stop_latched \in BOOLEAN
    BY DEF Init
<1>9. Init => /\ pc \in {"idle", "rx", "gate", "apply"} /\ g_motor_safety_reason \in Reasons
              /\ g_motor_pwm_us \in Pulses /\ duty \in Pulses /\ gains \in Gains
              /\ rt_report \in [armed : BOOLEAN, out : BOOLEAN, reason : Reasons,
                                emergency : BOOLEAN]
    BY <1>1, <1>3, AllIdleType DEF Init, Reasons
<1> QED BY <1>4, <1>5, <1>6, <1>7, <1>8, <1>9 DEF TypeOK

\* The steps of Linux and the announcement of the region touch nothing that
\* the task owns.
LEMMA LinuxFrame == InitShm \/ LinuxStep => UNCHANGED taskVars
BY DEF InitShm, LinuxStep, LinuxStart, PublishEmergency, PublishConfig

\* Each of them keeps the histories of the slot the task reads.
LEMMA LinuxRecords == InitShm \/ LinuxStep => RecordSlot
BY DEF InitShm, LinuxStep, LinuxStart, PublishEmergency, PublishConfig

\* The histories of the slot keep their types.
LEMMA RecordType ==
    ASSUME TypeOK, RecordSlot
    PROVE  masked' \in BOOLEAN /\ stop_at' \in 0..tick /\ stop_held' \in BOOLEAN
<1>1. masked' \in BOOLEAN
    BY DEF RecordSlot
<1>2. stop_at' \in 0..tick
    <2>1. tick \in Nat /\ stop_at \in 0..tick
        BY DEF TypeOK
    <2>2. stop_at' \in {0, stop_at, tick}
        BY DEF RecordSlot
    <2> QED BY <2>1, <2>2
<1>3. stop_held' \in BOOLEAN
    BY DEF RecordSlot
<1> QED BY <1>1, <1>2, <1>3

\* A start of Linux takes at most one new address.
LEMMA LinuxCounters ==
    ASSUME TypeOK, LinuxStep
    PROVE  /\ starts' \in 0..MaxStarts /\ shared_phys_addr' \in 0..starts'
           /\ shared_phys_addr <= shared_phys_addr' /\ g_amp_shm_phys' = g_amp_shm_phys
           /\ emergency_seq' \in Nat
<1>t. /\ starts \in 0..MaxStarts /\ shared_phys_addr \in 0..starts /\ emergency_seq \in Nat
      /\ MaxStarts \in Nat
    BY ConstantsAssumption DEF TypeOK
<1>1. CASE LinuxStart
    <2>1. shared_phys_addr' \in {shared_phys_addr, shared_phys_addr + 1}
        BY <1>1 DEF LinuxStart, OpenFresh, OpenAgain
    <2>2. /\ starts < MaxStarts /\ starts' = starts + 1 /\ emergency_seq' = 0
          /\ g_amp_shm_phys' = g_amp_shm_phys
        BY <1>1 DEF LinuxStart
    <2> QED BY <1>t, <2>1, <2>2
<1>2. CASE \E reason \in {0, 1} : PublishEmergency(reason)
    <2>1. /\ UNCHANGED <<starts, shared_phys_addr, g_amp_shm_phys>>
          /\ emergency_seq' = emergency_seq + 1
        BY <1>2 DEF PublishEmergency
    <2> QED BY <1>t, <2>1
<1>3. CASE \E seq \in 1..MaxConfigs, c \in Configs : PublishConfig(seq, c)
    <2>1. UNCHANGED <<starts, shared_phys_addr, g_amp_shm_phys, emergency_seq>>
        BY <1>3 DEF PublishConfig
    <2> QED BY <1>t, <2>1
<1> QED BY <1>1, <1>2, <1>3 DEF LinuxStep

\* Whatever Linux writes, memory holds regions.
LEMMA LinuxRegionType ==
    ASSUME TypeOK, LinuxStep
    PROVE  region' \in [{0} \cup Regions -> RegionContents]
<1>1. ASSUME NEW f \in [{0} \cup Regions -> RegionContents], NEW a, NEW r \in RegionContents
      PROVE  [f EXCEPT ![a] = r] \in [{0} \cup Regions -> RegionContents]
    BY <1>1
<1>2. /\ region \in [{0} \cup Regions -> RegionContents]
      /\ shared_phys_addr \in {0} \cup Regions /\ region[shared_phys_addr] \in RegionContents
    BY SlotTypes DEF TypeOK
<1>3. CASE LinuxStart
    <2>1. CASE OpenFresh
        <3>1. PICK left \in {region[shared_phys_addr], NoRegion} :
                region' = [region EXCEPT ![shared_phys_addr] = left,
                                         ![shared_phys_addr + 1] = ZeroedRegion]
            BY <2>1 DEF OpenFresh
        <3>2. left \in RegionContents
            BY <1>2, RegionType
        <3> QED BY <1>2, <3>1, <3>2, RegionType
    <2>2. CASE OpenAgain
        BY <1>1, <1>2, <2>2, RegionType DEF OpenAgain
    <2> QED BY <1>3, <2>1, <2>2 DEF LinuxStart
<1>4. ASSUME NEW reason \in {0, 1}, PublishEmergency(reason)
      PROVE  region' \in [{0} \cup Regions -> RegionContents]
    <2>1. emergency_seq' \in Nat
        BY <1>4 DEF PublishEmergency, TypeOK
    <2>2. Contents(region[shared_phys_addr].magic, [seq |-> emergency_seq', reason |-> reason],
                   region[shared_phys_addr].config) \in RegionContents
        BY <1>2, <2>1 DEF RegionContents, Contents
    <2> QED BY <1>1, <1>2, <1>4, <2>2 DEF PublishEmergency
<1>5. ASSUME NEW seq \in 1..MaxConfigs, NEW c \in Configs, PublishConfig(seq, c)
      PROVE  region' \in [{0} \cup Regions -> RegionContents]
    <2>1. c \in [deadzone : Nat, rate : Nat \cup {NaN}, angle : Nat \cup {NaN}] /\ seq \in Nat
        BY ConstantsAssumption
    <2>2. Contents(region[shared_phys_addr].magic, region[shared_phys_addr].emergency,
                   [seq |-> seq, payload |-> c]) \in RegionContents
        BY <1>2, <2>1 DEF RegionContents, Contents
    <2> QED BY <1>1, <1>2, <1>5, <2>2 DEF PublishConfig
<1> QED BY <1>3, <1>4, <1>5 DEF LinuxStep

\* Every action keeps the types.
LEMMA StepType == TypeOK /\ [Next]_vars => TypeOK'
<1> SUFFICES ASSUME TypeOK, [Next]_vars PROVE TypeOK'
    OBVIOUS
<1> USE ConstantsAssumption
<1>1. CASE Tick
    BY <1>1 DEF Tick, TypeOK, rxVars, sensorVars, rcVars, gateVars, motorVars, escVars,
                linuxVars, shmVars
<1>2. CASE PollEnter
    BY <1>2 DEF PollEnter, TypeOK, sensorVars, rcVars, gateVars, motorVars, escVars,
                linuxVars, shmVars
<1>3. CASE RxFrame
    BY <1>3 DEF RxFrame, TypeOK, sensorVars, rcVars, gateVars, motorVars, escVars,
                linuxVars, shmVars
<1>4. CASE Decide
    <2>1. /\ g_mpu_cal_count' \in 0..CalTarget /\ g_sensor_ready' \in BOOLEAN
          /\ last_i2c_tick' \in 0..now
        <3>1. CASE ~ProbeDue
            BY <1>4, <3>1 DEF Decide, SensorStep, TypeOK, sensorVars
        <3>2. CASE ProbeDue
            <4>1. PICK hmc \in HmcOutcomes, mpuReads \in MpuOutcomes : Probe(hmc, mpuReads)
                BY <1>4, <3>2 DEF Decide, SensorStep
            <4>2. g_sensor_ready' \in BOOLEAN
                BY <4>1 DEF Probe, ProbeOutcome, SensorReady
            <4>3. g_mpu_cal_count' \in {g_mpu_cal_count, g_mpu_cal_count + 1}
                  /\ (g_mpu_cal_count' # g_mpu_cal_count => g_mpu_cal_count < CalTarget)
                BY <4>1 DEF Probe, ProbeOutcome, Calibrate
            <4>4. g_mpu_cal_count' \in 0..CalTarget
                BY <4>3 DEF TypeOK
            <4>5. last_i2c_tick' \in 0..now
                BY <4>1 DEF Probe, TypeOK
            <4> QED BY <4>2, <4>4, <4>5
        <3> QED BY <3>1, <3>2
    <2>2. /\ failsafe' \in BOOLEAN /\ g_rc_valid' \in BOOLEAN
          /\ g_rc_throttle_us' \in Nat /\ g_rc_arm_switch' \in BOOLEAN
        BY <1>4 DEF Decide, CopyRc, RcFailsafe, TypeOK
    <2>3. /\ g_amp_last_emergency_seq' \in Nat /\ g_amp_emergency_stop_latched' \in BOOLEAN
        BY <1>4, SlotTypes DEF Decide, ShmPoll, PollEmergency, TypeOK, shmVars
    <2>4. g_amp_last_config_seq' \in Nat /\ gains' \in Gains
        BY <1>4, SlotTypes, ApplyConfigType DEF Decide, ShmPoll, PollConfig, TypeOK, shmVars
    <2>5. /\ g_motor_armed' \in BOOLEAN /\ g_motor_output_enabled' \in BOOLEAN
          /\ g_motor_safety_reason' \in Reasons /\ g_motor_pwm_us' \in Pulses
        BY <1>4, AllIdleType DEF Decide, ShmPoll, ForceSafe, TypeOK, Reasons, motorVars
    <2>6. stop_held' \in BOOLEAN
        BY <1>4 DEF Decide
    <2> QED
        BY <1>4, <2>1, <2>2, <2>3, <2>4, <2>5, <2>6
        DEF Decide, TypeOK, rxVars, gateVars, escVars, linuxVars
<1>5. CASE Gate
    <2>1. GateThrottle \in Nat
        BY DEF GateThrottle, TypeOK
    <2>2. /\ g_rc_valid' \in BOOLEAN /\ g_rc_throttle_us' \in Nat /\ g_rc_arm_switch' \in BOOLEAN
          /\ g_rc_seen_arm_low' \in BOOLEAN /\ g_rc_arm_latched' \in BOOLEAN
          /\ g_rc_prev_arm_switch' \in BOOLEAN /\ low_since' \in BOOLEAN
        BY <1>5, <2>1 DEF Gate, UpdateArmGate, RecordLow, GateValid, GateSwitch, GateOpen, Latch, TypeOK
    <2>3. /\ g_motor_armed' \in BOOLEAN /\ g_motor_output_enabled' \in BOOLEAN
          /\ g_motor_safety_reason' \in Reasons
        BY <1>5 DEF Gate, SafetyDecision, SafetyReason, ForceSafe, Reasons
    <2>4. g_motor_pwm_us' \in Pulses
        BY <1>5, <2>1, AllIdleType, MotorPwmRange DEF Gate, SafetyDecision, ForceSafe, Pulses
    <2> QED
        BY <1>5, <2>2, <2>3, <2>4
        DEF Gate, TypeOK, rxVars, sensorVars, escVars, linuxVars, shmVars
<1>6. CASE Apply
    <2>1. g_esc_arm_start_tick' \in 0..tick /\ g_esc_arm_delay_done' \in BOOLEAN
        BY <1>6 DEF Apply, EscStep, EscElapsed, TypeOK
    <2>2. ASSUME NEW m \in Motors
          PROVE  Pulse(g_motor_pwm_us[m], g_esc_arm_delay_done')
                    \in MOTOR_PWM_MIN_US..MOTOR_TEST_MAX_US
        BY <2>2 DEF Pulse, TypeOK, Pulses, clamp_i32, MOTOR_PWM_MIN_US, MOTOR_PWM_SAFE_US,
                    MOTOR_PWM_MAX_US, MOTOR_TEST_MAX_US
    <2>3. duty' \in Pulses
        BY <1>6, <2>2 DEF Apply, Pulses
    <2>4. /\ rt_report' \in [armed : BOOLEAN, out : BOOLEAN, reason : Reasons, emergency : BOOLEAN]
          /\ last_rt_report_tick' \in 0..tick
        BY <1>6 DEF Apply, WriteReport, TypeOK
    <2> QED
        BY <1>6, <2>1, <2>3, <2>4
        DEF Apply, TypeOK, rxVars, sensorVars, rcVars, gateVars, motorVars, linuxVars, shmVars
<1>7. CASE InitShm
    <2>1. g_amp_shm_phys' \in 0..shared_phys_addr
        BY <1>7 DEF InitShm, Regions, TypeOK
    <2> QED BY <1>7, <2>1, RecordType
            DEF InitShm, TypeOK, taskVars, rxVars, sensorVars, rcVars, gateVars, motorVars,
                escVars, shmVars
<1>8. CASE LinuxStep
    <2>1. UNCHANGED taskVars
        BY <1>8, LinuxFrame
    <2>2. RecordSlot
        BY <1>8, LinuxRecords
    <2>3. /\ starts' \in 0..MaxStarts /\ shared_phys_addr' \in 0..starts'
          /\ shared_phys_addr <= shared_phys_addr' /\ g_amp_shm_phys' = g_amp_shm_phys
        BY <1>8, LinuxCounters
    <2>4. g_amp_shm_phys' \in 0..shared_phys_addr'
        BY <2>3 DEF TypeOK
    <2>5. emergency_seq' \in Nat
        BY <1>8, LinuxCounters
    <2>6. region' \in [{0} \cup Regions -> RegionContents]
        BY <1>8, LinuxRegionType
    <2> QED BY <2>1, <2>2, <2>3, <2>4, <2>5, <2>6, RecordType
            DEF TypeOK, taskVars, rxVars, sensorVars, rcVars, gateVars, motorVars, escVars, shmVars
<1>9. CASE UNCHANGED vars
    BY <1>9 DEF vars, TypeOK, rxVars, sensorVars, rcVars, gateVars, motorVars, escVars,
                linuxVars, shmVars
<1> QED BY <1>1, <1>2, <1>3, <1>4, <1>5, <1>6, <1>7, <1>8, <1>9 DEF Next

\* The types hold in every state the poll, the clock and Linux can reach.
THEOREM TypeCorrect == Spec => []TypeOK
BY InitType, StepType, PTL DEF Spec
-----------------------------------------------------------------------------
(* The safety of the poll.  Each theorem rests on an inductive invariant   *)
(* that says, for the places between two steps of a poll, what the steps   *)
(* already taken have established.                                         *)

\* The scheduling bounds, and how old the two inputs a motor depends on can
\* be, counted from the poll's entry: by the end of the decision they are
\* fresh, and until then they are older by at most one poll period.
TimeInv ==
    /\ tick <= now + PollPeriod
    /\ pc # "idle" => tick <= now + MaxPoll
    /\ pc # "rx" => now - last_i2c_tick < ProbePeriod
    /\ pc = "rx" => now - last_i2c_tick < ProbePeriod + PollPeriod
    /\ pc = "apply" /\ g_motor_output_enabled => now - g_rc_last_frame_tick <= RcLost
    /\ pc = "idle" /\ Spinning => now - g_rc_last_frame_tick <= RcLost
    /\ pc # "idle" /\ Spinning => now - g_rc_last_frame_tick <= RcLost + PollPeriod

\* What the gate and the safety decision have established before the PWM
\* write, and what it leaves for the time between polls.
GuardInv ==
    /\ g_sensor_ready => g_mpu_cal_count = CalTarget
    /\ g_esc_arm_delay_done => tick - g_esc_arm_start_tick >= EscDelay
    /\ pc = "apply" /\ g_motor_output_enabled =>
          /\ g_motor_armed /\ g_rc_arm_latched /\ g_rc_valid /\ g_rc_arm_switch
          /\ ~failsafe /\ g_sensor_ready /\ ~g_amp_emergency_stop_latched
    /\ pc = "gate" => (g_rc_valid <=> ~failsafe)
    /\ SpinGuard

\* With both stamps of a frame equal, the failsafe test implies the freshness
\* test, and a gate that may latch has observed LOW.
RearmInv ==
    /\ pc = "rx" => tick = now
    /\ last_frame_tick = g_rc_last_frame_tick
    /\ ~good_frames => g_rc_last_frame_tick = 0
    /\ pc = "gate" /\ failsafe => Lost
    /\ pc = "gate" => (g_rc_valid <=> ~failsafe)
    /\ g_rc_seen_arm_low /\ ~g_rc_prev_arm_switch => low_since
    /\ RearmNeedsLow

\* A stop that the task has not latched is younger than the poll, or than the
\* poll before it when the motors still run on that one's write.
StopInv ==
    /\ StopPending /\ ~NewEmergency => g_amp_emergency_stop_latched
    /\ pc \in {"gate", "apply"} /\ StopPending /\ ~g_amp_emergency_stop_latched => stop_at >= now
    /\ pc = "apply" /\ g_motor_output_enabled => ~g_amp_emergency_stop_latched
    /\ pc = "idle" /\ Spinning /\ StopPending => stop_at >= now
    /\ Spinning /\ StopPending => stop_at >= now - PollPeriod

\* A stop that is held is latched and nothing withdraws it, and the outputs a
\* latched stop has dropped stay dropped for the PWM write.
HeldInv ==
    /\ pc = "apply" /\ g_motor_output_enabled => ~g_amp_emergency_stop_latched
    /\ stop_held => ~Withdrawn
    /\ StopOutlastsSlot
-----------------------------------------------------------------------------
\* Only the PWM write starts a motor, and only for an armed and enabled
\* controller whose ESC delay is over.
LEMMA ApplySpin ==
    ASSUME Apply, Spinning'
    PROVE  g_motor_armed /\ g_motor_output_enabled /\ g_esc_arm_delay_done'
<1>1. PICK m \in Motors : duty'[m] > MOTOR_PWM_SAFE_US
    BY DEF Spinning
<1>2. Pulse(g_motor_pwm_us[m], g_esc_arm_delay_done') > MOTOR_PWM_SAFE_US
    BY <1>1 DEF Apply
<1> QED BY <1>2 DEF Pulse, MOTOR_PWM_SAFE_US

\* The safety decision enables the outputs only for a latched gate with fresh
\* frames, ready sensors and no stop.
LEMMA GateEnables ==
    ASSUME TypeOK, Gate, g_motor_output_enabled'
    PROVE  /\ g_motor_armed' /\ Latch /\ GateOpen /\ GateValid /\ GateSwitch /\ ~Lost
           /\ g_rc_arm_latched' /\ g_rc_valid' /\ g_rc_arm_switch'
           /\ ~failsafe' /\ g_sensor_ready' /\ ~g_amp_emergency_stop_latched'
           /\ GateThrottle <= RC_THROTTLE_TEST_KILL_US
<1>1. SafetyReason = "OK" /\ g_motor_armed'
    BY DEF Gate, SafetyDecision, ForceSafe
<1>2. ~g_amp_emergency_stop_latched /\ ~failsafe /\ g_sensor_ready /\ Latch
    BY <1>1 DEF SafetyReason
<1>3. /\ ~g_amp_emergency_stop_latched' /\ ~failsafe' /\ g_sensor_ready'
    BY <1>2 DEF Gate, shmVars, sensorVars
<1>4. /\ GateOpen /\ GateValid /\ GateSwitch /\ ~Lost
      /\ GateThrottle <= RC_THROTTLE_TEST_KILL_US
    BY <1>2 DEF Latch, GateOpen, GateValid
<1>5. /\ g_rc_arm_latched' /\ g_rc_valid' /\ g_rc_arm_switch'
    BY <1>2, <1>4 DEF Gate, UpdateArmGate
<1> QED BY <1>1, <1>2, <1>3, <1>4, <1>5
-----------------------------------------------------------------------------
\* The kill threshold, the correction clamp and the trims add up to less than
\* the mixer's ceiling, however the pilot and the loops combine them.
THEOREM NoTopSaturationHolds == Spec => []NoTopSaturation
<1>1. Init => NoTopSaturation
    BY DEF Init, NoTopSaturation
<1>2. TypeOK /\ NoTopSaturation /\ [Next]_vars => NoTopSaturation'
    <2> SUFFICES ASSUME TypeOK, NoTopSaturation, [Next]_vars, g_motor_output_enabled',
                        NEW m \in Motors
                 PROVE  g_motor_pwm_us'[m] < MOTOR_TEST_MAX_US
        BY DEF NoTopSaturation
    <2>1. CASE Gate
        <3>1. PICK pid \in Pids : g_motor_pwm_us' = MotorPwm(GateThrottle, pid)
            BY <2>1 DEF Gate, SafetyDecision, ForceSafe
        <3>2. GateThrottle \in Nat /\ GateThrottle <= 1350
            BY <2>1, GateEnables DEF TypeOK, GateThrottle, RC_THROTTLE_TEST_KILL_US
        <3>3. pid \in PidCorrections
            BY ConstantsAssumption
        <3> QED BY <3>1, <3>2, <3>3, MotorPwmHeadroom
    <2>2. CASE ~Gate
        <3>1. UNCHANGED motorVars \/ (Decide /\ ForceSafe("FAILSAFE"))
            BY <2>2, LinuxFrame
            DEF Next, vars, Tick, PollEnter, RxFrame, Decide, ShmPoll, Apply, taskVars
        <3> QED BY <3>1 DEF ForceSafe, motorVars, NoTopSaturation
    <2> QED BY <2>1, <2>2
<1> QED BY <1>1, <1>2, TypeCorrect, PTL DEF Spec
-----------------------------------------------------------------------------
\* Every step keeps the ages inside their bounds.
LEMMA TimeStep == TypeOK /\ TimeInv /\ [Next]_vars => TimeInv'
<1> SUFFICES ASSUME TypeOK, TimeInv, [Next]_vars PROVE TimeInv'
    OBVIOUS
<1> USE ConstantsAssumption
<1>s. duty' = duty => (Spinning' <=> Spinning)
    BY DEF Spinning
<1>1. CASE Tick
    BY <1>1, <1>s DEF Tick, TickLimit, TypeOK, TimeInv, rxVars, sensorVars, motorVars, escVars
<1>2. CASE PollEnter
    BY <1>2, <1>s DEF PollEnter, TypeOK, TimeInv, sensorVars, motorVars, escVars
<1>3. CASE RxFrame
    BY <1>3, <1>s DEF RxFrame, TypeOK, TimeInv, sensorVars, motorVars, escVars
<1>4. CASE Decide
    <2>1. now - last_i2c_tick' < ProbePeriod
        BY <1>4 DEF Decide, SensorStep, ProbeDue, Probe, TypeOK, sensorVars
    <2> QED BY <1>4, <1>s, <2>1 DEF Decide, TypeOK, TimeInv, rxVars, escVars
<1>5. CASE Gate
    <2>1. g_motor_output_enabled' => tick - g_rc_last_frame_tick <= RcLost
        BY <1>5, GateEnables DEF Lost, Stale, NeverFresh, TypeOK
    <2> QED BY <1>5, <1>s, <2>1 DEF Gate, TypeOK, TimeInv, rxVars, sensorVars, escVars
<1>6. CASE Apply
    <2>1. Spinning' => g_motor_output_enabled
        BY <1>6, ApplySpin
    <2> QED BY <1>6, <2>1 DEF Apply, TypeOK, TimeInv, rxVars, sensorVars, motorVars
<1>7. CASE InitShm \/ LinuxStep
    BY <1>7, <1>s, LinuxFrame DEF TimeInv, taskVars, rxVars, sensorVars, motorVars, escVars
<1>8. CASE UNCHANGED vars
    BY <1>8, <1>s DEF vars, TimeInv, rxVars, sensorVars, motorVars, escVars
<1> QED BY <1>1, <1>2, <1>3, <1>4, <1>5, <1>6, <1>7, <1>8 DEF Next

\* The motors never run longer than one reaction time on stale RC frames or
\* stale sensor data, for every timeout, period and duration of a poll.
THEOREM StopsInTimeHolds == Spec => []StopsInTime
<1>1. Init => TimeInv
    BY ConstantsAssumption DEF Init, TimeInv, Spinning, AllIdle, MOTOR_PWM_IDLE_US, MOTOR_PWM_SAFE_US
<1>2. TypeOK /\ TimeInv => StopsInTime
    BY ConstantsAssumption DEF TypeOK, TimeInv, StopsInTime, Reaction
<1> QED BY <1>1, <1>2, TimeStep, TypeCorrect, PTL DEF Spec
-----------------------------------------------------------------------------
\* Every step keeps what the gate has established.
LEMMA GuardStep == TypeOK /\ GuardInv /\ [Next]_vars => GuardInv'
<1> SUFFICES ASSUME TypeOK, GuardInv, [Next]_vars PROVE GuardInv'
    OBVIOUS
<1> USE ConstantsAssumption
<1>s. duty' = duty => (Spinning' <=> Spinning)
    BY DEF Spinning
<1>1. CASE Tick
    BY <1>1, <1>s DEF Tick, TypeOK, GuardInv, SpinGuard, sensorVars, rcVars, gateVars,
                      motorVars, escVars, shmVars
<1>2. CASE PollEnter
    BY <1>2 DEF PollEnter, GuardInv, SpinGuard, sensorVars, escVars
<1>3. CASE RxFrame
    BY <1>3 DEF RxFrame, GuardInv, SpinGuard, sensorVars, escVars
<1>4. CASE Decide
    <2>1. g_sensor_ready' => g_mpu_cal_count' = CalTarget
        <3>1. CASE ~ProbeDue
            BY <1>4, <3>1 DEF Decide, SensorStep, GuardInv, sensorVars
        <3>2. CASE ProbeDue
            <4>1. PICK hmc \in HmcOutcomes, mpuReads \in MpuOutcomes : Probe(hmc, mpuReads)
                BY <1>4, <3>2 DEF Decide, SensorStep
            <4>2. g_sensor_ready' => g_mpu_cal_count' >= CalTarget
                BY <4>1 DEF Probe, ProbeOutcome, Calibrate, SensorReady
            <4>3. g_mpu_cal_count' \in 0..CalTarget
                BY StepType DEF TypeOK
            <4> QED BY <4>2, <4>3
        <3> QED BY <3>1, <3>2
    <2>2. g_rc_valid' <=> ~failsafe'
        BY <1>4 DEF Decide, CopyRc
    <2> QED BY <1>4, <2>1, <2>2 DEF Decide, GuardInv, SpinGuard, escVars
<1>5. CASE Gate
    <2>1. g_motor_output_enabled' =>
              /\ g_motor_armed' /\ g_rc_arm_latched' /\ g_rc_valid' /\ g_rc_arm_switch'
              /\ ~failsafe' /\ g_sensor_ready' /\ ~g_amp_emergency_stop_latched'
        BY <1>5, GateEnables
    <2> QED BY <1>5, <2>1 DEF Gate, GuardInv, SpinGuard, sensorVars, escVars
<1>6. CASE Apply
    <2>1. g_esc_arm_delay_done' => tick' - g_esc_arm_start_tick' >= EscDelay
        BY <1>6 DEF Apply, EscStep, EscElapsed, GuardInv, TypeOK
    <2>2. Spinning' => g_motor_armed /\ g_motor_output_enabled /\ g_esc_arm_delay_done'
        BY <1>6, ApplySpin
    <2>3. SpinGuard'
        BY <1>6, <2>1, <2>2
        DEF Apply, GuardInv, SpinGuard, sensorVars, rcVars, gateVars, motorVars, shmVars
    <2> QED BY <1>6, <2>1, <2>3 DEF Apply, GuardInv, sensorVars
<1>7. CASE InitShm \/ LinuxStep
    BY <1>7, <1>s, LinuxFrame DEF GuardInv, SpinGuard, taskVars, sensorVars, rcVars, gateVars,
                                  motorVars, escVars, shmVars
<1>8. CASE UNCHANGED vars
    BY <1>8, <1>s DEF vars, GuardInv, SpinGuard, sensorVars, rcVars, gateVars, motorVars,
                      escVars, shmVars
<1> QED BY <1>1, <1>2, <1>3, <1>4, <1>5, <1>6, <1>7, <1>8 DEF Next

\* Between polls a motor runs only when every condition of the safety
\* decision and of the ESC delay held.
THEOREM SpinGuardHolds == Spec => []SpinGuard
<1>1. Init => GuardInv
    BY DEF Init, GuardInv, SpinGuard, Spinning, AllIdle, MOTOR_PWM_IDLE_US, MOTOR_PWM_SAFE_US
<1>2. GuardInv => SpinGuard
    BY DEF GuardInv
<1> QED BY <1>1, <1>2, GuardStep, TypeCorrect, PTL DEF Spec
-----------------------------------------------------------------------------
\* With RxJitter = 0 every step keeps the link between loss and LOW.
LEMMA RearmStep == RxJitter = 0 /\ TypeOK /\ RearmInv /\ [Next]_vars => RearmInv'
<1> SUFFICES ASSUME RxJitter = 0, TypeOK, RearmInv, [Next]_vars PROVE RearmInv'
    OBVIOUS
<1> USE ConstantsAssumption
<1>1. CASE Tick
    BY <1>1 DEF Tick, TickLimit, TypeOK, RearmInv, RearmNeedsLow, Lost, Stale, NeverFresh,
                rxVars, rcVars, gateVars
<1>2. CASE PollEnter
    BY <1>2 DEF PollEnter, RearmInv, RearmNeedsLow, gateVars
<1>3. CASE RxFrame
    BY <1>3 DEF RxFrame, RearmInv, RearmNeedsLow, gateVars
<1>4. CASE Decide
    <2>1. failsafe' => Lost'
        BY <1>4 DEF Decide, CopyRc, RcFailsafe, RearmInv, Lost, Stale, NeverFresh, TypeOK, rxVars
    <2>2. g_rc_valid' <=> ~failsafe'
        BY <1>4 DEF Decide, CopyRc
    <2> QED BY <1>4, <2>1, <2>2 DEF Decide, RearmInv, RearmNeedsLow, rxVars, gateVars
<1>5. CASE Gate
    <2>1. failsafe \/ Lost => ~GateValid /\ Lost
        BY <1>5 DEF Gate, RearmInv, GateValid
    <2>2. g_rc_arm_latched' => low_since'
        BY <1>5, <2>1 DEF Gate, UpdateArmGate, RecordLow, Latch, GateOpen, ArmEdge, RearmInv,
                          RearmNeedsLow
    <2>3. g_rc_seen_arm_low' /\ ~g_rc_prev_arm_switch' => low_since'
        BY <1>5, <2>1 DEF Gate, UpdateArmGate, RecordLow, GateOpen
    <2> QED BY <1>5, <2>2, <2>3 DEF Gate, RearmInv, RearmNeedsLow, rxVars
<1>6. CASE Apply
    BY <1>6 DEF Apply, RearmInv, RearmNeedsLow, rxVars, gateVars
<1>7. CASE InitShm \/ LinuxStep
    BY <1>7, LinuxFrame DEF RearmInv, RearmNeedsLow, Lost, Stale, NeverFresh, taskVars, rxVars,
                            rcVars, gateVars
<1>8. CASE UNCHANGED vars
    BY <1>8 DEF vars, RearmInv, RearmNeedsLow, Lost, Stale, NeverFresh, rxVars, rcVars, gateVars
<1> QED BY <1>1, <1>2, <1>3, <1>4, <1>5, <1>6, <1>7, <1>8 DEF Next

\* When no tick passes between a poll's entry and the frames it drains, the
\* gate latches only after LOW was observed since boot, since the last RC
\* loss and since it last unlatched.  Without the assumption the two stamps
\* of a frame differ and the statement is false (run BringupRearmRace).
THEOREM RearmNeedsLowHolds == RxJitter = 0 => (Spec => []RearmNeedsLow)
<1> SUFFICES ASSUME RxJitter = 0 PROVE Spec => []RearmNeedsLow
    OBVIOUS
<1>1. Init => RearmInv
    BY DEF Init, RearmInv, RearmNeedsLow
<1>2. RearmInv => RearmNeedsLow
    BY DEF RearmInv
<1>3. TypeOK /\ RearmInv /\ [Next]_vars => RearmInv'
    BY RearmStep
<1> QED BY <1>1, <1>2, <1>3, TypeCorrect, PTL DEF Spec
-----------------------------------------------------------------------------
\* What the task reads as a stop is what the slot it looks for shows.
LEMMA VisibleStop ==
    /\ StopVisible <=> VisibleSlot.reason # 0
    /\ StopVisible => VisibleSlot = emergency_slot
    /\ StopVisible' <=> VisibleSlot'.reason # 0
    /\ StopVisible' => VisibleSlot' = emergency_slot'
BY DEF StopVisible, VisibleSlot, NoRegion, Blank, Contents

\* A step of Linux or an announcement starts the clock of a stop it brings,
\* and a stop with the recorded number was pending before.
LEMMA RecordStop ==
    ASSUME masked \in BOOLEAN, RecordSlot, StopPending', UNCHANGED g_amp_last_emergency_seq
    PROVE  /\ stop_at' = tick \/ (StopPending /\ stop_at' = stop_at)
           /\ ~NewEmergency' => StopPending /\ ~NewEmergency
<1>1. StopVisible' /\ ~masked'
    BY DEF StopPending
<1>2. CASE VisibleSlot' = VisibleSlot
    <2>1. StopVisible
        BY <1>1, <1>2, VisibleStop
    <2>2. emergency_slot' = emergency_slot
        BY <1>1, <1>2, <2>1, VisibleStop
    <2>3. masked' = masked /\ ~masked
        BY <1>1, <1>2 DEF RecordSlot
    <2>4. stop_at' = stop_at
        BY <1>1, <2>1, <2>3 DEF RecordSlot
    <2> QED BY <2>1, <2>2, <2>3, <2>4 DEF StopPending, NewEmergency
<1>3. CASE VisibleSlot' # VisibleSlot
    <2>1. emergency_slot'.seq # g_amp_last_emergency_seq
        BY <1>1, <1>3, VisibleStop DEF RecordSlot
    <2>2. stop_at' = tick \/ (StopPending /\ stop_at' = stop_at)
        BY <1>1 DEF RecordSlot, StopPending
    <2> QED BY <2>1, <2>2 DEF NewEmergency
<1> QED BY <1>2, <1>3

\* Steps of the task leave what Linux has written and announced.
LEMMA SlotFrame ==
    ASSUME UNCHANGED linuxVars
    PROVE  /\ RegionUsable' <=> RegionUsable
           /\ emergency_slot' = emergency_slot
           /\ StopPending' <=> StopPending
           /\ UNCHANGED g_amp_last_emergency_seq => /\ NewEmergency' <=> NewEmergency
                                                    /\ Withdrawn' <=> Withdrawn
BY DEF linuxVars, RegionUsable, emergency_slot, StopVisible, StopPending, NewEmergency, Withdrawn

\* Reading the slot records its number, and leaves a pending stop latched.
LEMMA ReadSlot ==
    ASSUME Decide, StopPending /\ ~NewEmergency => g_amp_emergency_stop_latched
    PROVE  /\ RegionUsable => ~NewEmergency'
           /\ StopPending => g_amp_emergency_stop_latched'
           /\ ~RegionUsable => UNCHANGED shmVars
           /\ UNCHANGED linuxVars
<1>1. UNCHANGED linuxVars
    BY DEF Decide
<1>2. RegionUsable => ~NewEmergency'
    BY <1>1, SlotFrame DEF Decide, ShmPoll, PollEmergency, NewEmergency
<1>3. StopPending => g_amp_emergency_stop_latched'
    BY DEF Decide, ShmPoll, PollEmergency, StopPending, StopVisible
<1>4. ~RegionUsable => UNCHANGED shmVars
    BY DEF Decide, ShmPoll
<1> QED BY <1>1, <1>2, <1>3, <1>4

\* Every step keeps the age of a stop that is not latched inside its bound.
LEMMA StopStep == TypeOK /\ TimeInv /\ StopInv /\ [Next]_vars => StopInv'
<1> SUFFICES ASSUME TypeOK, TimeInv, StopInv, [Next]_vars PROVE StopInv'
    OBVIOUS
<1> USE ConstantsAssumption
<1>s. duty' = duty => (Spinning' <=> Spinning)
    BY DEF Spinning
<1>1. CASE Tick
    BY <1>1, <1>s, SlotFrame DEF Tick, StopInv, motorVars, escVars, linuxVars, shmVars
<1>2. CASE PollEnter
    BY <1>2, <1>s, SlotFrame
    DEF PollEnter, StopInv, TimeInv, TypeOK, motorVars, escVars, linuxVars, shmVars
<1>3. CASE RxFrame
    BY <1>3, <1>s, SlotFrame DEF RxFrame, StopInv, motorVars, escVars, linuxVars, shmVars
<1>4. CASE Decide
    <2>1. StopPending' => g_amp_emergency_stop_latched'
        BY <1>4, ReadSlot, SlotFrame DEF StopInv
    <2> QED BY <1>4, <1>s, <2>1, ReadSlot, SlotFrame DEF Decide, StopInv, escVars, linuxVars
<1>5. CASE Gate
    BY <1>5, <1>s, SlotFrame, GateEnables DEF Gate, StopInv, escVars, linuxVars, shmVars
<1>6. CASE Apply
    <2>1. Spinning' => g_motor_output_enabled
        BY <1>6, ApplySpin
    <2> QED BY <1>6, <2>1, SlotFrame DEF Apply, StopInv, TypeOK, motorVars, linuxVars, shmVars
<1>7. CASE InitShm \/ LinuxStep
    <2>1. UNCHANGED <<tick, pc, now, duty, g_motor_output_enabled, g_amp_last_emergency_seq,
                      g_amp_emergency_stop_latched>>
        BY <1>7, LinuxFrame DEF taskVars, motorVars, escVars, shmVars
    <2>2. RecordSlot
        BY <1>7, LinuxRecords
    <2>3. StopPending' => stop_at' = tick \/ (StopPending /\ stop_at' = stop_at)
        BY <2>1, <2>2, RecordStop DEF TypeOK
    <2>4. StopPending' /\ ~NewEmergency' => StopPending /\ ~NewEmergency
        BY <2>1, <2>2, RecordStop DEF TypeOK
    <2>5. tick >= now /\ tick >= now - PollPeriod
        BY DEF TypeOK
    <2> QED BY <1>s, <2>1, <2>3, <2>4, <2>5 DEF StopInv
<1>8. CASE UNCHANGED vars
    BY <1>8, <1>s, SlotFrame DEF vars, StopInv, motorVars, escVars, linuxVars, shmVars
<1> QED BY <1>1, <1>2, <1>3, <1>4, <1>5, <1>6, <1>7, <1>8 DEF Next

\* A stop in the region the task reads stops the motors within one reaction
\* time of becoming visible and for as long as it is there, wherever in a poll
\* it lands and however often Linux starts again.
THEOREM EmergencyStopsInTimeHolds == Spec => []EmergencyStopsInTime
<1>1. Init => TimeInv /\ StopInv
    BY ConstantsAssumption
    DEF Init, TimeInv, StopInv, StopPending, StopVisible, RegionUsable, Spinning, AllIdle,
        MOTOR_PWM_IDLE_US, MOTOR_PWM_SAFE_US
<1>2. TypeOK /\ TimeInv /\ StopInv => EmergencyStopsInTime
    BY ConstantsAssumption DEF TypeOK, TimeInv, StopInv, EmergencyStopsInTime, Reaction
<1> QED BY <1>1, <1>2, TimeStep, StopStep, TypeCorrect, PTL DEF Spec

\* Every step keeps a held stop held until it is withdrawn.
LEMMA HeldStep == TypeOK /\ StopInv /\ HeldInv /\ [Next]_vars => HeldInv'
<1> SUFFICES ASSUME TypeOK, StopInv, HeldInv, [Next]_vars PROVE HeldInv'
    OBVIOUS
<1>s. duty' = duty => (Spinning' <=> Spinning)
    BY DEF Spinning
<1>1. CASE Tick \/ PollEnter \/ RxFrame
    BY <1>1, <1>s, SlotFrame
    DEF Tick, PollEnter, RxFrame, HeldInv, StopOutlastsSlot, motorVars, escVars, linuxVars, shmVars
<1>2. CASE Decide
    <2>1. stop_held' => g_amp_emergency_stop_latched'
        <3>1. CASE StopPending
            BY <1>2, <3>1, ReadSlot DEF StopInv
        <3>2. CASE ~StopPending
            <4>1. stop_held' => stop_held /\ g_amp_emergency_stop_latched /\ ~Withdrawn
                BY <1>2, <3>2 DEF Decide, HeldInv, StopOutlastsSlot
            <4> QED BY <1>2, <4>1
                    DEF Decide, ShmPoll, PollEmergency, Withdrawn, shmVars
        <3> QED BY <3>1, <3>2
    <2>2. stop_held' => ~Withdrawn'
        <3>1. RegionUsable' => ~NewEmergency'
            BY <1>2, ReadSlot, SlotFrame DEF StopInv
        <3> QED BY <3>1 DEF Withdrawn
    <2> QED BY <1>2, <2>1, <2>2 DEF Decide, HeldInv, StopOutlastsSlot
<1>3. CASE Gate
    BY <1>3, SlotFrame, GateEnables DEF Gate, HeldInv, StopOutlastsSlot, linuxVars, shmVars
<1>4. CASE Apply
    <2>1. Spinning' => g_motor_output_enabled
        BY <1>4, ApplySpin
    <2> QED BY <1>4, <2>1, SlotFrame DEF Apply, HeldInv, StopOutlastsSlot, linuxVars, shmVars
<1>5. CASE InitShm \/ LinuxStep
    <2>1. UNCHANGED <<pc, duty, g_motor_output_enabled, g_amp_emergency_stop_latched>>
        BY <1>5, LinuxFrame DEF taskVars, motorVars, escVars, shmVars
    <2>2. stop_held' => stop_held /\ ~Withdrawn'
        BY <1>5, LinuxRecords DEF RecordSlot
    <2> QED BY <1>s, <2>1, <2>2 DEF HeldInv, StopOutlastsSlot
<1>6. CASE UNCHANGED vars
    BY <1>6, <1>s, SlotFrame DEF vars, HeldInv, StopOutlastsSlot, motorVars, escVars, linuxVars,
                                 shmVars
<1> QED BY <1>1, <1>2, <1>3, <1>4, <1>5, <1>6 DEF Next

\* A stop that a poll has read keeps the motors at rest whatever happens to
\* the slot, until the task can read a slot that withdraws it.
THEOREM StopOutlastsSlotHolds == Spec => []StopOutlastsSlot
<1>1. Init => TimeInv /\ StopInv /\ HeldInv
    BY ConstantsAssumption
    DEF Init, TimeInv, StopInv, HeldInv, StopOutlastsSlot, StopPending, StopVisible, RegionUsable,
        Spinning, AllIdle, MOTOR_PWM_IDLE_US, MOTOR_PWM_SAFE_US
<1>2. HeldInv => StopOutlastsSlot
    BY DEF HeldInv
<1> QED BY <1>1, <1>2, TimeStep, StopStep, HeldStep, TypeCorrect, PTL DEF Spec
-----------------------------------------------------------------------------
\* amp_config_float_to_div stays between its limits when its fallback does.
LEMMA FloatToDivRange ==
    ASSUME NEW v \in Nat \cup {NaN}, NEW lo \in Nat, NEW hi \in Nat, lo <= hi,
           NEW f \in lo..hi, NEW r \in FloatToDiv(v, f, lo, hi)
    PROVE  r \in lo..hi
BY DEF FloatToDiv, clamp_i32, NaN

\* A config moves the gains inside their ranges, whatever it holds.
LEMMA ApplyConfigRange ==
    ASSUME TypeOK, GainsInRange, NEW h \in ApplyConfig(gains, config_slot.payload)
    PROVE  /\ h.deadzone \in AMP_CONFIG_DEADZONE_MIN_US..AMP_CONFIG_DEADZONE_MAX_US
           /\ {h.roll, h.pitch, h.yaw} \subseteq AMP_CONFIG_RATE_DIV_MIN..AMP_CONFIG_RATE_DIV_MAX
           /\ h.angle \in AMP_CONFIG_ANGLE_DIV_MIN..AMP_CONFIG_ANGLE_DIV_MAX
<1> DEFINE c == config_slot.payload
<1>1. PICK rate \in FloatToDiv(c.rate, gains.roll, AMP_CONFIG_RATE_DIV_MIN,
                               AMP_CONFIG_RATE_DIV_MAX),
           angle \in FloatToDiv(c.angle, gains.angle, AMP_CONFIG_ANGLE_DIV_MIN,
                                AMP_CONFIG_ANGLE_DIV_MAX) :
        h = [deadzone |-> IF c.deadzone = 0 THEN gains.deadzone
                          ELSE clamp_i32(c.deadzone, AMP_CONFIG_DEADZONE_MIN_US,
                                         AMP_CONFIG_DEADZONE_MAX_US),
             roll |-> rate, pitch |-> rate, yaw |-> rate, angle |-> angle]
    BY DEF ApplyConfig
<1>2. c.deadzone \in Nat /\ c.rate \in Nat \cup {NaN} /\ c.angle \in Nat \cup {NaN}
    BY SlotTypes
<1>3. rate \in AMP_CONFIG_RATE_DIV_MIN..AMP_CONFIG_RATE_DIV_MAX
    <2>1. /\ AMP_CONFIG_RATE_DIV_MIN \in Nat /\ AMP_CONFIG_RATE_DIV_MAX \in Nat
          /\ AMP_CONFIG_RATE_DIV_MIN <= AMP_CONFIG_RATE_DIV_MAX
        BY DEF AMP_CONFIG_RATE_DIV_MIN, AMP_CONFIG_RATE_DIV_MAX
    <2>2. gains.roll \in AMP_CONFIG_RATE_DIV_MIN..AMP_CONFIG_RATE_DIV_MAX
        BY DEF GainsInRange
    <2> QED BY <1>1, <1>2, <2>1, <2>2, FloatToDivRange
<1>4. angle \in AMP_CONFIG_ANGLE_DIV_MIN..AMP_CONFIG_ANGLE_DIV_MAX
    <2>1. /\ AMP_CONFIG_ANGLE_DIV_MIN \in Nat /\ AMP_CONFIG_ANGLE_DIV_MAX \in Nat
          /\ AMP_CONFIG_ANGLE_DIV_MIN <= AMP_CONFIG_ANGLE_DIV_MAX
        BY DEF AMP_CONFIG_ANGLE_DIV_MIN, AMP_CONFIG_ANGLE_DIV_MAX
    <2>2. gains.angle \in AMP_CONFIG_ANGLE_DIV_MIN..AMP_CONFIG_ANGLE_DIV_MAX
        BY DEF GainsInRange
    <2> QED BY <1>1, <1>2, <2>1, <2>2, FloatToDivRange
<1>5. h.deadzone \in AMP_CONFIG_DEADZONE_MIN_US..AMP_CONFIG_DEADZONE_MAX_US
    <2>1. h.deadzone = IF c.deadzone = 0 THEN gains.deadzone
                       ELSE clamp_i32(c.deadzone, AMP_CONFIG_DEADZONE_MIN_US,
                                      AMP_CONFIG_DEADZONE_MAX_US)
        BY <1>1
    <2> QED BY <1>2, <2>1 DEF GainsInRange, clamp_i32, AMP_CONFIG_DEADZONE_MIN_US,
                              AMP_CONFIG_DEADZONE_MAX_US
<1> QED BY <1>1, <1>3, <1>4, <1>5

\* No sequence of configs, out of range or NaN, takes a gain out of the range
\* the control loops divide by.
THEOREM GainsInRangeHolds == Spec => []GainsInRange
<1>1. Init => GainsInRange
    <2>1. /\ BootGains.deadzone = 20 /\ BootGains.roll = 12 /\ BootGains.pitch = 12
          /\ BootGains.yaw = 16 /\ BootGains.angle = 180
        BY DEF BootGains
    <2> QED BY <2>1 DEF Init, GainsInRange, AMP_CONFIG_DEADZONE_MIN_US,
               AMP_CONFIG_DEADZONE_MAX_US, AMP_CONFIG_RATE_DIV_MIN, AMP_CONFIG_RATE_DIV_MAX,
               AMP_CONFIG_ANGLE_DIV_MIN, AMP_CONFIG_ANGLE_DIV_MAX
<1>2. TypeOK /\ GainsInRange /\ [Next]_vars => GainsInRange'
    <2> SUFFICES ASSUME TypeOK, GainsInRange, [Next]_vars PROVE GainsInRange'
        OBVIOUS
    <2>1. gains' = gains \/ gains' \in ApplyConfig(gains, config_slot.payload)
        BY LinuxFrame
        DEF Next, vars, Tick, PollEnter, RxFrame, Decide, ShmPoll, PollConfig, Gate, Apply,
            taskVars, shmVars
    <2> QED BY <2>1, ApplyConfigRange DEF GainsInRange
<1> QED BY <1>1, <1>2, TypeCorrect, PTL DEF Spec
=============================================================================
