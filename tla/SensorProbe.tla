---------------------------- MODULE SensorProbe -----------------------------
(***************************************************************************)
(* amp_i2c_probe_once of comm_main.c, one bus transaction at a time: the   *)
(* identities, setup and reading of the compass and of the gyro, then      *)
(* calibration, correction, attitude and level trim.  Any transaction may  *)
(* fail.  A failing write may have reached the sensor all the same, and a  *)
(* reading of the compass may have overflowed.  Of the six axes of the     *)
(* gyro chip, rate stands for the three of the gyro.                       *)
(***************************************************************************)
EXTENDS FlightMath

CONSTANTS CalTarget,   \* MPU_CAL_TARGET_COUNT
          Gyro,        \* which of its two addresses the gyro chip is strapped to
          RestRates,   \* what the gyro reads at rest
          FlightRates, \* what it reads once the craft is picked up
          Tilts,       \* what the accelerometer reads then
          Sticks,      \* channel values of the pilot
          GainSets,    \* gains that a config may have set
          MaxFaults    \* bound on failing transactions and overflows

\* What a register pair of the gyro chip holds.
INT16_MIN == -32768
INT16_MAX == 32767
Int16 == INT16_MIN..INT16_MAX

\* Gains that pass the range check of a config, see GainsInRange of BringupLoop.
ConfigGains ==
    [deadzone : AMP_CONFIG_DEADZONE_MIN_US..AMP_CONFIG_DEADZONE_MAX_US,
     roll : AMP_CONFIG_RATE_DIV_MIN..AMP_CONFIG_RATE_DIV_MAX,
     pitch : AMP_CONFIG_RATE_DIV_MIN..AMP_CONFIG_RATE_DIV_MAX,
     yaw : AMP_CONFIG_RATE_DIV_MIN..AMP_CONFIG_RATE_DIV_MAX,
     angle : AMP_CONFIG_ANGLE_DIV_MIN..AMP_CONFIG_ANGLE_DIV_MAX]

ASSUME SensorProbeAssumption ==
    /\ CalTarget \in Nat \ {0} /\ MaxFaults \in Nat
    /\ Gyro \in {1, 2}
    /\ RestRates \subseteq Int16 /\ FlightRates \subseteq Int16
    /\ Tilts \subseteq [x : Int16, y : Int16, z : Int16]
    /\ Sticks \subseteq Nat /\ GainSets \subseteq ConfigGains

VARIABLES
    pc,             \* the next transaction, or "idle" between probes
    n,              \* its number in a series of reads or writes
    id_ok,          \* the identity bytes so far are the compass's
    g_hmc_ok, g_hmc_data_ok, g_hmc_cfg_done,
    g_mpu_ok, g_mpu_data_ok, g_mpu_cfg_done, g_mpu_addr_found,
    g_mpu,          \* g_mpu_ax..g_mpu_gz: the accelerometer and a rate
    g_mpu_cal_count, g_mpu_cal_done, gyro_sum, gyro_bias,
    g_sensor_ready, g_att_ok,
    g_level_trim_done, g_level, g_body,
    compass_regs, gyro_regs,   \* the sensors: the setup registers written
    moved,          \* the craft: picked up since power on
    faults,
    ready_before,   \* history: g_sensor_ready when the running probe began
    read            \* history: the sensors read in the last probe

hmcVars == <<id_ok, g_hmc_ok, g_hmc_data_ok, g_hmc_cfg_done, compass_regs>>
mpuVars == <<g_mpu_ok, g_mpu_data_ok, g_mpu_cfg_done, g_mpu_addr_found, g_mpu, gyro_regs>>
calVars == <<g_mpu_cal_count, g_mpu_cal_done, gyro_sum, gyro_bias>>
bodyVars == <<g_sensor_ready, g_att_ok, g_level_trim_done, g_level, g_body>>
vars == <<pc, n, hmcVars, mpuVars, calVars, bodyVars, moved, faults, ready_before, read>>

HMC_SETUP == 1..3     \* CFG_A, CFG_B, MODE
MPU_SETUP == 1..5     \* PWR_MGMT_1, SMPLRT_DIV, CONFIG, GYRO_CONFIG, ACCEL_CONFIG
Level == [x |-> 0, y |-> 0, z |-> 8]
NoReading == [acc |-> [x |-> 0, y |-> 0, z |-> 0], rate |-> 0]
LevelAt(acc) == [roll |-> Roll(acc), pitch |-> Pitch(acc)]

Init ==
    /\ pc = "idle" /\ n = 1 /\ id_ok = FALSE
    /\ g_hmc_ok = FALSE /\ g_hmc_data_ok = FALSE /\ g_hmc_cfg_done = FALSE
    /\ g_mpu_ok = FALSE /\ g_mpu_data_ok = FALSE /\ g_mpu_cfg_done = FALSE
    /\ g_mpu_addr_found = 0 /\ g_mpu = NoReading
    /\ g_mpu_cal_count = 0 /\ g_mpu_cal_done = FALSE /\ gyro_sum = 0 /\ gyro_bias = 0
    /\ g_sensor_ready = FALSE /\ g_att_ok = FALSE
    /\ g_level_trim_done = FALSE /\ g_level = [roll |-> 0, pitch |-> 0]
    /\ g_body = [roll |-> 0, pitch |-> 0, rate |-> 0]
    /\ compass_regs = {} /\ gyro_regs = {}
    /\ moved = FALSE /\ faults = 0
    /\ ready_before = FALSE /\ read = {}

\* A transaction succeeds, or is one of the bounded number that fail.
Outcome(ok) ==
    \/ ok /\ UNCHANGED faults
    \/ ~ok /\ faults < MaxFaults /\ faults' = faults + 1
-----------------------------------------------------------------------------
(* The probe and the compass.                                              *)
Clear ==
    /\ g_hmc_ok' = FALSE /\ g_hmc_data_ok' = FALSE
    /\ g_mpu_ok' = FALSE /\ g_mpu_data_ok' = FALSE
    /\ g_sensor_ready' = FALSE /\ g_att_ok' = FALSE

\* amp_i2c_probe_once, up to its first transaction.
StartProbe ==
    /\ pc = "idle"
    /\ pc' = "hmc_id" /\ n' = 1 /\ id_ok' = TRUE
    /\ Clear
    /\ ready_before' = g_sensor_ready
    /\ read' = {}
    /\ UNCHANGED <<g_hmc_cfg_done, compass_regs, g_mpu_cfg_done, g_mpu_addr_found, g_mpu,
                   gyro_regs, calVars, g_level_trim_done, g_level, g_body, moved, faults>>

\* One of the three identity bytes: the right one, another or none.  A probe
\* that ends early calls sensor_update_corrected_once, which then leaves the
\* cleared g_sensor_ready and g_att_ok as they are; so does every other end
\* of a probe without a reading of the gyro.
ReadId(byte) ==
    /\ pc = "hmc_id"
    /\ Outcome(byte = "right")
    /\ id_ok' = (id_ok /\ byte = "right")
    /\ n' = IF byte # "none" /\ n < 3 THEN n + 1 ELSE 1
    /\ pc' = IF byte = "none" THEN "idle"
             ELSE IF n < 3 THEN "hmc_id"
             ELSE IF ~id_ok' THEN "mpu_who"
             ELSE IF g_hmc_cfg_done THEN "hmc_read" ELSE "hmc_setup"
    /\ g_hmc_ok' = (n = 3 /\ id_ok')
    /\ UNCHANGED <<g_hmc_data_ok, g_hmc_cfg_done, compass_regs, mpuVars, calVars, bodyVars,
                   moved, ready_before, read>>

\* The setup of a sensor is remembered as done after its last write.
\* Mutant: after its first one, the wake-up.
SetupDoneEarly(ok, last) == ok
SetupDone(ok, last) == ok /\ n = last

\* hmc5883l_config_once: one of its writes.
SetupHmc(ok) ==
    /\ pc = "hmc_setup"
    /\ Outcome(ok)
    /\ compass_regs' \in {compass_regs \cup {n}} \cup (IF ok THEN {} ELSE {compass_regs})
    /\ n' = IF ok /\ n < 3 THEN n + 1 ELSE 1
    /\ pc' = IF ~ok THEN "mpu_who" ELSE IF n < 3 THEN "hmc_setup" ELSE "hmc_read"
    /\ g_hmc_cfg_done' = (g_hmc_cfg_done \/ SetupDone(ok, 3))
    /\ UNCHANGED <<id_ok, g_hmc_ok, g_hmc_data_ok, mpuVars, calVars, bodyVars,
                   moved, ready_before, read>>

\* hmc5883l_read_raw_once: data, or a failed read or an overflowed axis.
ReadHmc(ok) ==
    /\ pc = "hmc_read"
    /\ Outcome(ok)
    /\ g_hmc_data_ok' = ok
    /\ read' = IF ok THEN read \cup {"compass"} ELSE read
    /\ pc' = "mpu_who" /\ n' = 1
    /\ UNCHANGED <<id_ok, g_hmc_ok, g_hmc_cfg_done, compass_regs, mpuVars, calVars, bodyVars,
                   moved, ready_before>>
-----------------------------------------------------------------------------
(* The gyro.  While the chip is looked for, n is the address, the first or *)
(* the second; while it is set up, the register.                           *)

\* What follows an identity read at address n.
\* Mutant: the second address is not tried.
AfterWhoFirstOnly(ok) ==
    IF ~ok THEN "idle" ELSE IF g_mpu_cfg_done THEN "mpu_read" ELSE "mpu_setup"

AfterWho(ok) ==
    IF ~ok THEN (IF n = 1 THEN "mpu_who" ELSE "idle")
    ELSE IF g_mpu_cfg_done /\ g_mpu_addr_found' = n THEN "mpu_read" ELSE "mpu_setup"

WhoAmI(ok) ==
    /\ pc = "mpu_who"
    /\ IF n = Gyro THEN Outcome(ok) ELSE ~ok /\ UNCHANGED faults
    /\ g_mpu_ok' = ok
    /\ g_mpu_addr_found' = IF ok THEN n ELSE g_mpu_addr_found
    /\ pc' = AfterWho(ok)
    /\ n' = IF pc' = "mpu_who" THEN 2 ELSE 1
    /\ UNCHANGED <<hmcVars, g_mpu_data_ok, g_mpu_cfg_done, g_mpu, gyro_regs, calVars,
                   bodyVars, moved, ready_before, read>>

\* mpu6050_config_once: one of its writes.
SetupMpu(ok) ==
    /\ pc = "mpu_setup"
    /\ Outcome(ok)
    /\ gyro_regs' \in {gyro_regs \cup {n}} \cup (IF ok THEN {} ELSE {gyro_regs})
    /\ n' = IF ok /\ n < 5 THEN n + 1 ELSE 1
    /\ pc' = IF ~ok THEN "idle" ELSE IF n < 5 THEN "mpu_setup" ELSE "mpu_read"
    /\ g_mpu_cfg_done' = (g_mpu_cfg_done \/ SetupDone(ok, 5))
    /\ UNCHANGED <<hmcVars, g_mpu_ok, g_mpu_data_ok, g_mpu_addr_found, g_mpu, calVars,
                   bodyVars, moved, ready_before, read>>

\* Calibration is done at the target.  Mutant: one sample later.
CalDoneLate(count) == count > CalTarget
CalDone(count) == count >= CalTarget

\* mpu6050_cal_update_once, with the reading that has just arrived.
CalUpdate ==
    LET count == g_mpu_cal_count + 1
        sum == gyro_sum + g_mpu'.rate
    IN  IF g_mpu_cal_done
        THEN UNCHANGED calVars
        ELSE /\ g_mpu_cal_count' = count
             /\ gyro_sum' = sum
             /\ g_mpu_cal_done' = CalDone(count)
             /\ gyro_bias' = IF CalDone(count) THEN Quot(sum, count) ELSE gyro_bias

\* sensor_update_corrected_once
\* Mutant: calibration need not be done.
CorrectedReadyUncalibrated == g_hmc_ok /\ g_hmc_data_ok /\ g_mpu_ok /\ g_mpu_data_ok'
CorrectedReady == g_hmc_ok /\ g_hmc_data_ok /\ g_mpu_ok /\ g_mpu_data_ok' /\ g_mpu_cal_done'

\* attitude_update_debug_once and body_axis_update_once
UpdateBody ==
    IF g_sensor_ready'
    THEN /\ g_att_ok' = TRUE
         /\ g_level_trim_done' = TRUE
         /\ g_level' = IF g_level_trim_done THEN g_level ELSE LevelAt(g_mpu'.acc)
         /\ g_body' = [roll |-> BodyRoll(g_mpu'.acc, g_level'),
                       pitch |-> BodyPitch(g_mpu'.acc, g_level'),
                       rate |-> g_mpu'.rate - gyro_bias']
    ELSE /\ g_att_ok' = FALSE
         /\ UNCHANGED <<g_level_trim_done, g_level, g_body>>

\* What the chip measures: a craft at rest until it is picked up.
Readings ==
    IF moved THEN [acc : Tilts, rate : FlightRates]
    ELSE [acc : {Level}, rate : RestRates]

\* mpu6050_read_raw_once succeeds, and the rest of the probe.
ReadMpu(reading) ==
    /\ pc = "mpu_read"
    /\ g_mpu' = reading
    /\ g_mpu_data_ok' = TRUE
    /\ CalUpdate
    /\ g_sensor_ready' = CorrectedReady
    /\ UpdateBody
    /\ read' = read \cup {"gyro"}
    /\ pc' = "idle" /\ n' = 1
    /\ UNCHANGED <<hmcVars, g_mpu_ok, g_mpu_cfg_done, g_mpu_addr_found, gyro_regs, moved,
                   faults, ready_before>>

\* mpu6050_read_raw_once fails.
MissMpu ==
    /\ pc = "mpu_read"
    /\ Outcome(FALSE)
    /\ pc' = "idle" /\ n' = 1
    /\ UNCHANGED <<hmcVars, mpuVars, calVars, bodyVars, moved, ready_before, read>>

\* Somebody picks the craft up.  It is placed level and left alone until
\* the gyro has been calibrated.
PickUp ==
    /\ g_mpu_cal_done /\ ~moved
    /\ moved' = TRUE
    /\ UNCHANGED <<pc, n, hmcVars, mpuVars, calVars, bodyVars, faults, ready_before, read>>

Probe ==
    \/ StartProbe
    \/ \E byte \in {"right", "wrong", "none"} : ReadId(byte)
    \/ \E ok \in BOOLEAN : SetupHmc(ok) \/ ReadHmc(ok) \/ WhoAmI(ok) \/ SetupMpu(ok)
    \/ \E reading \in Readings : ReadMpu(reading)
    \/ MissMpu

Next == Probe \/ PickUp

Spec == Init /\ [][Next]_vars

\* The poll loop probes again and again.
FairSpec == Spec /\ WF_vars(Probe)
-----------------------------------------------------------------------------
\* The flags, counters and values have their ranges.
TypeOK ==
    /\ pc \in {"idle", "hmc_id", "hmc_setup", "hmc_read", "mpu_who", "mpu_setup", "mpu_read"}
    /\ n \in 1..5 /\ faults \in 0..MaxFaults
    /\ {id_ok, g_hmc_ok, g_hmc_data_ok, g_hmc_cfg_done, g_mpu_ok, g_mpu_data_ok,
        g_mpu_cfg_done, g_mpu_cal_done, g_sensor_ready, g_att_ok, g_level_trim_done,
        moved, ready_before} \subseteq BOOLEAN
    /\ g_mpu_addr_found \in 0..2 /\ g_mpu_cal_count \in 0..CalTarget
    /\ compass_regs \subseteq HMC_SETUP /\ gyro_regs \subseteq MPU_SETUP
    /\ read \subseteq {"compass", "gyro"}
    /\ DOMAIN g_body = {"roll", "pitch", "rate"}

(* When a probe leaves g_sensor_ready set, the poll may fly on its data:   *)
(* both sensors were read in that probe, after their whole setup, the body *)
(* rate and attitude are those of the reading, and the bias lies among the *)
(* rates at rest, whatever failed before, in whichever probe the setup was *)
(* interrupted and over however many probes the samples were spread.       *)
ReadyIsCurrent ==
    pc = "idle" /\ g_sensor_ready =>
        /\ read = {"compass", "gyro"}
        /\ compass_regs = HMC_SETUP /\ gyro_regs = MPU_SETUP
        /\ g_att_ok
        /\ g_body.rate + gyro_bias = g_mpu.rate
        /\ \E lo, hi \in RestRates : lo <= gyro_bias /\ gyro_bias <= hi
        /\ g_level = LevelAt(g_mpu.acc) => g_body.roll = 0 /\ g_body.pitch = 0

(* BringupLoop may take a whole probe as one step with an outcome: nobody  *)
(* looks at g_sensor_ready while the probe runs.                           *)
Outcomes == INSTANCE SensorOutcome
                WITH g_sensor_ready <- IF pc = "idle" THEN g_sensor_ready ELSE ready_before
ProbeHasOutcome == Outcomes!SensorSpec

(* Once transactions stop failing, every probe ends with data to fly with: *)
(* no partial setup and no interrupted calibration is left stuck.          *)
SensorsRecover == <>[](pc = "idle" => g_sensor_ready)

(* The integer attitude follows the craft: of two readings the one that    *)
(* leans further has the larger angle, and 45 degrees are 4500, for roll   *)
(* and for pitch, whose root must be exact.  (y, z) with z > 0 is a craft  *)
(* that is not upside down.                                                *)
AttitudeFollowsTilt ==
    pc = "idle" /\ g_sensor_ready =>
        LET acc == g_mpu.acc
        IN  /\ \A t \in Tilts :
                  /\ acc.z > 0 /\ t.z > 0 /\ acc.y * t.z >= t.y * acc.z
                        => g_body.roll >= BodyRoll(t, g_level)
                  /\ acc.y = t.y /\ acc.z = t.z /\ acc.x >= t.x
                        => g_body.pitch >= BodyPitch(t, g_level)
            /\ acc.y = acc.z /\ acc.z > 0 => g_body.roll + g_level.roll = 4500
            /\ acc.x > 0 /\ acc.x * acc.x = acc.y * acc.y + acc.z * acc.z
                  => g_body.pitch - g_level.pitch = 4500

\* Where the pilot's stick of an axis points, and what the craft does.
Demand(axis, us) == IF axis = "pitch" THEN RC_MID_US - us ELSE us - RC_MID_US
BodyAngle(axis) == IF axis = "yaw" THEN 0 ELSE g_body[axis]
BodyRate(axis) == IF axis = "pitch" THEN BODY_PITCH_SIGN * g_body.rate ELSE g_body.rate

(* What the control loops make of the probe, for every stick and gain at   *)
(* the borders of dead zone, clamp and truncation.  The correction stays   *)
(* inside what BringupLoop and the mixer take for granted.  With the stick *)
(* at rest it never pushes a craft further that leans and turns one way;   *)
(* outside the dead zone no stick is rounded away, and a craft that does   *)
(* not turn yet is not pushed against the stick, however it leans.         *)
CorrectionSound ==
    pc = "idle" /\ g_sensor_ready =>
        \A axis \in {"roll", "pitch", "yaw"}, us \in Sticks, g \in GainSets :
            LET correction == Pid(axis, us, BodyRate(axis), BodyAngle(axis), g)
                demand == Demand(axis, us)
                centred == demand > -g.deadzone /\ demand < g.deadzone
            IN  /\ correction \in -RATE_PID_MAX_CORR_US..RATE_PID_MAX_CORR_US
                /\ centred /\ BodyRate(axis) >= 0 /\ BodyAngle(axis) >= 0 => correction <= 0
                /\ centred /\ BodyRate(axis) <= 0 /\ BodyAngle(axis) <= 0 => correction >= 0
                /\ ~centred => /\ demand * RateSetpoint(axis, us, g.deadzone) > 0
                               /\ BodyRate(axis) = 0 => demand * correction >= 0
=============================================================================
