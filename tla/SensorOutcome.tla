--------------------------- MODULE SensorOutcome ---------------------------
(***************************************************************************)
(* What a poll of the bring-up firmware sees of its sensors: how many gyro *)
(* samples count towards calibration, and whether the last probe left data *)
(* to fly with.  BringupLoop uses this; SensorProbe implements it.         *)
(***************************************************************************)
EXTENDS Naturals

CONSTANT CalTarget     \* MPU_CAL_TARGET_COUNT
VARIABLES g_mpu_cal_count, g_sensor_ready

\* What a probe of the compass may find: no answer to an identity read; a
\* wrong identity, a failed setup or read or an overflowed axis; or data.
HmcOutcomes == {"absent", "bad", "ok"}

\* What a probe of the gyro may find: data at one of its two addresses, or
\* no identity, a failed setup or a failed read.
MpuOutcomes == BOOLEAN

\* Mutant: samples are counted after calibration is done.
CalibratePastTarget(sampled) == IF sampled THEN g_mpu_cal_count + 1 ELSE g_mpu_cal_count

\* mpu6050_cal_update_once: the samples counted towards calibration.
Calibrate(sampled) ==
    IF sampled /\ g_mpu_cal_count < CalTarget THEN g_mpu_cal_count + 1 ELSE g_mpu_cal_count

\* sensor_update_corrected_once.
SensorReady(hmc, sampled, count) == hmc = "ok" /\ sampled /\ count >= CalTarget

\* amp_i2c_probe_once.  The compass is probed first and ends the probe when
\* its identity cannot be read; gyro samples count towards calibration
\* whether or not the compass gave data.
ProbeOutcome(hmc, mpuReads) ==
    LET sampled == hmc # "absent" /\ mpuReads
    IN  /\ g_mpu_cal_count' = Calibrate(sampled)
        /\ g_sensor_ready' = SensorReady(hmc, sampled, Calibrate(sampled))

SensorInit == g_mpu_cal_count = 0 /\ g_sensor_ready = FALSE

SensorNext == \E hmc \in HmcOutcomes, mpuReads \in MpuOutcomes : ProbeOutcome(hmc, mpuReads)

SensorSpec == SensorInit /\ [][SensorNext]_<<g_mpu_cal_count, g_sensor_ready>>
=============================================================================
