----------------------------- MODULE MotorMath -----------------------------
(***************************************************************************)
(* The arithmetic between the pilot's throttle and the four ESC pulses in  *)
(* comm_main.c: the active-throttle floor, the X mixer, the static trim    *)
(* with its minimum spin, and the range check of the gains that Linux may  *)
(* configure.  Everything is in microseconds.  The corrections of the rate *)
(* and angle loops enter as the clamped triple the mixer receives.         *)
(***************************************************************************)
EXTENDS Integers

Motors == 0..3

MOTOR_PWM_MIN_US == 1000
MOTOR_PWM_IDLE_US == 1000
MOTOR_PWM_SAFE_US == 1000
MOTOR_PWM_MAX_US == 2000
MOTOR_TEST_MAX_US == 1500
MOTOR_MIN_SPIN_APPLY_US == 1010
CONTROL_MIN_ACTIVE_THROTTLE_US == 1250
RATE_PID_MAX_CORR_US == 40

g_motor_trim_us == [m \in Motors |-> IF m \in {0, 3} THEN 10 ELSE 0]
g_motor_min_spin_us == [m \in Motors |-> IF m = 1 THEN 1235 ELSE 1220]

clamp_i32(v, lo, hi) == IF v < lo THEN lo ELSE IF v > hi THEN hi ELSE v

\* The corrections that leave control_update_pid_once: each axis is clamped.
PidCorrections ==
    [roll : -RATE_PID_MAX_CORR_US..RATE_PID_MAX_CORR_US,
     pitch : -RATE_PID_MAX_CORR_US..RATE_PID_MAX_CORR_US,
     yaw : -RATE_PID_MAX_CORR_US..RATE_PID_MAX_CORR_US]

\* control_apply_active_throttle_floor_once: any throttle above idle is
\* raised to the active floor, and none exceeds the test ceiling.
ActiveThrottle(throttle) ==
    LET raised == IF /\ throttle > MOTOR_PWM_IDLE_US
                     /\ throttle < CONTROL_MIN_ACTIVE_THROTTLE_US
                  THEN CONTROL_MIN_ACTIVE_THROTTLE_US
                  ELSE throttle
    IN  IF raised > MOTOR_TEST_MAX_US THEN MOTOR_TEST_MAX_US ELSE raised

\* control_update_mixer_once: motors 0..3 are LF, RF, RR and LB.
Torque(pid, m) ==
    IF m = 0 THEN pid.pitch + pid.roll - pid.yaw
    ELSE IF m = 1 THEN pid.pitch - pid.roll + pid.yaw
    ELSE IF m = 2 THEN -pid.pitch - pid.roll - pid.yaw
    ELSE -pid.pitch + pid.roll + pid.yaw

Mix(throttle, pid, m) ==
    clamp_i32(clamp_i32(throttle, MOTOR_PWM_MIN_US, MOTOR_TEST_MAX_US)
                + Torque(pid, m),
              MOTOR_PWM_MIN_US, MOTOR_TEST_MAX_US)

\* motor_apply_trim_i32; the configured trims and minimum spins lie inside
\* the ranges the code clamps them to.
ApplyTrim(throttle, us, m) ==
    LET trimmed == us + g_motor_trim_us[m]
        spun == IF /\ throttle >= MOTOR_MIN_SPIN_APPLY_US
                   /\ trimmed < g_motor_min_spin_us[m]
                THEN g_motor_min_spin_us[m]
                ELSE trimmed
    IN  clamp_i32(spun, MOTOR_PWM_MIN_US, MOTOR_TEST_MAX_US)

\* motor_update_control_outputs on its normal path: g_motor_pwm_us.
MotorPwm(throttle, pid) ==
    LET t == ActiveThrottle(throttle)
    IN  [m \in Motors |-> ApplyTrim(t, Mix(t, pid, m), m)]

\* motor_set_all(MOTOR_PWM_IDLE_US).
AllIdle == [m \in Motors |-> MOTOR_PWM_IDLE_US]
-----------------------------------------------------------------------------
AMP_CONFIG_DEADZONE_MIN_US == 5
AMP_CONFIG_DEADZONE_MAX_US == 80
AMP_CONFIG_RATE_DIV_MIN == 8
AMP_CONFIG_RATE_DIV_MAX == 80
AMP_CONFIG_ANGLE_DIV_MIN == 100
AMP_CONFIG_ANGLE_DIV_MAX == 1200

\* The controller's configurable gains, and the values they boot with.
Gains == [deadzone : Nat, roll : Nat, pitch : Nat, yaw : Nat, angle : Nat]
BootGains == [deadzone |-> 20, roll |-> 12, pitch |-> 12, yaw |-> 16, angle |-> 180]

\* amp_config_float_to_div.  A NaN passes both comparisons and is cast to an
\* unsigned integer, which C leaves undefined; the clamp then leaves one of
\* the two ends of the range.  Other floats are taken as whole numbers.
NaN == -1
\* Mutant: the upper end of the range is not tested.
FloatToDivOpen(v, fallback, lo, hi) ==
    IF v = NaN THEN {lo, hi} ELSE IF v < lo THEN {fallback} ELSE {v}

FloatToDiv(v, fallback, lo, hi) ==
    IF v = NaN THEN {lo, hi}
    ELSE IF v < lo \/ v > hi THEN {fallback}
    ELSE {clamp_i32(v, lo, hi)}

\* The body of amp_shared_region_poll_once for a new config slot: the set of
\* gains it may leave.  All three rate divisors take the one result, whose
\* fallback is the roll divisor.
ApplyConfig(g, c) ==
    {[deadzone |-> IF c.deadzone = 0 THEN g.deadzone
                   ELSE clamp_i32(c.deadzone, AMP_CONFIG_DEADZONE_MIN_US,
                                  AMP_CONFIG_DEADZONE_MAX_US),
      roll |-> rate, pitch |-> rate, yaw |-> rate, angle |-> angle] :
        rate \in FloatToDiv(c.rate, g.roll, AMP_CONFIG_RATE_DIV_MIN,
                            AMP_CONFIG_RATE_DIV_MAX),
        angle \in FloatToDiv(c.angle, g.angle, AMP_CONFIG_ANGLE_DIV_MIN,
                             AMP_CONFIG_ANGLE_DIV_MAX)}
=============================================================================
