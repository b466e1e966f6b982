----------------------------- MODULE FlightMath -----------------------------
(***************************************************************************)
(* The arithmetic of comm_main.c between the sensors, the sticks and the   *)
(* corrections that the mixer of MotorMath receives: attitude from the     *)
(* accelerometer without a math library, setpoints from the sticks, and    *)
(* the rate and angle loops.  Angles are hundredths of a degree, rates are *)
(* raw gyro units, corrections are microseconds.                           *)
(***************************************************************************)
EXTENDS MotorMath

\* Integer division of C, which truncates towards zero.
Quot(a, b) == IF a >= 0 THEN a \div b ELSE -((-a) \div b)

amp_abs32_to_u32(v) == IF v < 0 THEN -v ELSE v

\* The values of bit: up to 4^31 in the code, whose integers have 64 bits.  The
\* squares of two readings of 16 bits need no more than these.
SQRT_BITS == {0} \cup {4^k : k \in 0..15}

\* One turn of the loops of amp_isqrt64: bits above v are skipped; from there on
\* rest is the rest of v and res the root so far.
SqrtTurn(v, s) ==
    LET fits == s.rest >= s.res + s.bit
    IN  [bit |-> s.bit \div 4,
         rest |-> IF s.bit <= v /\ fits THEN s.rest - s.res - s.bit ELSE s.rest,
         res |-> IF s.bit > v THEN s.res ELSE (s.res \div 2) + (IF fits THEN s.bit ELSE 0)]

amp_isqrt64(v) ==
    LET loop[s \in [bit : SQRT_BITS, rest : Nat, res : Nat]] ==
            IF s.bit = 0 THEN s.res ELSE loop[SqrtTurn(v, s)]
    IN  loop[[bit |-> 4^15, rest |-> v, res |-> 0]]

\* amp_atan2_cd_approx: linear within each eighth of the circle.
\* Mutant: the second eighth is not turned round.
AtanBaseFlat(ay, ax) == IF ax >= ay THEN (ay * 4500) \div ax ELSE (ax * 4500) \div ay

AtanBase(ay, ax) ==
    IF ax >= ay THEN (ay * 4500) \div ax ELSE 9000 - (ax * 4500) \div ay

amp_atan2_cd_approx(y, x) ==
    LET base == AtanBase(amp_abs32_to_u32(y), amp_abs32_to_u32(x))
    IN  CASE x = 0 /\ y = 0 -> 0
          [] x >= 0 /\ y >= 0 /\ <<x, y>> # <<0, 0>> -> base
          [] x >= 0 /\ y < 0 -> -base
          [] x < 0 /\ y >= 0 -> 18000 - base
          [] x < 0 /\ y < 0 -> base - 18000

\* attitude_update_debug_once, on an accelerometer reading.
Roll(acc) == amp_atan2_cd_approx(acc.y, acc.z)
Pitch(acc) == amp_atan2_cd_approx(-acc.x, amp_isqrt64(acc.y * acc.y + acc.z * acc.z))
\* body_axis_update_once: the attitude in the body's axes, relative to the
\* level trim.
BODY_PITCH_SIGN == -1
BodyRoll(acc, level) == Roll(acc) - level.roll
BodyPitch(acc, level) == BODY_PITCH_SIGN * (Pitch(acc) - level.pitch)
-----------------------------------------------------------------------------
RC_MID_US == 1500
RC_PITCH_SIGN == -1
RATE_SET_MAX_RAW == [roll |-> 600, pitch |-> 600, yaw |-> 500]
ANGLE_ASSIST_MAX_CORR_US == 25

\* rc_norm_deadband
rc_norm_deadband(us, deadzone) ==
    LET d == us - RC_MID_US
    IN  IF d > -deadzone /\ d < deadzone THEN 0 ELSE clamp_i32(d, -500, 500)

\* control_update_setpoint_once: the rate a stick asks for.
RateSetpoint(axis, us, deadzone) ==
    LET in == rc_norm_deadband(us, deadzone)
    IN  Quot((IF axis = "pitch" THEN RC_PITCH_SIGN * in ELSE in) * RATE_SET_MAX_RAW[axis], 500)

\* control_update_pid_once for one axis.  The angle assist acts on roll and
\* pitch while their stick asks for no rate.
RateCorrection(axis, us, rate, g) ==
    clamp_i32(Quot(RateSetpoint(axis, us, g.deadzone) - rate, g[axis]),
              -RATE_PID_MAX_CORR_US, RATE_PID_MAX_CORR_US)

\* Mutant: the assist pushes the way the craft leans.
AngleCorrectionAlong(axis, us, angle, g) ==
    IF axis # "yaw" /\ RateSetpoint(axis, us, g.deadzone) = 0
    THEN clamp_i32(Quot(angle, g.angle),
                   -ANGLE_ASSIST_MAX_CORR_US, ANGLE_ASSIST_MAX_CORR_US)
    ELSE 0

AngleCorrection(axis, us, angle, g) ==
    IF axis # "yaw" /\ RateSetpoint(axis, us, g.deadzone) = 0
    THEN clamp_i32(Quot(-angle, g.angle),
                   -ANGLE_ASSIST_MAX_CORR_US, ANGLE_ASSIST_MAX_CORR_US)
    ELSE 0

Pid(axis, us, rate, angle, g) ==
    clamp_i32(RateCorrection(axis, us, rate, g) + AngleCorrection(axis, us, angle, g),
              -RATE_PID_MAX_CORR_US, RATE_PID_MAX_CORR_US)
=============================================================================
