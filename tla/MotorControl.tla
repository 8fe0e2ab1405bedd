---------------------------- MODULE MotorControl ----------------------------
(***************************************************************************)
(* wheel::MotorControlMath and MotorOutput: from a signed force command to *)
(* the H-bridge pins and the PWM compare value, one call per 1 ms tick.    *)
(*                                                                         *)
(* Fractions (force, gain, limits, duty, slew) are integers in units of    *)
(* 1/FullScale.  A motor is one record: the four members of                *)
(* MotorControlMath, MotorOutput::initialized_, and what the hardware is   *)
(* told: pins (1 when IN1+IN3 is high, -1 when IN2+IN4 is high, 0 when     *)
(* both are low) and pwm, the LEDC compare value.                          *)
(***************************************************************************)
EXTENDS Integers

CONSTANT FullScale   \* the integer that stands for 1.0

ASSUME FullScaleAssumption == FullScale \in Nat \ {0}

Directions == {-1, 0, 1}
Phases == {"driving", "disabled_period_one", "disabled_period_two"}
Fractions == 0 .. FullScale

\* The limits a valid configuration may hold (config_valid, unit_float).
DriveLimits ==
    [global_gain : Fractions, maximum_force : Fractions,
     maximum_duty : Fractions, duty_slew_per_tick : Fractions \ {0}]

Motors ==
    [initialized : BOOLEAN, direction : Directions,
     pending_direction : Directions, applied_duty : Fractions,
     phase : Phases, pins : Directions, pwm : Fractions]

Magnitude(x) == IF x < 0 THEN -x ELSE x
SignOf(x) == IF x > 0 THEN 1 ELSE IF x < 0 THEN -1 ELSE 0
ClampTo(x, low, high) == IF x < low THEN low ELSE IF x > high THEN high ELSE x

\* MotorControlMath{} and every output low.
MotorDisable(m) ==
    [initialized |-> m.initialized, direction |-> 0, pending_direction |-> 0,
     applied_duty |-> 0, phase |-> "driving", pins |-> 0, pwm |-> 0]

MotorInitialize(succeeds) ==
    [initialized |-> succeeds, direction |-> 0, pending_direction |-> 0,
     applied_duty |-> 0, phase |-> "driving", pins |-> 0, pwm |-> 0]

\* The gained force, rounded toward zero and clamped to maximum_force.
LimitedForce(force, c) ==
    LET gained == (Magnitude(force) * c.global_gain) \div FullScale
    IN  SignOf(force) * ClampTo(gained, 0, c.maximum_force)

TargetDuty(force, c) ==
    ClampTo(Magnitude(LimitedForce(force, c)), 0, c.maximum_duty)

RequestedDirection(force, c) == SignOf(LimitedForce(force, c))

\* Mutant: a full slew step is taken even when less is missing.
SlewedDutyFullStep(m, force, c) ==
    IF TargetDuty(force, c) > m.applied_duty
      THEN m.applied_duty + c.duty_slew_per_tick ELSE TargetDuty(force, c)

\* applied_duty moves toward the target by at most one slew step.
SlewedDuty(m, force, c) ==
    m.applied_duty + ClampTo(TargetDuty(force, c) - m.applied_duty,
                             -c.duty_slew_per_tick, c.duty_slew_per_tick)

MustReverse(m, force, c) ==
    /\ RequestedDirection(force, c) # 0
    /\ m.direction # 0
    /\ RequestedDirection(force, c) # m.direction

\* Drive in direction d at the slewed duty; the pins are only written when
\* the step is enabled, that is when the duty is not zero.
Drive(m, d, duty) ==
    [m EXCEPT !.direction = d, !.applied_duty = duty, !.pwm = duty,
              !.pins = IF duty > 0 THEN d ELSE m.pins]

BeginReversal(m, force, c) ==
    [m EXCEPT !.phase = "disabled_period_one", !.applied_duty = 0,
              !.pending_direction = RequestedDirection(force, c), !.pwm = 0]

\* Mutant: one period without power is taken for enough.
EndPeriodOneTurned(m) ==
    [m EXCEPT !.phase = "driving", !.direction = m.pending_direction,
              !.pins = m.pending_direction, !.pwm = 0]

EndPeriodOne(m) == [m EXCEPT !.phase = "disabled_period_two", !.pwm = 0]

\* Mutant: direction_ keeps its value over the reversal.
EndPeriodTwoUnturned(m) == [m EXCEPT !.phase = "driving", !.pwm = 0]

EndPeriodTwo(m) ==
    [m EXCEPT !.phase = "driving", !.direction = m.pending_direction,
              !.pins = m.pending_direction, !.pwm = 0]

\* MotorControlMath::update followed by MotorOutput::apply.
DriveStep(m, force, c) ==
    CASE m.phase = "disabled_period_one" -> EndPeriodOne(m)
      [] m.phase = "disabled_period_two" -> EndPeriodTwo(m)
      [] m.phase = "driving" ->
           IF MustReverse(m, force, c) THEN BeginReversal(m, force, c)
           ELSE IF RequestedDirection(force, c) = 0 \/ TargetDuty(force, c) = 0
             THEN [m EXCEPT !.applied_duty = 0, !.pwm = 0]
           ELSE Drive(m, IF m.direction = 0 THEN RequestedDirection(force, c)
                                            ELSE m.direction,
                      SlewedDuty(m, force, c))

\* MotorOutput::set_force: nothing happens before initialize() succeeded.
SetForce(m, force, c) == IF m.initialized THEN DriveStep(m, force, c) ELSE m

=============================================================================
