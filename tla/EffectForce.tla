----------------------------- MODULE EffectForce ------------------------------
(***************************************************************************)
(* The force of one effect (EffectEngine::evaluate and what it calls), as  *)
(* a function of its parameters, the motion of the wheel and the           *)
(* milliseconds since its delay ended.  When it starts and ends is the     *)
(* subject of EffectEngine.                                                *)
(*                                                                         *)
(* A turn of the phase is 2 * (One + 1) units, 65536 in the code.  The     *)
(* phase of an effect is given in these units, a motion in units of the    *)
(* HID axis, velocity and acceleration already limited by motion_to_q15.   *)
(***************************************************************************)
EXTENDS Fixed

CONSTANTS
    QuarterSine,        \* kQuarterSine: the sine of 0 to 90 degrees
    SineSteps,          \* its steps, 64 in the code
    Endless             \* kInfiniteDuration

ASSUME EffectForceAssumption ==
    /\ SineSteps \in Nat \ {0}
    /\ QuarterSine \in [0 .. SineSteps -> 0 .. One]
    /\ Endless \in Nat
    /\ One % 2 = 1

PhaseTurn == 2 * (One + 1)
Quarter == (One + 1) \div 2

Periodic == {"sine", "square", "triangle", "sawtooth_up", "sawtooth_down"}
Conditional == {"spring", "damper", "friction", "inertia"}

-----------------------------------------------------------------------------
(* Periodic effects.                                                       *)

\* sine_q15: the table read forwards, backwards, and both again below zero.
Sine(p) ==
    LET quadrant == p \div Quarter
        offset == IF quadrant % 2 = 1 THEN Quarter - (p % Quarter) ELSE p % Quarter
        value == QuarterSine[(offset * SineSteps + Quarter \div 2) \div Quarter]
    IN  IF quadrant >= 2 THEN -value ELSE value

Waveform(type, p) ==
    CASE type = "sine"          -> Sine(p)
      [] type = "square"        -> IF p < One + 1 THEN One ELSE -One
      [] type = "triangle"      -> ClampQ15(IF p < One + 1 THEN p * 2 - One
                                            ELSE 3 * One + 2 - p * 2)
      [] type = "sawtooth_up"   -> ClampQ15(p - One)
      [] type = "sawtooth_down" -> ClampQ15(One - p)

\* Mutant: the phase of a fraction of the period is not reduced to a turn.
PeriodicUnreduced(effect, elapsed) ==
    LET period == IF effect.period = 0 THEN 1 ELSE effect.period
        phase == (elapsed * PhaseTurn) \div period + effect.phase
    IN  effect.offset + MulQ15(Waveform(effect.type, Clamp(phase, 0, PhaseTurn - 1)),
                               effect.magnitude)

PeriodicForce(effect, elapsed) ==
    LET period == IF effect.period = 0 THEN 1 ELSE effect.period
        phase == ((elapsed % period) * PhaseTurn) \div period + effect.phase
    IN  effect.offset + MulQ15(Waveform(effect.type, phase % PhaseTurn), effect.magnitude)

-----------------------------------------------------------------------------
(* Conditions, on position (spring), velocity (damper, friction) or        *)
(* acceleration (inertia).                                                 *)

\* condition_displacement
Displacement(value, condition) ==
    LET distance == value - condition.center
    IN  IF Abs32(distance) <= condition.dead_band THEN 0
        ELSE IF distance > 0 THEN distance - condition.dead_band
        ELSE distance + condition.dead_band

\* clamp_condition_force
Saturated(force, condition) ==
    Clamp(force, -Clamp(condition.negative_saturation, 0, One),
                 Clamp(condition.positive_saturation, 0, One))

Coefficient(displacement, condition) ==
    IF displacement > 0 THEN condition.positive_coefficient
                        ELSE condition.negative_coefficient

ConditionForce(value, condition) ==
    LET displacement == Displacement(value, condition)
    IN  Saturated(MulQ15(displacement, Coefficient(displacement, condition)), condition)

\* Friction depends on the side only; rest needs no saturation.
FrictionForce(value, condition) ==
    LET displacement == Displacement(value, condition)
        coefficient == Coefficient(displacement, condition)
    IN  IF displacement = 0 THEN 0
        ELSE Saturated(IF displacement > 0 THEN coefficient ELSE -coefficient, condition)

-----------------------------------------------------------------------------

Timed(effect) == effect.duration # Endless

\* Mutant: the span is kept in 16 bits.
RampForceNarrow(effect, elapsed) ==
    LET duration == IF effect.duration \in {0, Endless} THEN 1 ELSE effect.duration
        span == ((effect.ramp_end - effect.ramp_start + One + 1) % PhaseTurn) - One - 1
    IN  effect.ramp_start + Quotient(span * Clamp(elapsed, 0, duration), duration)

RampForce(effect, elapsed) ==
    LET duration == IF effect.duration \in {0, Endless} THEN 1 ELSE effect.duration
    IN  effect.ramp_start
          + Quotient((effect.ramp_end - effect.ramp_start) * Clamp(elapsed, 0, duration),
                     duration)

\* What the parameters ask for, before direction, envelope and gain.
AskedForce(effect, motion, elapsed) ==
    CASE effect.type = "constant"  -> effect.magnitude
      [] effect.type = "ramp"      -> RampForce(effect, elapsed)
      [] effect.type \in Periodic  -> PeriodicForce(effect, elapsed)
      [] effect.type = "friction"  -> FrictionForce(motion, effect.condition)
      [] effect.type \in Conditional \ {"friction"} -> ConditionForce(motion, effect.condition)

\* apply_envelope: the attack scales up from attack_level, the fade down to
\* fade_level, and where they overlap the smaller one wins.
AttackScale(effect, elapsed) ==
    LET envelope == effect.envelope
    IN  IF elapsed >= envelope.attack_ms THEN One
        ELSE envelope.attack_level
               + Quotient((One - envelope.attack_level) * elapsed, envelope.attack_ms)

\* Mutant: the two ends of the fade are swapped.
FadeScaleSwapped(effect, elapsed) ==
    LET envelope == effect.envelope
        start == IF effect.duration > envelope.fade_ms
                 THEN effect.duration - envelope.fade_ms ELSE 0
    IN  IF ~Timed(effect) \/ envelope.fade_ms = 0 \/ elapsed >= effect.duration
             \/ elapsed < start
        THEN One
        ELSE envelope.fade_level
               + Quotient((One - envelope.fade_level) * (elapsed - start), envelope.fade_ms)

FadeScale(effect, elapsed) ==
    LET envelope == effect.envelope
        start == IF effect.duration > envelope.fade_ms
                 THEN effect.duration - envelope.fade_ms ELSE 0
    IN  IF ~Timed(effect) \/ envelope.fade_ms = 0 \/ elapsed >= effect.duration
             \/ elapsed < start
        THEN One
        ELSE One - Quotient((One - envelope.fade_level) * (elapsed - start), envelope.fade_ms)

Scale(effect, elapsed) ==
    LET attack == AttackScale(effect, elapsed)
        fade == FadeScale(effect, elapsed)
    IN  ClampQ15(IF fade < attack THEN fade ELSE attack)

PlayedForce(effect, motion, elapsed) ==
    LET directed == MulQ15(AskedForce(effect, motion, elapsed), effect.direction)
    IN  MulQ15(MulQ15(directed, Scale(effect, elapsed)), effect.gain)

\* The end of tick: the sum of the effects that play, under the device gain.
Mixed(total, device_gain) == MulQ15(total, device_gain)

=============================================================================
