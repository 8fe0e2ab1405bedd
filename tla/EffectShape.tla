----------------------------- MODULE EffectShape ------------------------------
(***************************************************************************)
(* One effect from its start to its end, evaluated every millisecond       *)
(* (EffectEngine::evaluate, from the end of the delay on): what EffectForce *)
(* computes for a moment is seen here over time, pass by pass.             *)
(***************************************************************************)
EXTENDS EffectForce

CONSTANTS
    ShapedEffects,      \* the effects considered
    Motions,            \* the motions of the wheel considered
    LoopCount,          \* loops_remaining
    MaxPlayed           \* bound: milliseconds an endless effect is followed

Fields16 == -One - 1 .. One

\* What the USB reports may put into an effect: signed fields are the whole
\* 16 bits, levels and saturations are refused above One.
EffectParameters ==
    [type : {"constant", "ramp"} \cup Periodic \cup Conditional,
     duration : Nat, direction : Q15, gain : 0 .. One,
     envelope : [attack_level : 0 .. One, fade_level : 0 .. One,
                 attack_ms : Nat, fade_ms : Nat],
     condition : [center : Fields16,
                  positive_coefficient : Fields16, negative_coefficient : Fields16,
                  positive_saturation : 0 .. One, negative_saturation : 0 .. One,
                  dead_band : 0 .. One],
     magnitude : Fields16, offset : Fields16, phase : 0 .. PhaseTurn - 1,
     period : Nat, ramp_start : Fields16, ramp_end : Fields16]

ASSUME EffectShapeAssumption ==
    /\ ShapedEffects \subseteq EffectParameters
    /\ Motions \subseteq Q15
    /\ LoopCount \in Nat \ {0}
    /\ MaxPlayed \in Nat

VARIABLES
    effect,
    motion,             \* what the effect reacts to, if it is a condition
    played,             \* milliseconds since the delay ended
    playing,
    felt,               \* what evaluate returned
    fallen              \* history: the force has become smaller in this pass

shapeVars == <<effect, motion, played, playing, felt, fallen>>

PassOver(e, t) == Timed(e) /\ e.duration > 0 /\ t >= e.duration

\* The time into the current pass.
ElapsedInPass(e, t) == IF PassOver(e, t) THEN t % e.duration ELSE t

Ended(e, t) == PassOver(e, t) /\ t \div e.duration >= LoopCount

\* What evaluate returns for the effect that plays.
ForceAt(e, m, t) == IF Ended(e, t) THEN 0 ELSE PlayedForce(e, m, ElapsedInPass(e, t))

ShapeInit ==
    /\ effect \in ShapedEffects
    /\ motion \in Motions
    /\ played = 0
    /\ playing = TRUE
    /\ felt = ForceAt(effect, motion, 0)
    /\ fallen = FALSE

SamePass == ElapsedInPass(effect, played') > ElapsedInPass(effect, played)

\* A millisecond later the wheel may move otherwise; the effect ends with its
\* last pass.
Evaluate ==
    LET t == played + 1
    IN  /\ playing
        /\ (Timed(effect) /\ effect.duration > 0) \/ t <= MaxPlayed
        /\ UNCHANGED effect
        /\ played' = t
        /\ playing' = ~Ended(effect, t)
        /\ \E m \in Motions : motion' = m /\ felt' = ForceAt(effect, m, t)
        /\ fallen' = (SamePass /\ (fallen \/ Abs32(felt') < Abs32(felt)))

ShapeSpec == ShapeInit /\ [][Evaluate]_shapeVars

-----------------------------------------------------------------------------

\* The force of an effect is what its parameters ask for, by direction,
\* envelope and gain, limited once: each of the three products rounds
\* towards zero and loses less than a unit, and none of them adds to it.
ForceFaithful ==
    LET elapsed == ElapsedInPass(effect, played)
        asked == Clamp(AskedForce(effect, motion, elapsed) * effect.direction,
                       -One * One, One * One)
        exact == asked * Scale(effect, elapsed) * effect.gain
        shown == Abs32(felt) * One * One * One
    IN  playing =>
          /\ Abs32(exact) - 3 * One * One * One < shown /\ shown <= Abs32(exact)
          /\ exact > 0 => felt >= 0
          /\ exact < 0 => felt <= 0

\* The half periods of a wave mirror each other, whatever its phase, where
\* the period has two halves in milliseconds.  (Their offset is left out.)
WavesMirror ==
    LET half == effect.period \div 2
        Wave(t) == PeriodicForce([effect EXCEPT !.offset = 0], t)
    IN  effect.type \in Periodic \ {"sawtooth_up", "sawtooth_down"} /\ effect.period = 2 * half
          /\ half > 0
        => Wave(played + half) = -Wave(played)

\* Within a pass a constant force is let in by the attack and out by the
\* fade: once it has become smaller it does not grow again, though the two
\* may overlap and the fade may be longer than the effect.
AttackThenFade ==
    [][effect.type = "constant" /\ playing' /\ SamePass /\ fallen
         => Abs32(felt') <= Abs32(felt)]_shapeVars

\* A ramp without an envelope goes from its start to its end and never back.
RampSweeps ==
    [][effect.type = "ramp" /\ playing' /\ SamePass
         /\ effect.envelope.attack_ms = 0 /\ effect.envelope.fade_ms = 0
         => (effect.ramp_end - effect.ramp_start) * effect.direction
              * (felt' - felt) >= 0]_shapeVars

=============================================================================
