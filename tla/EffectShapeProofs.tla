--------------------------- MODULE EffectShapeProofs ---------------------------
(***************************************************************************)
(* The force of one effect over time, for every parameters the USB reports *)
(* may carry, every resolution of the force and of the sine table.         *)
(***************************************************************************)
EXTENDS EffectShape, ArithmeticProofs

LEMMA OneOdd ==
    /\ One \in Int /\ One > 0
    /\ Quarter \in Int /\ Quarter > 0 /\ 2 * Quarter = One + 1
    /\ PhaseTurn = 4 * Quarter
<1>1. One \in Int /\ One > 0 /\ One % 2 = 1
  BY OneAssumption, EffectForceAssumption
<1>2. Quarter \in Int /\ 2 * Quarter = One + 1
  BY <1>1 DEF Quarter
<1> QED
  BY <1>1, <1>2 DEF PhaseTurn

\* The fields of an effect, as numbers.
LEMMA ParametersType ==
    ASSUME NEW e \in EffectParameters
    PROVE  /\ e.type \in {"constant", "ramp"} \cup Periodic \cup Conditional
           /\ e.duration \in Nat /\ e.period \in Nat
           /\ e.direction \in Int /\ e.gain \in 0 .. One
           /\ e.magnitude \in Int /\ e.offset \in Int /\ e.phase \in Int
           /\ e.ramp_start \in Int /\ e.ramp_end \in Int
           /\ e.envelope.attack_level \in 0 .. One /\ e.envelope.fade_level \in 0 .. One
           /\ e.envelope.attack_ms \in Nat /\ e.envelope.fade_ms \in Nat
           /\ e.condition.center \in Int
           /\ e.condition.positive_coefficient \in Int
           /\ e.condition.negative_coefficient \in Int
           /\ e.condition.positive_saturation \in 0 .. One
           /\ e.condition.negative_saturation \in 0 .. One
           /\ e.condition.dead_band \in Int
<1>1. /\ e.type \in {"constant", "ramp"} \cup Periodic \cup Conditional
      /\ e.duration \in Nat /\ e.period \in Nat
      /\ e.direction \in Q15 /\ e.gain \in 0 .. One
      /\ e.magnitude \in Fields16 /\ e.offset \in Fields16 /\ e.phase \in 0 .. PhaseTurn - 1
      /\ e.ramp_start \in Fields16 /\ e.ramp_end \in Fields16
  BY DEF EffectParameters
<1>2. /\ e.envelope.attack_level \in 0 .. One /\ e.envelope.fade_level \in 0 .. One
      /\ e.envelope.attack_ms \in Nat /\ e.envelope.fade_ms \in Nat
  BY DEF EffectParameters
<1>3. /\ e.condition.center \in Fields16
      /\ e.condition.positive_coefficient \in Fields16
      /\ e.condition.negative_coefficient \in Fields16
      /\ e.condition.positive_saturation \in 0 .. One
      /\ e.condition.negative_saturation \in 0 .. One
      /\ e.condition.dead_band \in 0 .. One
  BY DEF EffectParameters
<1>4. /\ Q15 \subseteq Int /\ Fields16 \subseteq Int
      /\ 0 .. One \subseteq Int /\ 0 .. PhaseTurn - 1 \subseteq Int
  BY OneOdd DEF Q15, Fields16
<1> QED
  BY <1>1, <1>2, <1>3, <1>4

-----------------------------------------------------------------------------
(* The waves. *)

\* A phase lies in one of four quarters.
LEMMA QuarterOf ==
    ASSUME NEW p \in 0 .. PhaseTurn - 1
    PROVE  /\ p \in Int /\ p \div Quarter \in 0 .. 3
           /\ p % Quarter \in 0 .. Quarter - 1
           /\ p = (p \div Quarter) * Quarter + (p % Quarter)
<1>1. Quarter \in Int /\ Quarter > 0 /\ PhaseTurn = 4 * Quarter
  BY OneOdd
<1>2. p \in Int /\ 0 <= p /\ p < 4 * Quarter
  BY <1>1
<1>3. /\ p \div Quarter \in Int /\ p % Quarter \in 0 .. Quarter - 1
      /\ p = (p \div Quarter) * Quarter + (p % Quarter)
  BY <1>1, <1>2
<1> DEFINE q == p \div Quarter
<1>4. q >= 0
  <2> SUFFICES ASSUME q <= -1 PROVE FALSE
    BY <1>3
  <2>1. q * Quarter <= (-1) * Quarter
    BY <1>1, <1>3
  <2> QED
    BY <1>1, <1>2, <1>3, <2>1
<1>5. q <= 3
  <2> SUFFICES ASSUME q >= 4 PROVE FALSE
    BY <1>3
  <2>1. q * Quarter >= 4 * Quarter
    BY <1>1, <1>3
  <2> QED
    BY <1>1, <1>2, <1>3, <2>1
<1> QED
  BY <1>2, <1>3, <1>4, <1>5

\* The table is read within its bounds.
LEMMA SineRange ==
    ASSUME NEW p \in 0 .. PhaseTurn - 1
    PROVE  Sine(p) \in Q15
<1> DEFINE quadrant == p \div Quarter
           offset == IF quadrant % 2 = 1 THEN Quarter - (p % Quarter) ELSE p % Quarter
           x == offset * SineSteps + Quarter \div 2
           index == x \div Quarter
<1>1. Quarter \in Int /\ Quarter > 0 /\ SineSteps \in Nat \ {0}
  BY OneOdd, EffectForceAssumption
<1>2. p % Quarter \in 0 .. Quarter - 1
  BY QuarterOf
<1>3. offset \in 0 .. Quarter
  BY <1>1, <1>2
<1> HIDE DEF offset
<1>4. /\ offset * SineSteps \in Int /\ 0 <= offset * SineSteps
      /\ offset * SineSteps <= Quarter * SineSteps /\ Quarter * SineSteps \in Int
  BY <1>1, <1>3
<1>5. Quarter \div 2 \in Int /\ 0 <= Quarter \div 2 /\ Quarter \div 2 < Quarter
  BY <1>1
<1>6. x \in Int /\ 0 <= x /\ x < Quarter * SineSteps + Quarter
  BY <1>1, <1>4, <1>5
<1> HIDE DEF x
<1>7. index \in Int /\ index * Quarter <= x /\ x < index * Quarter + Quarter
  BY <1>1, <1>6
<1> HIDE DEF index
<1>8. 0 <= index
  <2> SUFFICES ASSUME index <= -1 PROVE FALSE
    BY <1>7
  <2>1. index * Quarter <= (-1) * Quarter
    BY <1>1, <1>7
  <2> QED
    BY <1>1, <1>6, <1>7, <2>1
<1>9. index <= SineSteps
  <2> SUFFICES ASSUME index >= SineSteps + 1 PROVE FALSE
    BY <1>1, <1>7
  <2>1. index * Quarter >= (SineSteps + 1) * Quarter
    BY <1>1, <1>7
  <2>2. (SineSteps + 1) * Quarter = Quarter * SineSteps + Quarter
    BY <1>1
  <2> QED
    BY <1>1, <1>4, <1>6, <1>7, <2>1, <2>2
<1>10. QuarterSine[index] \in 0 .. One
  BY <1>1, <1>7, <1>8, <1>9, EffectForceAssumption
<1>11. Sine(p) = IF quadrant >= 2 THEN -QuarterSine[index] ELSE QuarterSine[index]
  BY DEF Sine, index, x, offset
<1> HIDE DEF quadrant
<1> QED
  BY <1>10, <1>11, OneOdd DEF Q15

LEMMA WaveformRange ==
    ASSUME NEW type \in Periodic, NEW p \in 0 .. PhaseTurn - 1
    PROVE  Waveform(type, p) \in Q15
<1>1. One \in Int /\ One > 0 /\ p \in Int
  BY OneOdd
<1>2. \A x \in Int : ClampQ15(x) \in Q15
  BY <1>1 DEF ClampQ15, Clamp, Q15
<1>3. One \in Q15 /\ -One \in Q15
  BY <1>1 DEF Q15
<1>4. CASE type = "sine"
  BY <1>4, SineRange DEF Waveform
<1>5. CASE type = "square"
  BY <1>3, <1>5 DEF Waveform
<1>6. CASE type = "triangle"
  <2>1. (IF p < One + 1 THEN p * 2 - One ELSE 3 * One + 2 - p * 2) \in Int
    BY <1>1
  <2> QED
    BY <1>2, <1>6, <2>1 DEF Waveform
<1>7. CASE type \in {"sawtooth_up", "sawtooth_down"}
  BY <1>1, <1>2, <1>7 DEF Waveform
<1> QED
  BY <1>4, <1>5, <1>6, <1>7 DEF Periodic

\* What an effect asks for is a number, whatever its type.
LEMMA PeriodicInt ==
    ASSUME NEW e \in EffectParameters, e.type \in Periodic, NEW t \in Nat
    PROVE  PeriodicForce(e, t) \in Int
<1> DEFINE period == IF e.period = 0 THEN 1 ELSE e.period
           phase == ((t % period) * PhaseTurn) \div period + e.phase
           wave == Waveform(e.type, phase % PhaseTurn)
<1>1. /\ period \in Nat \ {0} /\ e.phase \in Int /\ e.offset \in Int /\ e.magnitude \in Int
      /\ PhaseTurn \in Nat \ {0}
  BY ParametersType, OneOdd
<1> HIDE DEF period
<1>2. t % period \in Int
  BY <1>1
<1>3. (t % period) * PhaseTurn \in Int
  BY <1>1, <1>2
<1>4. phase \in Int
  BY <1>1, <1>3
<1> HIDE DEF phase
<1>5. phase % PhaseTurn \in 0 .. PhaseTurn - 1
  BY <1>1, <1>4
<1>6. wave \in Q15
  BY <1>5, WaveformRange
<1>7. wave \in Int
  BY <1>6, OneOdd DEF Q15
<1> HIDE DEF wave
<1>8. MulQ15(wave, e.magnitude) \in Int
  BY <1>1, <1>7, ProductOdd
<1>9. PeriodicForce(e, t) = e.offset + MulQ15(wave, e.magnitude)
  BY DEF PeriodicForce, wave, phase, period
<1> QED
  BY <1>1, <1>8, <1>9

LEMMA ConditionInt ==
    ASSUME NEW e \in EffectParameters, NEW m \in Q15
    PROVE  ConditionForce(m, e.condition) \in Int /\ FrictionForce(m, e.condition) \in Int
<1> DEFINE c == e.condition
           d == Displacement(m, c)
           k == Coefficient(d, c)
<1>1. /\ c.center \in Int /\ c.positive_coefficient \in Int /\ c.negative_coefficient \in Int
      /\ c.positive_saturation \in 0 .. One /\ c.negative_saturation \in 0 .. One
      /\ c.dead_band \in Int /\ One \in Int /\ m \in Int
  BY ParametersType, OneOdd DEF Q15
<1> HIDE DEF c
<1>2. d \in Int
  BY <1>1 DEF Displacement, Abs32
<1> HIDE DEF d
<1>3. k \in Int
  BY <1>1 DEF Coefficient
<1>4. MulQ15(d, k) \in Int
  BY <1>2, <1>3, ProductOdd
<1>5. \A x \in Int : Saturated(x, c) \in Int
  BY <1>1 DEF Saturated, Clamp
<1>6. ConditionForce(m, c) = Saturated(MulQ15(d, k), c)
  BY DEF ConditionForce, d
<1>7. FrictionForce(m, c)
        = IF d = 0 THEN 0 ELSE Saturated(IF d > 0 THEN k ELSE -k, c)
  BY DEF FrictionForce, d
<1> HIDE DEF k
<1>8. ConditionForce(m, c) \in Int /\ FrictionForce(m, c) \in Int
  BY <1>3, <1>4, <1>5, <1>6, <1>7
<1> QED
  BY <1>8 DEF c

\* A ramp goes from its start, up or down.
LEMMA RampGrows ==
    ASSUME NEW e \in EffectParameters, NEW t \in Nat, NEW u \in Nat, t <= u
    PROVE  /\ RampForce(e, t) \in Int /\ RampForce(e, u) \in Int
           /\ e.ramp_end >= e.ramp_start => RampForce(e, t) <= RampForce(e, u)
           /\ e.ramp_end <= e.ramp_start => RampForce(e, t) >= RampForce(e, u)
<1> DEFINE duration == IF e.duration \in {0, Endless} THEN 1 ELSE e.duration
           span == e.ramp_end - e.ramp_start
           early == Clamp(t, 0, duration)
           later == Clamp(u, 0, duration)
<1>1. e.ramp_start \in Int /\ e.ramp_end \in Int /\ duration \in Nat \ {0} /\ span \in Int
  BY ParametersType
<1>2. early \in Nat /\ later \in Nat /\ early <= later
  BY <1>1 DEF Clamp
<1>3. /\ RampForce(e, t) = e.ramp_start + Quotient(span * early, duration)
      /\ RampForce(e, u) = e.ramp_start + Quotient(span * later, duration)
  BY DEF RampForce
<1>4. /\ e.ramp_end >= e.ramp_start <=> span >= 0
      /\ e.ramp_end <= e.ramp_start <=> span <= 0
  BY <1>1
<1> HIDE DEF duration, span, early, later
<1>5. /\ span * early \in Int /\ span * later \in Int
      /\ span >= 0 => span * early <= span * later
      /\ span <= 0 => span * later <= span * early
  BY <1>1, <1>2
<1> DEFINE x == span * early
           y == span * later
<1>6. /\ Quotient(x, duration) \in Int /\ Quotient(y, duration) \in Int
      /\ x <= y => Quotient(x, duration) <= Quotient(y, duration)
      /\ y <= x => Quotient(y, duration) <= Quotient(x, duration)
  <2>1. x \in Int /\ y \in Int
    BY <1>5
  <2> HIDE DEF x, y
  <2>2. Quotient(x, duration) \in Int /\ Quotient(y, duration) \in Int
    BY <1>1, <2>1, QuotientTruncates
  <2> QED
    BY <1>1, <2>1, <2>2, QuotientGrows
<1> HIDE DEF x, y
<1>7. /\ RampForce(e, t) = e.ramp_start + Quotient(x, duration)
      /\ RampForce(e, u) = e.ramp_start + Quotient(y, duration)
      /\ span >= 0 => x <= y
      /\ span <= 0 => y <= x
  BY <1>3, <1>5 DEF x, y
<1> QED
  BY <1>1, <1>4, <1>6, <1>7

LEMMA AskedInt ==
    ASSUME NEW e \in EffectParameters, NEW m \in Q15, NEW t \in Nat
    PROVE  AskedForce(e, m, t) \in Int
<1>1. CASE e.type = "constant"
  BY <1>1, ParametersType DEF AskedForce, Periodic, Conditional
<1>2. CASE e.type = "ramp"
  <2>1. RampForce(e, t) \in Int
    BY RampGrows
  <2> QED
    BY <1>2, <2>1 DEF AskedForce, Periodic, Conditional
<1>3. CASE e.type \in Periodic
  <2>1. PeriodicForce(e, t) \in Int
    BY <1>3, PeriodicInt
  <2>2. AskedForce(e, m, t) = PeriodicForce(e, t)
    BY <1>3 DEF AskedForce, Periodic, Conditional
  <2> QED
    BY <2>1, <2>2
<1>4. CASE e.type \in Conditional
  <2>1. AskedForce(e, m, t) \in {FrictionForce(m, e.condition), ConditionForce(m, e.condition)}
    BY <1>4 DEF AskedForce, Periodic, Conditional
  <2> QED
    BY <2>1, ConditionInt
<1> QED
  BY <1>1, <1>2, <1>3, <1>4, ParametersType

-----------------------------------------------------------------------------
(* The envelope. *)

FadeStart(e) ==
    IF e.duration > e.envelope.fade_ms THEN e.duration - e.envelope.fade_ms ELSE 0

\* The attack only lets in more and more.
LEMMA AttackGrows ==
    ASSUME NEW e \in EffectParameters, NEW t \in Nat, NEW u \in Nat, t <= u
    PROVE  /\ AttackScale(e, t) \in 0 .. One /\ AttackScale(e, u) \in 0 .. One
           /\ AttackScale(e, t) <= AttackScale(e, u)
<1> DEFINE level == e.envelope.attack_level
           n == e.envelope.attack_ms
           rest == One - level
<1>1. level \in 0 .. One /\ n \in Nat /\ One \in Int /\ One > 0 /\ rest \in Nat /\ level \in Int
  BY ParametersType, OneOdd
<1>2. \A x \in Nat : AttackScale(e, x)
                       = IF x >= n THEN One ELSE level + Quotient(rest * x, n)
  BY DEF AttackScale
<1> HIDE DEF level, n, rest
<1>3. \A x \in Nat : x < n => Quotient(rest * x, n) \in 0 .. rest
  <2> TAKE x \in Nat
  <2> HAVE x < n
  <2>1. n \in Nat \ {0} /\ x <= n
    BY <1>1
  <2> QED
    BY <1>1, <2>1, QuotientShare
<1>4. t < n /\ u < n => Quotient(rest * t, n) <= Quotient(rest * u, n)
  <2> SUFFICES ASSUME t < n, u < n PROVE Quotient(rest * t, n) <= Quotient(rest * u, n)
    OBVIOUS
  <2>1. rest * t \in Int /\ rest * u \in Int /\ rest * t <= rest * u /\ n \in Nat \ {0}
    BY <1>1
  <2> QED
    BY <2>1, QuotientGrows
<1>5. level + rest = One
  BY <1>1 DEF rest
<1> DEFINE qt == Quotient(rest * t, n)
           qu == Quotient(rest * u, n)
<1>6. /\ AttackScale(e, t) = IF t >= n THEN One ELSE level + qt
      /\ AttackScale(e, u) = IF u >= n THEN One ELSE level + qu
      /\ t < n => qt \in 0 .. rest
      /\ u < n => qu \in 0 .. rest
      /\ t < n /\ u < n => qt <= qu
  BY <1>2, <1>3, <1>4
<1> HIDE DEF qt, qu
<1> QED
  BY <1>1, <1>5, <1>6

\* The fade only lets through less and less, up to the end of the pass.
LEMMA FadeFalls ==
    ASSUME NEW e \in EffectParameters, NEW t \in Nat, NEW u \in Nat, t <= u,
           Timed(e) /\ e.duration > 0 => u < e.duration
    PROVE  /\ FadeScale(e, t) \in 0 .. One /\ FadeScale(e, u) \in 0 .. One
           /\ FadeScale(e, u) <= FadeScale(e, t)
<1> DEFINE level == e.envelope.fade_level
           n == e.envelope.fade_ms
           rest == One - level
           start == FadeStart(e)
           over(x) == ~Timed(e) \/ n = 0 \/ x >= e.duration \/ x < start
<1>1. /\ level \in 0 .. One /\ n \in Nat /\ One \in Int /\ One > 0 /\ rest \in Nat
      /\ level \in Int /\ e.duration \in Nat
  BY ParametersType, OneOdd
<1>2. start \in Nat /\ e.duration - start <= n
  BY <1>1 DEF FadeStart
<1>3. \A x \in Nat : FadeScale(e, x)
                       = IF over(x) THEN One ELSE One - Quotient(rest * (x - start), n)
  BY DEF FadeScale, FadeStart
<1>4. over(u) => over(t)
  BY <1>1, <1>2
<1>5. /\ ~over(t) => t - start \in Nat /\ t - start <= n /\ n \in Nat \ {0}
      /\ ~over(u) => u - start \in Nat /\ u - start <= n /\ n \in Nat \ {0}
  BY <1>1, <1>2
<1> DEFINE x == t - start
           y == u - start
           qt == Quotient(rest * x, n)
           qu == Quotient(rest * y, n)
<1>6. x \in Int /\ y \in Int /\ x <= y
  BY <1>2
<1>7. /\ FadeScale(e, t) = IF over(t) THEN One ELSE One - qt
      /\ FadeScale(e, u) = IF over(u) THEN One ELSE One - qu
  BY <1>3
<1> HIDE DEF level, n, rest, start, over, x, y
<1>8. ~over(t) => qt \in 0 .. rest
  BY <1>1, <1>5, QuotientShare DEF x
<1>9. ~over(u) => qu \in 0 .. rest
  BY <1>1, <1>5, QuotientShare DEF y
<1>10. ~over(t) /\ ~over(u) => qt <= qu
  <2> SUFFICES ASSUME ~over(t), ~over(u) PROVE qt <= qu
    OBVIOUS
  <2>1. x \in Nat /\ y \in Nat /\ n \in Nat \ {0}
    BY <1>5 DEF x, y
  <2>2. rest * x \in Int /\ rest * y \in Int /\ rest * x <= rest * y
    BY <1>1, <1>6, <2>1
  <2> QED
    BY <2>1, <2>2, QuotientGrows
<1>11. rest <= One
  BY <1>1 DEF rest
<1> HIDE DEF qt, qu
<1> QED
  BY <1>1, <1>4, <1>7, <1>8, <1>9, <1>10, <1>11

\* The two together: the smaller one, as it is.
LEMMA ScaleRange ==
    ASSUME NEW e \in EffectParameters, NEW t \in Nat,
           Timed(e) /\ e.duration > 0 => t < e.duration
    PROVE  /\ Scale(e, t) \in 0 .. One
           /\ Scale(e, t) = IF FadeScale(e, t) < AttackScale(e, t)
                            THEN FadeScale(e, t) ELSE AttackScale(e, t)
<1>1. t <= t
  OBVIOUS
<1>2. AttackScale(e, t) \in 0 .. One
  BY <1>1, AttackGrows
<1>3. FadeScale(e, t) \in 0 .. One
  BY <1>1, FadeFalls
<1> QED
  BY <1>2, <1>3, OneOdd DEF Scale, ClampQ15, Clamp

-----------------------------------------------------------------------------
(* The force of the moment. *)

\* Three truncated products in a row lose less than three units.
LEMMA ThreeLosses ==
    ASSUME NEW k \in Nat \ {0}, NEW x \in Nat, NEW d \in Nat, NEW e \in Nat, NEW f \in Nat,
           NEW s \in 0 .. k, NEW g \in 0 .. k,
           d * k <= x, x < d * k + k,
           e * k <= d * s, d * s < e * k + k,
           f * k <= e * g, e * g < f * k + k
    PROVE  /\ f * (k * k * k) <= x * (s * g)
           /\ x * (s * g) < f * (k * k * k) + 3 * (k * k * k)
<1>1. \A p \in Int, q \in Int, c \in Nat : p <= q => p * c <= q * c
  OBVIOUS
<1>2. k \in Nat /\ s \in Nat /\ g \in Nat /\ s <= k /\ g <= k
  OBVIOUS
<1> DEFINE sg == s * g
           kg == k * g
           kk == k * k
<1>3. sg \in Nat /\ kg \in Nat /\ kk \in Nat /\ d * k \in Int /\ d * s \in Int
      /\ e * k \in Int /\ e * g \in Int /\ f * k \in Int
  BY <1>2
<1>4. sg <= kk /\ kg <= kk
  <2>1. s * g <= k * g /\ g * k <= k * k /\ g * k = k * g
    BY <1>1, <1>2
  <2> QED
    BY <1>3, <2>1
<1>5. (d * k) * sg <= x * sg /\ x * sg <= (d * k + k) * sg
  BY <1>1, <1>3
<1>6. (d * k + k) * sg = (d * k) * sg + k * sg /\ (d * k) * sg = (d * s) * kg
  BY <1>2
<1>7. (e * k) * kg <= (d * s) * kg /\ (d * s) * kg <= (e * k + k) * kg
  BY <1>1, <1>3
<1>8. (e * k + k) * kg = (e * k) * kg + k * kg /\ (e * k) * kg = (e * g) * kk
  BY <1>2
<1>9. (f * k) * kk <= (e * g) * kk /\ (e * g) * kk <= (f * k + k - 1) * kk
  BY <1>1, <1>3
<1>10. /\ (f * k + k - 1) * kk = (f * k) * kk + k * kk - kk
       /\ (f * k) * kk = f * (k * kk) /\ k * kk = k * k * k
       /\ kk > 0
  BY <1>2
<1>11. k * sg <= k * kk /\ k * kg <= k * kk
  <2>1. sg * k <= kk * k /\ kg * k <= kk * k
    BY <1>1, <1>2, <1>3, <1>4
  <2>2. sg * k = k * sg /\ kg * k = k * kg /\ kk * k = k * kk
    BY <1>2, <1>3
  <2> QED
    BY <2>1, <2>2
<1> DEFINE X == x * sg
           A == (d * k) * sg
           B == k * sg
           C == (e * g) * kk
           D == k * kg
           F == f * (k * kk)
           K == k * kk
<1>12. X \in Int /\ A \in Int /\ B \in Int /\ C \in Int /\ D \in Int /\ F \in Int /\ K \in Int
  BY <1>2, <1>3
<1>13. /\ A <= X /\ X <= A + B
       /\ C <= A /\ A <= C + D
       /\ F <= C /\ C <= F + K - kk /\ kk > 0
       /\ B <= K /\ D <= K
  BY <1>5, <1>6, <1>7, <1>8, <1>9, <1>10, <1>11
<1>14. x * (s * g) = X /\ f * (k * k * k) = F /\ k * k * k = K
  BY <1>10
<1> HIDE DEF X, A, B, C, D, F, K, kk
<1> QED
  BY <1>3, <1>12, <1>13, <1>14

\* Two numbers of the same magnitude and an unsigned factor.
LEMMA MagnitudeTimes ==
    ASSUME NEW a \in Int, NEW c \in Nat
    PROVE  /\ a * c \in Int /\ Abs32(a * c) = Abs32(a) * c
           /\ a >= 0 => a * c >= 0
           /\ a <= 0 => a * c <= 0
<1>1. /\ a * c \in Int /\ (-a) * c = -(a * c)
      /\ a >= 0 => a * c >= 0
      /\ a <= 0 => a * c <= 0
  OBVIOUS
<1>2. CASE a < 0
  <2>1. a * c <= 0
    BY <1>1, <1>2
  <2> QED
    BY <1>1, <1>2, <2>1 DEF Abs32
<1>3. CASE a >= 0
  BY <1>1, <1>3 DEF Abs32
<1> QED
  BY <1>1, <1>2, <1>3

\* A product of fractions is a fraction: the limit has nothing to do.
LEMMA FractionTimes ==
    ASSUME NEW a \in Q15, NEW c \in 0 .. One
    PROVE  LET m == MulQ15(a, c)
           IN  /\ m \in Q15
               /\ Abs32(m) * One <= Abs32(a) * c /\ Abs32(a) * c < Abs32(m) * One + One
               /\ a >= 0 => m >= 0
               /\ a <= 0 => m <= 0
<1> DEFINE y == a * c
           sq == One * One
<1>1. One \in Int /\ One > 0 /\ sq \in Int /\ -One * One = -sq
      /\ a \in Int /\ c \in Nat /\ c \in Int
  BY OneSquared DEF Q15
<1>2. /\ y \in Int /\ Abs32(y) = Abs32(a) * c
      /\ a >= 0 => y >= 0
      /\ a <= 0 => y <= 0
  BY <1>1, MagnitudeTimes
<1>3. Abs32(a) * c <= sq
  <2>1. Abs32(a) \in Nat /\ Abs32(a) <= One /\ c <= One
    BY <1>1 DEF Abs32, Q15
  <2>2. Abs32(a) * c <= One * c /\ c * One <= One * One /\ c * One = One * c
    BY <1>1, <2>1
  <2> QED
    BY <1>1, <2>1, <2>2
<1>4. LET m == MulQ15(a, c)
          x == Clamp(a * c, -One * One, One * One)
      IN  /\ m \in Q15 /\ x \in Int
          /\ Abs32(m) * One <= Abs32(x) /\ Abs32(x) < Abs32(m) * One + One
          /\ x >= 0 => m >= 0
          /\ x <= 0 => m <= 0
  BY <1>1, ProductTruncates, Zenon
<1>5. Clamp(a * c, -One * One, One * One) = y
  <2> HIDE DEF y, sq
  <2>1. Clamp(y, -sq, sq) = y
    BY <1>1, <1>2, <1>3 DEF Clamp, Abs32
  <2> QED
    BY <1>1, <2>1 DEF y, sq
<1> HIDE DEF y, sq
<1> QED
  BY <1>2, <1>4, <1>5

\* What the wheel gets of what the parameters ask for.
LEMMA PlayedFaithful ==
    ASSUME NEW e \in EffectParameters, NEW m \in Q15, NEW t \in Nat,
           Timed(e) /\ e.duration > 0 => t < e.duration
    PROVE  LET asked == Clamp(AskedForce(e, m, t) * e.direction, -One * One, One * One)
               exact == asked * Scale(e, t) * e.gain
               force == PlayedForce(e, m, t)
               shown == Abs32(force) * One * One * One
           IN  /\ force \in Q15
               /\ Abs32(exact) - 3 * One * One * One < shown /\ shown <= Abs32(exact)
               /\ exact > 0 => force >= 0
               /\ exact < 0 => force <= 0
<1> DEFINE a == AskedForce(e, m, t)
           x == Clamp(a * e.direction, -One * One, One * One)
           s == Scale(e, t)
           g == e.gain
           D == MulQ15(a, e.direction)
           E == MulQ15(D, s)
           F == MulQ15(E, g)
<1>1. a \in Int /\ e.direction \in Int /\ g \in 0 .. One /\ One \in Int /\ One > 0
  BY AskedInt, ParametersType, OneSquared
<1>2. s \in 0 .. One
  BY ScaleRange
<1> HIDE DEF a
<1>3. /\ D \in Q15 /\ x \in Int
      /\ Abs32(D) * One <= Abs32(x) /\ Abs32(x) < Abs32(D) * One + One
      /\ x >= 0 => D >= 0
      /\ x <= 0 => D <= 0
  BY <1>1, ProductTruncates
<1> HIDE DEF x, D, s, g
<1>4. /\ E \in Q15
      /\ Abs32(E) * One <= Abs32(D) * s /\ Abs32(D) * s < Abs32(E) * One + One
      /\ D >= 0 => E >= 0
      /\ D <= 0 => E <= 0
  BY <1>2, <1>3, FractionTimes
<1> HIDE DEF E
<1>5. /\ F \in Q15
      /\ Abs32(F) * One <= Abs32(E) * g /\ Abs32(E) * g < Abs32(F) * One + One
      /\ E >= 0 => F >= 0
      /\ E <= 0 => F <= 0
  BY <1>1, <1>4, FractionTimes
<1>6. PlayedForce(e, m, t) = F
  BY DEF PlayedForce, F, E, D, s, g, a
<1> HIDE DEF F
<1>7. /\ D \in Int /\ E \in Int /\ F \in Int /\ s \in Nat /\ g \in Nat
  BY <1>1, <1>2, <1>3, <1>4, <1>5 DEF Q15
<1>8. Abs32(x) \in Nat /\ Abs32(D) \in Nat /\ Abs32(E) \in Nat /\ Abs32(F) \in Nat
  BY <1>3, <1>7 DEF Abs32
<1> DEFINE cube == One * One * One
<1>9. /\ Abs32(F) * cube <= Abs32(x) * (s * g)
      /\ Abs32(x) * (s * g) < Abs32(F) * cube + 3 * cube
  <2>1. One \in Nat \ {0}
    BY <1>1
  <2> QED
    BY <1>1, <1>2, <1>3, <1>4, <1>5, <1>8, <2>1, ThreeLosses
<1>10. s * g \in Nat
  BY <1>7
<1>11. /\ x * (s * g) \in Int /\ Abs32(x * (s * g)) = Abs32(x) * (s * g)
       /\ x >= 0 => x * (s * g) >= 0
       /\ x <= 0 => x * (s * g) <= 0
  BY <1>3, <1>10, MagnitudeTimes
<1>12. /\ x * s * g = x * (s * g)
       /\ Abs32(F) * One * One * One = Abs32(F) * cube
       /\ 3 * One * One * One = 3 * cube
       /\ cube \in Int /\ Abs32(F) * cube \in Int
  BY <1>1, <1>3, <1>7, <1>8
<1> HIDE DEF cube
<1>13. /\ Abs32(x * s * g) - 3 * One * One * One < Abs32(F) * One * One * One
       /\ Abs32(F) * One * One * One <= Abs32(x * s * g)
  <2>1. Abs32(x) * (s * g) \in Int
    BY <1>8, <1>10
  <2> QED
    BY <1>9, <1>11, <1>12, <2>1
<1>14. /\ x * s * g > 0 => F >= 0
       /\ x * s * g < 0 => F <= 0
  BY <1>3, <1>4, <1>5, <1>7, <1>11, <1>12
<1>15. /\ F \in Q15
       /\ Abs32(x * s * g) - 3 * One * One * One < Abs32(F) * One * One * One
       /\ Abs32(F) * One * One * One <= Abs32(x * s * g)
       /\ x * s * g > 0 => F >= 0
       /\ x * s * g < 0 => F <= 0
  BY <1>5, <1>13, <1>14
<1> QED
  BY <1>6, <1>15 DEF x, s, g, a

-----------------------------------------------------------------------------
(* Half a period later. *)

\* There is one way to divide.
LEMMA DivisionUnique ==
    ASSUME NEW x \in Int, NEW q \in Int, NEW n \in Nat \ {0}, NEW r \in 0 .. n - 1,
           x = q * n + r
    PROVE  x \div n = q /\ x % n = r
<1> DEFINE p == x \div n
           s == x % n
<1>1. p \in Int /\ s \in 0 .. n - 1 /\ x = p * n + s /\ n \in Int /\ n > 0
  OBVIOUS
<1> HIDE DEF p, s
<1>2. (p - q) * n = p * n - q * n
  BY <1>1
<1>3. (p - q) * n = r - s
  BY <1>1, <1>2
<1>4. p - q < 1
  <2> SUFFICES ASSUME p - q >= 1 PROVE FALSE
    BY <1>1
  <2>1. (p - q) * n >= 1 * n
    BY <1>1
  <2> QED
    BY <1>1, <1>3, <2>1
<1>5. p - q > -1
  <2> SUFFICES ASSUME p - q <= -1 PROVE FALSE
    BY <1>1
  <2>1. (p - q) * n <= (-1) * n
    BY <1>1
  <2> QED
    BY <1>1, <1>3, <2>1
<1>6. p = q
  BY <1>1, <1>4, <1>5
<1>7. r = s
  BY <1>1, <1>3, <1>6
<1> QED
  BY <1>6, <1>7 DEF p, s

\* Whole turns change the quotient by their number and the remainder not at all.
LEMMA WholeTurns ==
    ASSUME NEW x \in Int, NEW turns \in Int, NEW n \in Nat \ {0}
    PROVE  /\ (x + turns * n) \div n = (x \div n) + turns
           /\ (x + turns * n) % n = x % n
<1> DEFINE p == x \div n
           s == x % n
           y == x + turns * n
<1>1. p \in Int /\ s \in 0 .. n - 1 /\ x = p * n + s /\ y \in Int
  OBVIOUS
<1> HIDE DEF p, s
<1>2. p + turns \in Int /\ (p + turns) * n = p * n + turns * n
  BY <1>1
<1>3. y = (p + turns) * n + s
  BY <1>1, <1>2
<1> HIDE DEF y
<1>4. y \div n = p + turns /\ y % n = s
  BY <1>1, <1>2, <1>3, DivisionUnique
<1> QED
  BY <1>4 DEF y, p, s

\* Half of an even cycle later: the other half.
LEMMA HalfCycle ==
    ASSUME NEW x \in Int, NEW half \in Nat \ {0}
    PROVE  LET n == 2 * half
           IN  /\ x % n \in 0 .. n - 1
               /\ (x + half) % n = IF x % n < half THEN (x % n) + half ELSE (x % n) - half
<1> DEFINE n == 2 * half
           p == x \div n
           s == x % n
           y == x + half
<1>0. n \in Nat \ {0}
  OBVIOUS
<1>1. n \in Nat \ {0} /\ n = 2 * half
  OBVIOUS
<1> HIDE DEF n
<1>2. p \in Int /\ s \in 0 .. n - 1 /\ x = p * n + s
  BY <1>0
<1>3. y \in Int
  OBVIOUS
<1> HIDE DEF p, s
<1>4. CASE s < half
  <2>1. s + half \in 0 .. n - 1 /\ y = p * n + (s + half)
    BY <1>1, <1>2, <1>4
  <2> HIDE DEF y
  <2>2. y % n = s + half
    BY <1>1, <1>2, <1>3, <2>1, DivisionUnique
  <2> QED
    BY <1>2, <1>4, <2>2 DEF y, s, n
<1>5. CASE s >= half
  <2>1. s - half \in 0 .. n - 1 /\ (p + 1) * n = p * n + n /\ p + 1 \in Int
    BY <1>1, <1>2, <1>5
  <2>2. y = (p + 1) * n + (s - half)
    BY <1>1, <1>2, <2>1
  <2> HIDE DEF y
  <2>3. y % n = s - half
    BY <1>1, <1>2, <1>3, <2>1, <2>2, DivisionUnique
  <2> QED
    BY <1>1, <1>2, <1>5, <2>3 DEF y, s, n
<1> QED
  BY <1>1, <1>2, <1>4, <1>5

Mirrored == Periodic \ {"sawtooth_up", "sawtooth_down"}

\* The second half of a turn is the first one upside down.
LEMMA WaveformMirrors ==
    ASSUME NEW type \in Mirrored, NEW p \in 0 .. One
    PROVE  Waveform(type, p + One + 1) = -Waveform(type, p)
<1>1. /\ One \in Int /\ One > 0 /\ p \in Int /\ Quarter \in Int /\ Quarter > 0
      /\ 2 * Quarter = One + 1 /\ PhaseTurn = 4 * Quarter
  BY OneOdd
<1>2. p \in 0 .. PhaseTurn - 1 /\ p + One + 1 \in 0 .. PhaseTurn - 1
  BY <1>1
<1>3. CASE type = "sine"
  <2> DEFINE table(offset) ==
               QuarterSine[(offset * SineSteps + Quarter \div 2) \div Quarter]
             later == p + One + 1
             q == p \div Quarter
             r == p % Quarter
  <2>1. later = p + 2 * Quarter /\ Quarter \in Nat \ {0}
    BY <1>1
  <2>2. later \div Quarter = q + 2 /\ later % Quarter = r
    BY <1>1, <2>1, WholeTurns
  <2>3. q \in 0 .. 3 /\ r \in 0 .. Quarter - 1 /\ p = q * Quarter + r
    BY <1>2, QuarterOf
  <2>4. q \in {0, 1}
    <3> HIDE DEF q, r
    <3>1. q # 2 /\ q # 3
      BY <1>1, <2>3
    <3> QED
      BY <2>3, <3>1
  <2>5. /\ Sine(p) = LET value == table(IF q % 2 = 1 THEN Quarter - r ELSE r)
                     IN  IF q >= 2 THEN -value ELSE value
        /\ Sine(later) = LET value == table(IF (q + 2) % 2 = 1 THEN Quarter - r ELSE r)
                         IN  IF q + 2 >= 2 THEN -value ELSE value
    BY <2>2 DEF Sine
  <2> HIDE DEF table, q, r, later
  <2>6. Sine(later) = -Sine(p)
    <3>1. CASE q = 0
      BY <2>5, <3>1
    <3>2. CASE q = 1
      BY <2>5, <3>2
    <3> QED
      BY <2>4, <3>1, <3>2
  <2> QED
    BY <1>3, <2>6 DEF Waveform, later
<1>4. CASE type = "square"
  BY <1>1, <1>4 DEF Waveform
<1>5. CASE type = "triangle"
  <2>1. /\ Waveform(type, p) = ClampQ15(p * 2 - One)
        /\ Waveform(type, p + One + 1) = ClampQ15(3 * One + 2 - (p + One + 1) * 2)
    BY <1>1, <1>5 DEF Waveform
  <2>2. 3 * One + 2 - (p + One + 1) * 2 = -(p * 2 - One)
    BY <1>1
  <2> DEFINE x == p * 2 - One
  <2>3. x \in Int
    BY <1>1
  <2> HIDE DEF x
  <2>4. ClampQ15(-x) = -ClampQ15(x)
    BY <1>1, <2>3 DEF ClampQ15, Clamp
  <2> QED
    BY <2>1, <2>2, <2>4 DEF x
<1> QED
  BY <1>3, <1>4, <1>5 DEF Mirrored, Periodic

\* The same for any two phases half a turn apart.
LEMMA PhaseMirrors ==
    ASSUME NEW type \in Mirrored, NEW x \in Int
    PROVE  /\ Waveform(type, x % PhaseTurn) \in Int
           /\ Waveform(type, (x + One + 1) % PhaseTurn) = -Waveform(type, x % PhaseTurn)
<1> DEFINE p == x % PhaseTurn
           H == One + 1
           later == (x + One + 1) % PhaseTurn
<1>1. H \in Nat \ {0} /\ PhaseTurn = 2 * H /\ x + H = x + One + 1 /\ One \in Int
  BY OneOdd DEF PhaseTurn
<1>2. p \in 0 .. PhaseTurn - 1 /\ later = IF p < H THEN p + H ELSE p - H
  <2> HIDE DEF H
  <2>1. /\ x % (2 * H) \in 0 .. (2 * H) - 1
        /\ (x + H) % (2 * H)
             = IF x % (2 * H) < H THEN (x % (2 * H)) + H ELSE (x % (2 * H)) - H
    BY <1>1, HalfCycle
  <2> QED
    BY <1>1, <2>1
<1>3. Waveform(type, p) \in Int
  <2>1. Waveform(type, p) \in Q15
    BY <1>2, WaveformRange DEF Mirrored
  <2> QED
    BY <1>1, <2>1 DEF Q15
<1> HIDE DEF p, later
<1>4. CASE p < H
  <2>1. p \in 0 .. One /\ later = p + One + 1
    BY <1>1, <1>2, <1>4
  <2> QED
    BY <1>3, <2>1, WaveformMirrors DEF p, later
<1>5. CASE p >= H
  <2>1. later \in 0 .. One /\ p = later + One + 1
    BY <1>1, <1>2, <1>5
  <2>2. Waveform(type, p) = -Waveform(type, later)
    BY <2>1, WaveformMirrors
  <2>3. Waveform(type, later) \in Int
    <3>1. later \in 0 .. PhaseTurn - 1
      BY <1>1, <2>1
    <3>2. Waveform(type, later) \in Q15
      BY <3>1, WaveformRange DEF Mirrored
    <3> QED
      BY <1>1, <3>2 DEF Q15
  <2> QED
    BY <1>3, <2>2, <2>3 DEF p, later
<1> QED
  BY <1>1, <1>2, <1>4, <1>5

LEMMA PeriodMirrors ==
    ASSUME NEW e \in EffectParameters, e.type \in Mirrored,
           NEW half \in Nat \ {0}, e.period = 2 * half, e.offset = 0, NEW t \in Nat
    PROVE  PeriodicForce(e, t + half) = -PeriodicForce(e, t)
<1> DEFINE n == 2 * half
           H == One + 1
           r == t % n
           later == (t + half) % n
           x == (r * PhaseTurn) \div n
           y == (later * PhaseTurn) \div n
<1>1. /\ H \in Int /\ PhaseTurn = 2 * H /\ n \in Nat \ {0} /\ e.phase \in Int
      /\ e.magnitude \in Int /\ One \in Int
  BY OneOdd, ParametersType DEF PhaseTurn
<1>2. /\ r \in 0 .. n - 1 /\ r \in Int
      /\ later = IF r < half THEN r + half ELSE r - half
  <2>1. t \in Int
    OBVIOUS
  <2>2. r \in 0 .. n - 1 /\ later = IF r < half THEN r + half ELSE r - half
    BY <2>1, HalfCycle, Zenon
  <2> HIDE DEF r
  <2> QED
    BY <2>2
<1> HIDE DEF H, r, later
<1>3. \E turn \in {1, -1} : y = x + turn * H /\ later = r + turn * half
  <2>1. PICK turn \in {1, -1} : later = r + turn * half
    <3>1. CASE r < half
      <4>1. later = r + 1 * half
        BY <1>2, <3>1
      <4> QED
        BY <4>1
    <3>2. CASE r >= half
      <4>1. later = r + (-1) * half
        BY <1>2, <3>2
      <4> QED
        BY <4>1
    <3> QED
      BY <1>2, <3>1, <3>2
  <2>2. later * PhaseTurn = r * PhaseTurn + (turn * H) * n
    <3>1. turn \in Int
      OBVIOUS
    <3> QED
      BY <1>1, <1>2, <2>1, <3>1
  <2>3. r * PhaseTurn \in Int /\ turn * H \in Int
    BY <1>1, <1>2
  <2>4. (r * PhaseTurn + (turn * H) * n) \div n = ((r * PhaseTurn) \div n) + turn * H
    <3> DEFINE a == r * PhaseTurn
               b == turn * H
    <3>1. a \in Int /\ b \in Int /\ n \in Nat \ {0}
      BY <1>1, <2>3
    <3> HIDE DEF a, b, n
    <3>2. (a + b * n) \div n = (a \div n) + b
      BY <3>1, WholeTurns
    <3> QED
      BY <3>2 DEF a, b
  <2> QED
    BY <2>1, <2>2, <2>4
<1>4. x \in Int
  <2>1. r * PhaseTurn \in Int
    BY <1>1, <1>2
  <2> QED
    BY <1>1, <2>1
<1> DEFINE w == Waveform(e.type, (x + e.phase) % PhaseTurn)
           v == Waveform(e.type, (y + e.phase) % PhaseTurn)
<1>5. /\ PeriodicForce(e, t) = MulQ15(w, e.magnitude)
      /\ PeriodicForce(e, t + half) = MulQ15(v, e.magnitude)
  <2>1. n # 0 /\ e.period = n
    BY <1>1
  <2>2. /\ PeriodicForce(e, t) = 0 + MulQ15(w, e.magnitude)
        /\ PeriodicForce(e, t + half) = 0 + MulQ15(v, e.magnitude)
    BY <2>1 DEF PeriodicForce, r, later
  <2> QED
    <3> HIDE DEF w, v
    <3>1. /\ MulQ15(w, e.magnitude) \in Int /\ MulQ15(v, e.magnitude) \in Int
      <4>1. w \in Int
        <5>1. x + e.phase \in Int
          BY <1>1, <1>4
        <5> HIDE DEF x
        <5> QED
          BY <5>1, PhaseMirrors DEF w
      <4>2. v \in Int
        <5>1. y + e.phase \in Int
          BY <1>1, <1>3, <1>4
        <5> HIDE DEF y
        <5> QED
          BY <5>1, PhaseMirrors DEF v
      <4> QED
        BY <1>1, <4>1, <4>2, ProductOdd
    <3> QED
      BY <2>2, <3>1
<1> HIDE DEF x, y
<1>6. PICK turn \in {1, -1} : y = x + turn * H
  BY <1>3
<1>7. w \in Int /\ v = -w
  <2>1. CASE turn = 1
    <3> DEFINE z == x + e.phase
    <3>1. z \in Int /\ y + e.phase = z + One + 1
      BY <1>1, <1>4, <1>6, <2>1 DEF H
    <3> HIDE DEF z
    <3>2. /\ Waveform(e.type, z % PhaseTurn) \in Int
          /\ Waveform(e.type, (z + One + 1) % PhaseTurn) = -Waveform(e.type, z % PhaseTurn)
      BY <3>1, PhaseMirrors
    <3> QED
      BY <3>1, <3>2 DEF z
  <2>2. CASE turn = -1
    <3> DEFINE z == y + e.phase
    <3>1. z \in Int /\ x + e.phase = z + One + 1
      BY <1>1, <1>4, <1>6, <2>2 DEF H
    <3> HIDE DEF z
    <3>2. /\ Waveform(e.type, z % PhaseTurn) \in Int
          /\ Waveform(e.type, (z + One + 1) % PhaseTurn) = -Waveform(e.type, z % PhaseTurn)
      BY <3>1, PhaseMirrors
    <3>3. v \in Int /\ w = -v
      BY <3>1, <3>2 DEF z
    <3> HIDE DEF w, v
    <3> QED
      BY <3>3
  <2> QED
    BY <1>6, <2>1, <2>2
<1> HIDE DEF w, v
<1>8. MulQ15(v, e.magnitude) = -MulQ15(w, e.magnitude)
  BY <1>1, <1>7, ProductOdd
<1> QED
  BY <1>5, <1>8

-----------------------------------------------------------------------------
(* The effect as it plays. *)

ShapeTypeOK ==
    /\ effect \in EffectParameters
    /\ motion \in Q15
    /\ played \in Nat
    /\ felt \in Q15

\* The force is that of the moment, and an effect that has become weaker since
\* its pass began is in its fade, which is below the attack from then on.
ShapeInvariant ==
    /\ ShapeTypeOK
    /\ playing <=> ~Ended(effect, played)
    /\ felt = ForceAt(effect, motion, played)
    /\ playing /\ fallen /\ effect.type = "constant"
         => FadeScale(effect, ElapsedInPass(effect, played))
              <= AttackScale(effect, ElapsedInPass(effect, played))

\* A time into a pass is within it.
LEMMA ElapsedType ==
    ASSUME NEW e \in EffectParameters, NEW t \in Nat
    PROVE  /\ ElapsedInPass(e, t) \in Nat
           /\ Timed(e) /\ e.duration > 0 => ElapsedInPass(e, t) < e.duration
<1>1. e.duration \in Nat
  BY ParametersType
<1>2. CASE PassOver(e, t)
  <2>1. e.duration \in Nat \ {0} /\ Timed(e)
    BY <1>1, <1>2 DEF PassOver
  <2> DEFINE d == e.duration
  <2>2. d \in Nat \ {0}
    BY <2>1
  <2> HIDE DEF d
  <2>3. t % d \in 0 .. d - 1
    BY <2>2
  <2>4. ElapsedInPass(e, t) = t % d
    BY <1>2 DEF ElapsedInPass, d
  <2>5. t % d \in Nat /\ t % d < d
    BY <2>2, <2>3
  <2> QED
    BY <2>4, <2>5 DEF d
<1>3. CASE ~PassOver(e, t)
  BY <1>1, <1>3 DEF PassOver, ElapsedInPass
<1> QED
  BY <1>2, <1>3

LEMMA ForceAtType ==
    ASSUME NEW e \in EffectParameters, NEW m \in Q15, NEW t \in Nat
    PROVE  ForceAt(e, m, t) \in Q15
<1>1. 0 \in Q15
  BY OneOdd DEF Q15
<1>2. PlayedForce(e, m, ElapsedInPass(e, t)) \in Q15
  BY ElapsedType, PlayedFaithful
<1> QED
  BY <1>1, <1>2 DEF ForceAt

LEMMA ShapeInvariantInit == ShapeInit => ShapeInvariant
<1> SUFFICES ASSUME ShapeInit PROVE ShapeInvariant
  OBVIOUS
<1>1. /\ effect \in EffectParameters /\ motion \in Q15 /\ played = 0 /\ played \in Nat
      /\ felt = ForceAt(effect, motion, played) /\ playing /\ ~fallen
  BY EffectShapeAssumption DEF ShapeInit
<1>2. felt \in Q15
  BY <1>1, ForceAtType
<1>3. ~Ended(effect, played)
  <2>1. effect.duration \in Nat
    BY <1>1, ParametersType
  <2> QED
    BY <1>1, <2>1 DEF Ended, PassOver
<1> QED
  BY <1>1, <1>2, <1>3 DEF ShapeInvariant, ShapeTypeOK

\* A force of a constant effect that shrinks within a pass does so by its fade.
LEMMA ConstantFalls ==
    ASSUME NEW e \in EffectParameters, e.type = "constant",
           NEW m \in Q15, NEW n \in Q15, NEW t \in Nat, NEW u \in Nat, t <= u,
           Timed(e) /\ e.duration > 0 => u < e.duration
    PROVE  /\ \/ Abs32(PlayedForce(e, m, t)) <= Abs32(PlayedForce(e, n, u))
              \/ FadeScale(e, u) <= AttackScale(e, u)
           /\ FadeScale(e, t) <= AttackScale(e, t)
                => /\ FadeScale(e, u) <= AttackScale(e, u)
                   /\ Abs32(PlayedForce(e, n, u)) <= Abs32(PlayedForce(e, m, t))
<1> DEFINE D == MulQ15(e.magnitude, e.direction)
           force(x) == MulQ15(MulQ15(D, x), e.gain)
<1>1. /\ e.magnitude \in Int /\ e.direction \in Int /\ e.gain \in Nat
      /\ One \in Int /\ e.duration \in Nat
  BY ParametersType, OneOdd
<1>2. Timed(e) /\ e.duration > 0 => t < e.duration
  BY <1>1
<1>3. D \in Int
  BY <1>1, ProductOdd
<1>4. AskedForce(e, m, t) = e.magnitude /\ AskedForce(e, n, u) = e.magnitude
  BY DEF AskedForce, Periodic, Conditional
<1>5. PlayedForce(e, m, t) = force(Scale(e, t)) /\ PlayedForce(e, n, u) = force(Scale(e, u))
  BY <1>4 DEF PlayedForce
<1> HIDE DEF D
<1>6. \A x \in Nat, y \in Nat : x <= y => Abs32(force(x)) <= Abs32(force(y))
  <2> TAKE x \in Nat, y \in Nat
  <2> HAVE x <= y
  <2> DEFINE E == MulQ15(D, x)
             F == MulQ15(D, y)
  <2>1. x \in Int /\ y \in Int
    OBVIOUS
  <2>2. E \in Int /\ F \in Int
    BY <1>3, <2>1, ProductOdd
  <2>3. Abs32(D) <= Abs32(D)
    BY <1>3 DEF Abs32
  <2>4. Abs32(E) <= Abs32(F)
    BY <1>3, <2>3, ProductMagnitude
  <2>5. e.gain <= e.gain
    BY <1>1
  <2> HIDE DEF E, F
  <2>6. Abs32(MulQ15(E, e.gain)) <= Abs32(MulQ15(F, e.gain))
    BY <1>1, <2>2, <2>4, <2>5, ProductMagnitude
  <2> QED
    BY <2>6 DEF E, F
<1> HIDE DEF force
<1> DEFINE At == AttackScale(e, t)
           Au == AttackScale(e, u)
           Ft == FadeScale(e, t)
           Fu == FadeScale(e, u)
<1>7. At \in 0 .. One /\ Au \in 0 .. One /\ At <= Au
  BY AttackGrows
<1>8. Ft \in 0 .. One /\ Fu \in 0 .. One /\ Fu <= Ft
  BY FadeFalls
<1>9. /\ Scale(e, t) = IF Ft < At THEN Ft ELSE At
      /\ Scale(e, u) = IF Fu < Au THEN Fu ELSE Au
  BY <1>2, ScaleRange
<1> HIDE DEF At, Au, Ft, Fu
<1>10. Scale(e, t) \in Nat /\ Scale(e, u) \in Nat
  BY <1>1, <1>7, <1>8, <1>9
<1>11. Scale(e, t) <= Scale(e, u) \/ Fu <= Au
  BY <1>1, <1>7, <1>8, <1>9
<1>12. Ft <= At => Fu <= Au /\ Scale(e, u) <= Scale(e, t)
  BY <1>1, <1>7, <1>8, <1>9
<1>13. Abs32(force(Scale(e, t))) <= Abs32(force(Scale(e, u))) \/ Fu <= Au
  BY <1>6, <1>10, <1>11
<1>14. Ft <= At => Fu <= Au /\ Abs32(force(Scale(e, u))) <= Abs32(force(Scale(e, t)))
  BY <1>6, <1>10, <1>12
<1> QED
  BY <1>5, <1>13, <1>14 DEF At, Au, Ft, Fu

\* What a step of an effect that goes on relates.
LEMMA GoesOn ==
    ASSUME ShapeInvariant, Evaluate, playing', SamePass
    PROVE  LET t == ElapsedInPass(effect, played)
               u == ElapsedInPass(effect, played')
           IN  /\ effect \in EffectParameters /\ effect' = effect /\ playing
               /\ motion \in Q15 /\ motion' \in Q15
               /\ t \in Nat /\ u \in Nat /\ t <= u /\ t < u
               /\ Timed(effect) /\ effect.duration > 0 => u < effect.duration
               /\ felt = PlayedForce(effect, motion, t)
               /\ felt' = PlayedForce(effect, motion', u)
<1> DEFINE t == ElapsedInPass(effect, played)
           u == ElapsedInPass(effect, played')
<1>1. effect \in EffectParameters /\ motion \in Q15 /\ played \in Nat
  BY DEF ShapeInvariant, ShapeTypeOK
<1>2. /\ played' = played + 1 /\ effect' = effect /\ playing
      /\ playing' = ~Ended(effect, played')
      /\ motion' \in Motions /\ felt' = ForceAt(effect, motion', played')
  BY DEF Evaluate
<1>3. played' \in Nat /\ motion' \in Q15
  BY <1>1, <1>2, EffectShapeAssumption
<1>4. /\ t \in Nat /\ u \in Nat
      /\ Timed(effect) /\ effect.duration > 0 => u < effect.duration
  BY <1>1, <1>3, ElapsedType
<1>5. t < u
  BY DEF SamePass
<1>6. felt = PlayedForce(effect, motion, t)
  BY <1>2 DEF ShapeInvariant, ForceAt
<1>7. felt' = PlayedForce(effect, motion', u)
  <2>1. ~Ended(effect, played')
    BY <1>2
  <2> QED
    BY <1>2, <2>1 DEF ForceAt
<1> HIDE DEF t, u
<1>8. t <= u
  BY <1>4, <1>5
<1> QED
  BY <1>1, <1>2, <1>3, <1>4, <1>5, <1>6, <1>7, <1>8 DEF t, u

LEMMA ShapeInvariantStep == ShapeInvariant /\ [Evaluate]_shapeVars => ShapeInvariant'
<1> SUFFICES ASSUME ShapeInvariant, [Evaluate]_shapeVars PROVE ShapeInvariant'
  OBVIOUS
<1>1. CASE Evaluate
  <2>1. effect \in EffectParameters /\ motion \in Q15 /\ played \in Nat
    BY DEF ShapeInvariant, ShapeTypeOK
  <2>2. /\ effect' = effect /\ played' = played + 1
        /\ playing' = ~Ended(effect, played')
        /\ motion' \in Motions /\ felt' = ForceAt(effect, motion', played')
        /\ fallen' = (SamePass /\ (fallen \/ Abs32(felt') < Abs32(felt)))
    BY <1>1 DEF Evaluate
  <2>3. played' \in Nat /\ motion' \in Q15
    BY <2>1, <2>2, EffectShapeAssumption
  <2>4. felt' \in Q15
    BY <2>1, <2>2, <2>3, ForceAtType
  <2>5. playing' <=> ~Ended(effect', played')
    BY <2>2
  <2>6. ASSUME playing', fallen', effect.type = "constant"
        PROVE  FadeScale(effect, ElapsedInPass(effect, played'))
                 <= AttackScale(effect, ElapsedInPass(effect, played'))
    <3> DEFINE t == ElapsedInPass(effect, played)
               u == ElapsedInPass(effect, played')
    <3>1. SamePass /\ (fallen \/ Abs32(felt') < Abs32(felt))
      BY <2>2, <2>6
    <3>2. /\ playing /\ t \in Nat /\ u \in Nat /\ t <= u
          /\ Timed(effect) /\ effect.duration > 0 => u < effect.duration
          /\ felt = PlayedForce(effect, motion, t)
          /\ felt' = PlayedForce(effect, motion', u)
      BY <1>1, <2>6, <3>1, GoesOn
    <3>3. fallen => FadeScale(effect, t) <= AttackScale(effect, t)
      BY <2>6, <3>2 DEF ShapeInvariant
    <3> HIDE DEF t, u
    <3>4. /\ \/ Abs32(felt) <= Abs32(felt')
             \/ FadeScale(effect, u) <= AttackScale(effect, u)
          /\ FadeScale(effect, t) <= AttackScale(effect, t)
               => FadeScale(effect, u) <= AttackScale(effect, u)
      BY <2>1, <2>3, <2>6, <3>2, ConstantFalls
    <3>5. Abs32(felt') < Abs32(felt) => ~(Abs32(felt) <= Abs32(felt'))
      <4>1. felt \in Int /\ felt' \in Int
        BY <2>4, OneOdd DEF ShapeInvariant, ShapeTypeOK, Q15
      <4>2. \A x \in Int, y \in Int : Abs32(x) < Abs32(y) => ~(Abs32(y) <= Abs32(x))
        BY DEF Abs32
      <4> QED
        BY <4>1, <4>2
    <3> QED
      BY <3>1, <3>3, <3>4, <3>5 DEF u
  <2> QED
    BY <2>1, <2>2, <2>3, <2>4, <2>5, <2>6 DEF ShapeInvariant, ShapeTypeOK
<1>2. CASE UNCHANGED shapeVars
  BY <1>2 DEF shapeVars, ShapeInvariant, ShapeTypeOK
<1> QED
  BY <1>1, <1>2

LEMMA ShapeInductive == ShapeSpec => []ShapeInvariant
BY ShapeInvariantInit, ShapeInvariantStep, PTL DEF ShapeSpec

\* Whatever the parameters, the force stays a fraction of the strongest one.
THEOREM ShapeTypeCorrect == ShapeSpec => []ShapeTypeOK
<1>1. ShapeInvariant => ShapeTypeOK
  BY DEF ShapeInvariant
<1> QED
  BY <1>1, ShapeInductive, PTL

\* The force is what the parameters ask for, less than three units short.
THEOREM Faithful == ShapeSpec => []ForceFaithful
<1>1. ShapeInvariant => ForceFaithful
  <2> SUFFICES ASSUME ShapeInvariant, playing
               PROVE  ForceFaithful
    BY DEF ForceFaithful
  <2> DEFINE t == ElapsedInPass(effect, played)
  <2>1. effect \in EffectParameters /\ motion \in Q15 /\ played \in Nat
    BY DEF ShapeInvariant, ShapeTypeOK
  <2>2. t \in Nat /\ (Timed(effect) /\ effect.duration > 0 => t < effect.duration)
    BY <2>1, ElapsedType
  <2>3. felt = PlayedForce(effect, motion, t)
    BY DEF ShapeInvariant, ForceAt
  <2> HIDE DEF t
  <2>4. LET asked == Clamp(AskedForce(effect, motion, t) * effect.direction,
                           -One * One, One * One)
            exact == asked * Scale(effect, t) * effect.gain
            shown == Abs32(felt) * One * One * One
        IN  /\ Abs32(exact) - 3 * One * One * One < shown /\ shown <= Abs32(exact)
            /\ exact > 0 => felt >= 0
            /\ exact < 0 => felt <= 0
    BY <2>1, <2>2, <2>3, PlayedFaithful, Zenon
  <2> QED
    BY <2>4, Zenon DEF ForceFaithful, t
<1> QED
  BY <1>1, ShapeInductive, PTL

\* The half periods of a sine, a square and a triangle mirror each other,
\* from wherever in the turn the wave starts.
THEOREM HalvesMirror == ShapeSpec => []WavesMirror
<1>1. ShapeInvariant => WavesMirror
  <2> SUFFICES ASSUME ShapeInvariant PROVE WavesMirror
    OBVIOUS
  <2> DEFINE half == effect.period \div 2
             flat == [effect EXCEPT !.offset = 0]
  <2>1. effect \in EffectParameters /\ played \in Nat
    BY DEF ShapeInvariant, ShapeTypeOK
  <2>2. flat \in EffectParameters
    <3>1. 0 \in Fields16
      BY OneOdd DEF Fields16
    <3> QED
      BY <2>1, <3>1 DEF EffectParameters
  <2>3. flat.type = effect.type /\ flat.period = effect.period /\ flat.offset = 0
    BY <2>1 DEF EffectParameters
  <2>4. half \in Nat
    <3>1. effect.period \in Nat
      BY <2>1, ParametersType
    <3> QED
      BY <3>1
  <2> HIDE DEF half, flat
  <2>5. ASSUME effect.type \in Mirrored, effect.period = 2 * half, half > 0
        PROVE  PeriodicForce(flat, played + half) = -PeriodicForce(flat, played)
    <3>1. half \in Nat \ {0}
      BY <2>4, <2>5
    <3> QED
      BY <2>1, <2>2, <2>3, <2>5, <3>1, PeriodMirrors
  <2> QED
    BY <2>5 DEF WavesMirror, half, flat, Mirrored
<1> QED
  BY <1>1, ShapeInductive, PTL

\* Within a pass a constant force that has become weaker stays so.
THEOREM AttackFade == ShapeSpec => AttackThenFade
<1>1. ShapeInvariant /\ [Evaluate]_shapeVars
        => [effect.type = "constant" /\ playing' /\ SamePass /\ fallen
              => Abs32(felt') <= Abs32(felt)]_shapeVars
  <2> SUFFICES ASSUME ShapeInvariant, Evaluate, effect.type = "constant",
                      playing', SamePass, fallen
               PROVE  Abs32(felt') <= Abs32(felt)
    OBVIOUS
  <2> DEFINE t == ElapsedInPass(effect, played)
             u == ElapsedInPass(effect, played')
  <2>1. /\ effect \in EffectParameters /\ playing /\ motion \in Q15 /\ motion' \in Q15
        /\ t \in Nat /\ u \in Nat /\ t <= u
        /\ Timed(effect) /\ effect.duration > 0 => u < effect.duration
        /\ felt = PlayedForce(effect, motion, t)
        /\ felt' = PlayedForce(effect, motion', u)
    BY GoesOn
  <2>2. FadeScale(effect, t) <= AttackScale(effect, t)
    BY <2>1 DEF ShapeInvariant
  <2> HIDE DEF t, u
  <2> QED
    BY <2>1, <2>2, ConstantFalls
<1> QED
  BY <1>1, ShapeInductive, PTL DEF ShapeSpec, AttackThenFade

\* The change from x to y has the sign of their order.
LEMMA SignOfDifference ==
    ASSUME NEW x \in Int, NEW y \in Int
    PROVE  (x <= y => y - x >= 0) /\ (y <= x => y - x <= 0)
OBVIOUS

\* Two numbers of one sign have a product that is not negative.
LEMMA SignOfProduct ==
    ASSUME NEW x \in Int, NEW y \in Int,
           (x >= 0 /\ y >= 0) \/ (x <= 0 /\ y <= 0)
    PROVE  x * y >= 0
OBVIOUS

\* A ramp without an envelope never turns back.
THEOREM RampNeverTurns == ShapeSpec => RampSweeps
<1>1. ShapeInvariant /\ [Evaluate]_shapeVars
        => [effect.type = "ramp" /\ playing' /\ SamePass
              /\ effect.envelope.attack_ms = 0 /\ effect.envelope.fade_ms = 0
            => (effect.ramp_end - effect.ramp_start) * effect.direction
                 * (felt' - felt) >= 0]_shapeVars
  <2> SUFFICES ASSUME ShapeInvariant, Evaluate, effect.type = "ramp", playing', SamePass,
                      effect.envelope.attack_ms = 0, effect.envelope.fade_ms = 0
               PROVE  (effect.ramp_end - effect.ramp_start) * effect.direction
                        * (felt' - felt) >= 0
    OBVIOUS
  <2> DEFINE t == ElapsedInPass(effect, played)
             u == ElapsedInPass(effect, played')
             span == effect.ramp_end - effect.ramp_start
             r == RampForce(effect, t)
             q == RampForce(effect, u)
             force(x) == MulQ15(MulQ15(MulQ15(x, effect.direction), One), effect.gain)
  <2>1. /\ effect \in EffectParameters /\ motion \in Q15 /\ motion' \in Q15
        /\ t \in Nat /\ u \in Nat /\ t <= u
        /\ Timed(effect) /\ effect.duration > 0 => u < effect.duration
        /\ felt = PlayedForce(effect, motion, t)
        /\ felt' = PlayedForce(effect, motion', u)
    BY GoesOn
  <2>2. /\ effect.ramp_start \in Int /\ effect.ramp_end \in Int /\ effect.direction \in Int
        /\ effect.gain \in Nat /\ One \in Int /\ One > 0 /\ One \in Nat
    BY <2>1, ParametersType, OneOdd
  <2> HIDE DEF t, u
  <2>3. /\ r \in Int /\ q \in Int
        /\ effect.ramp_end >= effect.ramp_start => r <= q
        /\ effect.ramp_end <= effect.ramp_start => r >= q
    BY <2>1, RampGrows
  <2>4. \A x \in Nat : Scale(effect, x) = One
    BY <2>2 DEF Scale, AttackScale, FadeScale, ClampQ15, Clamp
  <2>5. felt = force(r) /\ felt' = force(q)
    <3>1. /\ AskedForce(effect, motion, t) = RampForce(effect, t)
          /\ AskedForce(effect, motion', u) = RampForce(effect, u)
      BY DEF AskedForce, Periodic, Conditional
    <3>2. Scale(effect, t) = One /\ Scale(effect, u) = One
      BY <2>1, <2>4
    <3> QED
      BY <2>1, <3>1, <3>2 DEF PlayedForce
  <2> HIDE DEF r, q
  \* Direction and gain keep or turn the order of two forces.
  <2>6. ASSUME NEW x \in Int, NEW y \in Int, x <= y
        PROVE  /\ force(x) \in Int /\ force(y) \in Int
               /\ effect.direction >= 0 => force(x) <= force(y)
               /\ effect.direction <= 0 => force(y) <= force(x)
    <3> DEFINE a == MulQ15(x, effect.direction)
               b == MulQ15(y, effect.direction)
               c == MulQ15(a, One)
               d == MulQ15(b, One)
    <3>1. a \in Int /\ b \in Int
      BY <2>2, ProductOdd
    <3>2. effect.direction >= 0 => a <= b
      <4>1. effect.direction >= 0 => effect.direction \in Nat
        BY <2>2
      <4> QED
        BY <2>6, <4>1, ProductGrows
    <3>3. effect.direction <= 0 => b <= a
      <4> SUFFICES ASSUME effect.direction <= 0 PROVE b <= a
        OBVIOUS
      <4> DEFINE back == -effect.direction
      <4>1. back \in Nat /\ back \in Int /\ -back = effect.direction
        BY <2>2
      <4> HIDE DEF back
      <4>2. /\ MulQ15(x, back) \in Int /\ MulQ15(y, back) \in Int
            /\ MulQ15(x, back) <= MulQ15(y, back)
        BY <2>6, <4>1, ProductGrows
      <4>3. a = -MulQ15(x, back) /\ b = -MulQ15(y, back)
        <5>1. /\ MulQ15(x, -back) = -MulQ15(x, back)
              /\ MulQ15(y, -back) = -MulQ15(y, back)
          BY <4>1, ProductOdd
        <5> QED
          BY <4>1, <5>1
      <4> HIDE DEF a, b
      <4> QED
        BY <4>2, <4>3
    <3> HIDE DEF a, b
    <3>4. c \in Int /\ d \in Int /\ (a <= b => c <= d) /\ (b <= a => d <= c)
      <4>1. c \in Int /\ d \in Int
        BY <2>2, <3>1, ProductOdd
      <4> QED
        BY <2>2, <3>1, <4>1, ProductGrows
    <3> HIDE DEF c, d
    <3>5. /\ MulQ15(c, effect.gain) \in Int /\ MulQ15(d, effect.gain) \in Int
          /\ c <= d => MulQ15(c, effect.gain) <= MulQ15(d, effect.gain)
          /\ d <= c => MulQ15(d, effect.gain) <= MulQ15(c, effect.gain)
      <4>1. MulQ15(c, effect.gain) \in Int /\ MulQ15(d, effect.gain) \in Int
        BY <2>2, <3>4, ProductSign
      <4> QED
        BY <2>2, <3>4, <4>1, ProductGrows
    <3>6. force(x) = MulQ15(c, effect.gain) /\ force(y) = MulQ15(d, effect.gain)
      BY DEF a, b, c, d
    <3> HIDE DEF force
    <3> QED
      BY <3>2, <3>3, <3>4, <3>5, <3>6
  <2> HIDE DEF force
  <2>7. /\ felt \in Int /\ felt' \in Int
        /\ span >= 0 /\ effect.direction >= 0 => felt <= felt'
        /\ span <= 0 /\ effect.direction <= 0 => felt <= felt'
        /\ span >= 0 /\ effect.direction <= 0 => felt' <= felt
        /\ span <= 0 /\ effect.direction >= 0 => felt' <= felt
    <3>1. span >= 0 => r <= q
      BY <2>2, <2>3
    <3>2. span <= 0 => q <= r
      BY <2>2, <2>3
    <3>3. span \in Int /\ (span >= 0 \/ span <= 0)
      BY <2>2
    <3> HIDE DEF span
    <3>4. CASE r <= q
      <4>1. /\ force(r) \in Int /\ force(q) \in Int
            /\ effect.direction >= 0 => force(r) <= force(q)
            /\ effect.direction <= 0 => force(q) <= force(r)
        BY <2>3, <2>6, <3>4
      <4>2. r = q => force(r) = force(q)
        OBVIOUS
      <4>3. span <= 0 => r = q
        BY <2>3, <3>2, <3>4
      <4> QED
        BY <2>5, <4>1, <4>2, <4>3
    <3>5. CASE q <= r
      <4>1. /\ force(r) \in Int /\ force(q) \in Int
            /\ effect.direction >= 0 => force(q) <= force(r)
            /\ effect.direction <= 0 => force(r) <= force(q)
        BY <2>3, <2>6, <3>5
      <4>2. r = q => force(r) = force(q)
        OBVIOUS
      <4>3. span >= 0 => r = q
        BY <2>3, <3>1, <3>5
      <4> QED
        BY <2>5, <4>1, <4>2, <4>3
    <3> QED
      BY <2>3, <3>4, <3>5
  <2>8. span \in Int /\ effect.direction \in Int
    BY <2>2
  <2> HIDE DEF span
  <2>9. felt' - felt \in Int
    BY <2>7
  <2>10. CASE span = 0 \/ effect.direction = 0
    <3>1. span * effect.direction = 0
      BY <2>8, <2>10
    <3> QED
      BY <2>9, <3>1 DEF span
  <2>11. CASE (span > 0 /\ effect.direction > 0) \/ (span < 0 /\ effect.direction < 0)
    <3>1. span * effect.direction >= 0 /\ span * effect.direction \in Int
      BY <2>8, <2>11
    <3>2. felt' - felt >= 0
      <4>1. felt \in Int /\ felt' \in Int
        BY <2>7
      <4>2. felt <= felt'
        BY <2>7, <2>8, <2>11
      <4> QED
        BY <4>1, <4>2, SignOfDifference
    <3>3. span * effect.direction * (felt' - felt) >= 0
      BY <2>9, <3>1, <3>2, SignOfProduct
    <3> QED
      BY <3>3 DEF span
  <2>12. CASE (span > 0 /\ effect.direction < 0) \/ (span < 0 /\ effect.direction > 0)
    <3>1. span * effect.direction <= 0 /\ span * effect.direction \in Int
      BY <2>8, <2>12
    <3>2. felt' - felt <= 0
      <4>1. felt \in Int /\ felt' \in Int
        BY <2>7
      <4>2. felt' <= felt
        BY <2>7, <2>8, <2>12
      <4> QED
        BY <4>1, <4>2, SignOfDifference
    <3>3. span * effect.direction * (felt' - felt) >= 0
      BY <2>9, <3>1, <3>2, SignOfProduct
    <3> QED
      BY <3>3 DEF span
  <2> QED
    BY <2>8, <2>10, <2>11, <2>12
<1> QED
  BY <1>1, ShapeInductive, PTL DEF ShapeSpec, RampSweeps

=============================================================================
