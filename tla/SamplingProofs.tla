---------------------------- MODULE SamplingProofs ----------------------------
(***************************************************************************)
(* The position of the wheel, for every number of counts per turn, every   *)
(* speed the sampling period can follow, and any sequence of readings.     *)
(***************************************************************************)
EXTENDS Sampling, ArithmeticProofs

-----------------------------------------------------------------------------
(* Arithmetic modulo a turn. *)

LEMMA HalfTurn == Half \in Nat \ {0} /\ Turn = 2 * Half
BY TurnAssumption DEF Half

\* An angle is what is left of a count after whole turns.
LEMMA AngleOf ==
    ASSUME NEW counts \in Int
    PROVE  /\ counts % Turn \in Angles
           /\ \E turns \in Int : counts = turns * Turn + (counts % Turn)
<1>1. Turn \in Nat \ {0}
  BY TurnAssumption
<1>2. counts % Turn \in 0 .. Turn - 1
  BY <1>1
<1>3. counts = (counts \div Turn) * Turn + (counts % Turn) /\ counts \div Turn \in Int
  BY <1>1
<1> QED
  BY <1>2, <1>3 DEF Angles

\* Less than a turn is no whole number of turns but none.
LEMMA NoTurns ==
    ASSUME NEW turns \in Int, -Turn < turns * Turn, turns * Turn < Turn
    PROVE  turns = 0
<1>1. Turn \in Nat \ {0}
  BY TurnAssumption
<1>2. turns >= 1 => turns * Turn >= Turn
  BY <1>1
<1>3. turns <= -1 => turns * Turn <= -Turn
  BY <1>1
<1> QED
  BY <1>1, <1>2, <1>3

LEMMA WholeTurns == \A turns \in Int : (turns * Turn) % Turn = 0
<1> SUFFICES ASSUME NEW turns \in Int PROVE (turns * Turn) % Turn = 0
  OBVIOUS
<1> DEFINE rest == (turns * Turn) % Turn
<1>1. Turn \in Nat \ {0} /\ turns * Turn \in Int
  BY TurnAssumption
<1>2. PICK more \in Int : turns * Turn = more * Turn + rest
  BY <1>1, AngleOf
<1>3. rest \in 0 .. Turn - 1
  BY <1>1, AngleOf DEF Angles
<1>4. (turns - more) * Turn = rest
  <2> HIDE DEF rest
  <2> QED
    BY <1>1, <1>2, <1>3
<1>5. turns - more = 0
  <2> HIDE DEF rest
  <2> QED
    BY <1>1, <1>3, <1>4, NoTurns
<1>6. rest = 0
  <2> HIDE DEF rest
  <2> QED
    BY <1>1, <1>3, <1>4, <1>5
<1> QED
  BY <1>6

\* The shorter way is the difference up to a turn, and at most half of one.
LEMMA DeltaWraps ==
    ASSUME NEW current \in Angles, NEW previous \in Angles
    PROVE  /\ WrappedDelta(current, previous) \in -Half .. Half
           /\ \E turns \in {-1, 0, 1} :
                 WrappedDelta(current, previous) = current - previous + turns * Turn
<1>1. Half \in Nat \ {0} /\ Turn = 2 * Half
  BY HalfTurn
<1> QED
  BY <1>1 DEF WrappedDelta, Angles

LEMMA ZeroIsCentre ==
    ASSUME NEW raw \in Angles
    PROVE  RelativeToZero(raw, raw) = 0
<1>1. Turn \in Nat \ {0} /\ Half \in Nat \ {0}
  BY TurnAssumption, HalfTurn
<1>2. raw % Turn = raw
  BY <1>1 DEF Angles
<1> QED
  BY <1>1, <1>2 DEF RelativeToZero, WrappedDelta, Angles

LEMMA AxisInRange == \A counts \in Int : CountsToHid(counts) \in Q15
<1> SUFFICES ASSUME NEW counts \in Int PROVE CountsToHid(counts) \in Q15
  OBVIOUS
<1>1. counts * One \in Int /\ Half \in Nat \ {0} /\ One \in Nat
  BY HalfTurn, OneAssumption
<1>2. Quotient(counts * One, Half) \in Int
  BY <1>1 DEF Quotient
<1> QED
  BY <1>1, <1>2 DEF CountsToHid, ClampQ15, Clamp, Q15

-----------------------------------------------------------------------------
(* AxisEncoderMath::update. *)

Encoders == [initialized : BOOLEAN, previous_raw : Angles, position : Int]

\* A position shows its angle against the zero, up to whole turns.
ShowsAngle(e, c) ==
    \E turns \in Int :
        c.direction * e.position = e.previous_raw - c.zero_offset + turns * Turn

\* A direction is its own inverse.
LEMMA DirectionTwice ==
    ASSUME NEW direction \in AxisDirections, NEW x \in Int
    PROVE  direction * x \in Int /\ direction * (direction * x) = x
<1>1. CASE direction = 1
  BY <1>1
<1>2. CASE direction = -1
  BY <1>2
<1> QED
  BY <1>1, <1>2 DEF AxisDirections

LEMMA UpdateMoves ==
    ASSUME NEW e \in Encoders, NEW raw \in Angles, NEW c \in EncoderConfigs, e.initialized
    PROVE  c.direction * Updated(e, raw, c).position
             = c.direction * e.position + WrappedDelta(raw, e.previous_raw)
<1> DEFINE delta == WrappedDelta(raw, e.previous_raw)
<1>1. delta \in Int
  BY DeltaWraps, HalfTurn DEF Encoders
<1>2. c.direction \in AxisDirections /\ e.position \in Int
  BY DEF Encoders, EncoderConfigs
<1>3. Updated(e, raw, c).position = e.position + c.direction * delta
  BY DEF Updated, Encoders
<1>4. c.direction * delta \in Int /\ c.direction * (c.direction * delta) = delta
  BY <1>1, <1>2, DirectionTwice
<1> HIDE DEF delta
<1>5. CASE c.direction = 1
  BY <1>1, <1>2, <1>3, <1>5 DEF delta
<1>6. CASE c.direction = -1
  BY <1>1, <1>2, <1>3, <1>6 DEF delta
<1> QED
  BY <1>2, <1>5, <1>6 DEF AxisDirections

\* The first angle is shown against the zero itself.
LEMMA FirstShows ==
    ASSUME NEW e \in Encoders, NEW raw \in Angles, NEW c \in EncoderConfigs, ~e.initialized
    PROVE  /\ Updated(e, raw, c).position = c.direction * RelativeToZero(raw, c.zero_offset)
           /\ Updated(e, raw, c).position \in Int
           /\ c.zero_offset = raw => Updated(e, raw, c).position = 0
           /\ ShowsAngle(Updated(e, raw, c), c)
<1> DEFINE zero == c.zero_offset
           delta == RelativeToZero(raw, zero)
<1>1. zero \in Angles /\ c.direction \in AxisDirections
  BY DEF EncoderConfigs
<1>2. zero % Turn = zero
  BY <1>1, TurnAssumption DEF Angles
<1>3. delta \in Int /\ \E turns \in {-1, 0, 1} : delta = raw - zero + turns * Turn
  <2> HIDE DEF zero
  <2> QED
    BY <1>1, <1>2, DeltaWraps, HalfTurn DEF RelativeToZero
<1>4. /\ Updated(e, raw, c).position = c.direction * delta
      /\ Updated(e, raw, c).previous_raw = raw
  BY DEF Updated
<1>5. zero = raw => delta = 0
  BY ZeroIsCentre
<1> HIDE DEF delta
<1>6. c.direction * delta \in Int /\ c.direction * (c.direction * delta) = delta
  BY <1>1, <1>3, DirectionTwice
<1>7. delta = 0 => c.direction * delta = 0
  BY <1>1 DEF AxisDirections
<1>8. ShowsAngle(Updated(e, raw, c), c)
  BY <1>3, <1>4, <1>6 DEF ShowsAngle
<1> QED
  BY <1>4, <1>5, <1>6, <1>7, <1>8 DEF delta

LEMMA UpdateTypes ==
    ASSUME NEW e \in Encoders, NEW raw \in Angles, NEW c \in EncoderConfigs
    PROVE  /\ Updated(e, raw, c) \in Encoders
           /\ Updated(e, raw, c).initialized
           /\ Updated(e, raw, c).previous_raw = raw
<1>1. CASE ~e.initialized
  <2> DEFINE position == c.direction * RelativeToZero(raw, c.zero_offset)
  <2>1. Updated(e, raw, c) =
          [initialized |-> TRUE, previous_raw |-> raw, position |-> position]
    BY <1>1 DEF Updated
  <2>2. position \in Int
    BY <1>1, FirstShows
  <2> HIDE DEF position
  <2> QED
    BY <2>1, <2>2 DEF Encoders
<1>2. CASE e.initialized
  <2> DEFINE position == e.position + c.direction * WrappedDelta(raw, e.previous_raw)
  <2>1. WrappedDelta(raw, e.previous_raw) \in Int
    BY DeltaWraps, HalfTurn DEF Encoders
  <2>2. c.direction * WrappedDelta(raw, e.previous_raw) \in Int
    BY <2>1, DirectionTwice DEF EncoderConfigs
  <2>3. position \in Int
    BY <2>2 DEF Encoders
  <2>4. Updated(e, raw, c) =
          [initialized |-> e.initialized, previous_raw |-> raw, position |-> position]
    BY <1>2 DEF Updated, Encoders
  <2> HIDE DEF position
  <2> QED
    BY <1>2, <2>3, <2>4 DEF Encoders
<1> QED
  BY <1>1, <1>2

LEMMA UpdateShows ==
    ASSUME NEW e \in Encoders, NEW raw \in Angles, NEW c \in EncoderConfigs,
           e.initialized => ShowsAngle(e, c)
    PROVE  ShowsAngle(Updated(e, raw, c), c)
<1>1. CASE ~e.initialized
  BY <1>1, FirstShows
<1>2. CASE e.initialized
  <2>1. PICK turns \in Int :
          c.direction * e.position = e.previous_raw - c.zero_offset + turns * Turn
    BY <1>2 DEF ShowsAngle
  <2>2. PICK more \in {-1, 0, 1} :
          WrappedDelta(raw, e.previous_raw) = raw - e.previous_raw + more * Turn
    BY DeltaWraps DEF Encoders
  <2>3. e.previous_raw \in Int /\ c.zero_offset \in Int /\ raw \in Int /\ Turn \in Int
    BY TurnAssumption DEF Encoders, EncoderConfigs, Angles
  <2>4. (turns + more) * Turn = turns * Turn + more * Turn
    BY <2>3
  <2>5. c.direction * Updated(e, raw, c).position
          = raw - c.zero_offset + (turns + more) * Turn
    BY <1>2, <2>1, <2>2, <2>3, <2>4, UpdateMoves
  <2> QED
    BY <2>5, UpdateTypes DEF ShowsAngle
<1> QED
  BY <1>1, <1>2

-----------------------------------------------------------------------------
(* Types. *)

LEMMA SampledControls ==
    ASSUME NEW c \in ControlsSet, NEW pressed \in SUBSET Buttons
    PROVE  ControlsSample(c, pressed) \in ControlsSet
<1>1. DebounceTicks \in Nat \ {0}
  BY WheelControlsAssumption
<1>2. IntegratorAfter(c, pressed) \in [Buttons -> 0 .. DebounceTicks]
  BY <1>1 DEF IntegratorAfter, ControlsSet
<1> QED
  BY <1>2 DEF ControlsSample, ControlsSet

LEMMA GestureTypes ==
    ASSUME TypeOK, NEW held \in BOOLEAN, NEW valid \in BOOLEAN
    PROVE  GestureAfter(held, valid) \in [hold : 0 .. HoldTicks, latched : BOOLEAN]
<1>1. HoldTicks \in Nat \ {0}
  BY SamplingAssumption
<1> QED
  BY <1>1 DEF GestureAfter, TypeOK, Clamp

LEMMA TurnsTypes ==
    ASSUME TypeOK, NEW step \in -MaxStep .. MaxStep, Turns(step)
    PROVE  /\ wheel' \in Int
           /\ wheel' = wheel + step
           /\ wheel' % Turn \in Angles
           /\ at' = "buttons"
           /\ UNCHANGED controlsVars
<1>1. MaxStep \in Nat
  BY SamplingAssumption
<1>2. wheel' \in Int /\ wheel' = wheel + step
  BY <1>1 DEF TypeOK, Turns
<1> QED
  BY <1>2, AngleOf DEF Turns

LEMMA InitTypes == Init => TypeOK
<1> SUFFICES ASSUME Init PROVE TypeOK
  OBVIOUS
<1>1. /\ Turn \in Nat \ {0} /\ One \in Nat \ {0} /\ DebounceTicks \in Nat \ {0}
      /\ HoldTicks \in Nat \ {0} /\ FailureLimit \in Nat \ {0} /\ Configs \subseteq EncoderConfigs
  BY TurnAssumption, OneAssumption, WheelControlsAssumption, SamplingAssumption
<1>2. {wheel, seen, home} \subseteq Int
  BY <1>1 DEF Init, Angles
<1>3. controls \in ControlsSet
  BY <1>1 DEF Init, ControlsInitialize, ControlsSet
<1>4. /\ encoder \in [initialized : BOOLEAN, previous_raw : Angles, position : Int]
      /\ sample \in [io_ok : BOOLEAN, magnet : BOOLEAN, raw : Angles]
      /\ last \in [raw : Angles, valid : BOOLEAN]
  BY <1>1 DEF Init, ResetEncoder, NoReading, Angles
<1>5. axis \in Q15
  BY <1>1 DEF Init, Q15
<1>6. steady \in [Buttons -> -DebounceTicks .. DebounceTicks]
  BY <1>1 DEF Init
<1>7. /\ gesture \in [hold : 0 .. HoldTicks, latched : BOOLEAN]
      /\ io_failures \in 0 .. FailureLimit
      /\ held_for \in 0 .. HoldTicks
      /\ since \in 0 .. HoldTicks + DebounceTicks
  BY <1>1 DEF Init
<1> QED
  BY <1>1, <1>2, <1>3, <1>4, <1>5, <1>6, <1>7 DEF Init, TypeOK

LEMMA FollowTypes ==
    ASSUME TypeOK, NEW step \in -MaxStep .. MaxStep, Follow(step)
    PROVE  TypeOK'
<1> DEFINE raw == (wheel + step) % Turn
           before == IF last.valid THEN encoder ELSE ResetEncoder
<1>1. wheel' \in Int /\ raw \in Angles /\ at' = "buttons" /\ UNCHANGED controlsVars
  BY TurnsTypes DEF Follow, Turns
<1>2. config' \in EncoderConfigs
  BY <1>1 DEF Follow, TypeOK, EncoderConfigs
<1>3. before \in Encoders
  BY TurnAssumption DEF TypeOK, ResetEncoder, Encoders, Angles
<1>4. encoder' = Updated(before, raw, config')
  BY DEF Follow
<1> HIDE DEF raw, before
<1>5. encoder' \in Encoders
  BY <1>1, <1>2, <1>3, <1>4, UpdateTypes
<1>6. axis' \in Q15
  BY <1>5, AxisInRange DEF Follow, Encoders
<1>7. config.direction * encoder'.position \in Int
  BY <1>5, DirectionTwice DEF TypeOK, EncoderConfigs, Encoders
<1>8. home' \in Int /\ seen' \in Int
  BY <1>1, <1>7 DEF Follow, TypeOK
<1>9. sample' = Reading(TRUE, raw) /\ last' = [raw |-> raw, valid |-> TRUE] /\ io_failures' = 0
      /\ auto_center' = FALSE /\ reported' \in BOOLEAN
  BY DEF Follow, raw, TypeOK, Implausible
<1>10. 0 \in 0 .. FailureLimit
  BY SamplingAssumption
<1> QED
  BY <1>1, <1>2, <1>5, <1>6, <1>8, <1>9, <1>10 DEF TypeOK, Reading, Encoders, controlsVars

LEMMA CenterTypes ==
    ASSUME TypeOK, CenterHere
    PROVE  /\ config' \in EncoderConfigs /\ config'.zero_offset = sample.raw
           /\ config'.direction = config.direction
           /\ encoder' \in Encoders /\ encoder'.initialized
           /\ encoder'.previous_raw = sample.raw /\ encoder'.position = 0
           /\ ShowsAngle(encoder', config')
           /\ axis' \in Q15
<1>1. sample.raw \in Angles
  BY DEF TypeOK
<1>2. /\ config' \in EncoderConfigs /\ config'.zero_offset = sample.raw
      /\ config'.direction = config.direction
  BY <1>1 DEF CenterHere, TypeOK, EncoderConfigs
<1>3. ResetEncoder \in Encoders /\ ~ResetEncoder.initialized
  BY TurnAssumption DEF ResetEncoder, Encoders, Angles
<1>4. encoder' = Updated(ResetEncoder, sample.raw, config')
  BY DEF CenterHere
<1>5. /\ encoder' \in Encoders /\ encoder'.initialized
      /\ encoder'.previous_raw = sample.raw
  BY <1>1, <1>2, <1>3, <1>4, UpdateTypes
<1>6. encoder'.position = 0 /\ ShowsAngle(encoder', config')
  BY <1>1, <1>2, <1>3, <1>4, FirstShows
<1>7. axis' \in Q15
  BY <1>5, AxisInRange DEF CenterHere, Encoders
<1> QED
  BY <1>2, <1>5, <1>6, <1>7

LEMMA ControlsTypes ==
    ASSUME TypeOK, NEW pressed \in SUBSET Buttons, SampleControls(pressed)
    PROVE  TypeOK'
<1>1. HoldTicks \in Nat \ {0} /\ DebounceTicks \in Nat \ {0} /\ 0 \in 0 .. FailureLimit
  BY SamplingAssumption, WheelControlsAssumption
<1>2. controls' \in ControlsSet
  BY SampledControls DEF SampleControls, TypeOK
<1>3. BothPaddlesHeld(controls') \in BOOLEAN /\ ReferenceValid(sample) \in BOOLEAN
  BY DEF BothPaddlesHeld, ReferenceValid, TypeOK
<1>4. gesture' \in [hold : 0 .. HoldTicks, latched : BOOLEAN]
  BY <1>3, GestureTypes DEF SampleControls
<1>5. held_for' \in 0 .. HoldTicks /\ since' \in 0 .. HoldTicks + DebounceTicks
  BY <1>1 DEF SampleControls, TypeOK, Clamp
<1>6. steady' \in [Buttons -> -DebounceTicks .. DebounceTicks]
  BY <1>1 DEF SampleControls, SteadyAfter, TypeOK, Clamp
<1>7. CASE Centering
  <2>1. CenterHere
    BY <1>7 DEF SampleControls
  <2>2. /\ config' \in EncoderConfigs /\ encoder' \in Encoders /\ axis' \in Q15
    BY <2>1, CenterTypes
  <2>3. /\ UNCHANGED <<wheel, io_failures, sample, seen>> /\ home' = seen
        /\ last' = [raw |-> sample.raw, valid |-> TRUE]
        /\ auto_center' = FALSE /\ reported' = FALSE
    BY <2>1 DEF CenterHere
  <2>4. at' = "read"
    BY DEF SampleControls
  <2> QED
    BY <1>2, <1>4, <1>5, <1>6, <2>2, <2>3, <2>4 DEF TypeOK, Encoders
<1>8. CASE ~Centering
  <2>1. UNCHANGED axisVars /\ at' = "read"
    BY <1>8 DEF SampleControls
  <2> QED
    BY <1>2, <1>4, <1>5, <1>6, <2>1 DEF TypeOK, axisVars
<1> QED
  BY <1>7, <1>8

LEMMA StepTypes == TypeOK /\ [Next]_vars => TypeOK'
<1> SUFFICES ASSUME TypeOK, [Next]_vars PROVE TypeOK'
  OBVIOUS
<1>1. ASSUME NEW c \in Configs, ReplaceConfig(c) PROVE TypeOK'
  <2>1. c \in EncoderConfigs /\ ResetEncoder \in Encoders
    BY SamplingAssumption, TurnAssumption DEF ResetEncoder, Encoders, Angles
  <2> QED
    BY <1>1, <2>1 DEF ReplaceConfig, TypeOK, Encoders, controlsVars
<1>2. ASSUME NEW step \in -MaxStep .. MaxStep, ReadFails(step) PROVE TypeOK'
  <2>1. wheel' \in Int /\ at' = "buttons" /\ UNCHANGED controlsVars
    BY <1>2, TurnsTypes DEF ReadFails
  <2>2. io_failures' \in 0 .. FailureLimit
    BY <1>2, SamplingAssumption DEF ReadFails, TypeOK
  <2>3. sample' \in [io_ok : BOOLEAN, magnet : BOOLEAN, raw : Angles]
    BY <1>2, TurnAssumption DEF ReadFails, NoReading, Angles
  <2>4. /\ UNCHANGED <<config, encoder, last, auto_center, axis, seen, home>>
        /\ reported' \in BOOLEAN
    BY <1>2 DEF ReadFails, TypeOK
  <2> QED
    BY <2>1, <2>2, <2>3, <2>4 DEF TypeOK, controlsVars
<1>3. ASSUME NEW step \in -MaxStep .. MaxStep, ReadWithoutMagnet(step) PROVE TypeOK'
  <2>1. wheel' \in Int /\ at' = "buttons" /\ UNCHANGED controlsVars /\ wheel' % Turn \in Angles
    BY <1>3, TurnsTypes DEF ReadWithoutMagnet
  <2>2. 0 \in 0 .. FailureLimit /\ 0 \in Q15
    BY SamplingAssumption, OneAssumption DEF Q15
  <2>3. /\ sample' = Reading(FALSE, wheel' % Turn) /\ io_failures' = 0
        /\ last' = [last EXCEPT !.valid = FALSE] /\ axis' = 0 /\ reported' = TRUE
        /\ UNCHANGED <<config, encoder, auto_center, seen, home>>
    BY <1>3 DEF ReadWithoutMagnet
  <2> QED
    BY <2>1, <2>2, <2>3 DEF TypeOK, controlsVars, Reading
<1>4. ASSUME NEW pressed \in Presses, SampleControls(pressed) PROVE TypeOK'
  BY <1>4, ControlsTypes, SamplingAssumption
<1>5. CASE UNCHANGED vars
  BY <1>5 DEF TypeOK, vars, axisVars, controlsVars
<1> QED
  BY <1>1, <1>2, <1>3, <1>4, <1>5, FollowTypes DEF Next, ReadEncoder

\* Every variable of a tick keeps its range, the axis its 16 bits.
THEOREM TypeCorrect == Spec => []TypeOK
  BY InitTypes, StepTypes, PTL DEF Spec

-----------------------------------------------------------------------------
(* The position follows the wheel. *)

\* What the loop remembers of the last good reading is that reading, and an
\* encoder that counts has not heard of a fault counts from it.
ReadingInvariant ==
    /\ at = "buttons" /\ ReferenceValid(sample) =>
          last.valid /\ seen = wheel /\ sample.raw = last.raw /\ io_failures = 0
    /\ last.valid => last.raw = seen % Turn
    /\ encoder.initialized => ~auto_center
    /\ encoder.initialized /\ last.valid => encoder.previous_raw = last.raw
    /\ encoder.initialized /\ ~reported => last.valid /\ io_failures < FailureLimit

\* The wheel is no further from where it was last seen than it can turn in
\* the ticks lost since.
WithinReach ==
    encoder.initialized /\ ~reported =>
        /\ -(io_failures * MaxStep) <= wheel - seen
        /\ wheel - seen <= io_failures * MaxStep

AngleInvariant == encoder.initialized => ShowsAngle(encoder, config)

TrackInvariant == ReadingInvariant /\ WithinReach /\ AngleInvariant /\ PositionTracks

\* A tick later the wheel may be a step further away.
LEMMA ReachGrows ==
    ASSUME NEW n \in Nat, NEW step \in -MaxStep .. MaxStep, NEW from \in Int, NEW to \in Int,
           -(n * MaxStep) <= to - from, to - from <= n * MaxStep
    PROVE  /\ (n + 1) * MaxStep \in Int
           /\ -((n + 1) * MaxStep) <= (to + step) - from
           /\ (to + step) - from <= (n + 1) * MaxStep
<1> DEFINE reach == n * MaxStep
           further == (n + 1) * MaxStep
<1>1. MaxStep \in Nat
  BY SamplingAssumption
<1>2. reach \in Int /\ further = reach + MaxStep
  BY <1>1
<1>3. -reach <= to - from /\ to - from <= reach
  OBVIOUS
<1> HIDE DEF reach, further
<1>4. further \in Int /\ -further <= (to + step) - from /\ (to + step) - from <= further
  BY <1>1, <1>2, <1>3
<1> QED
  BY <1>4 DEF further

\* Fewer lost ticks than the limit leave the wheel within a turn of any
\* plausible movement.
LEMMA ReachBounded ==
    ASSUME NEW n \in Nat, n < FailureLimit
    PROVE  (n + 1) * MaxStep + Plausible < Turn
<1>1. /\ FailureLimit \in Nat /\ MaxStep \in Nat /\ Plausible \in Nat /\ Turn \in Nat
      /\ FailureLimit * MaxStep + Plausible < Turn
  BY SamplingAssumption, SpeedAssumption, TurnAssumption
<1>2. (n + 1) * MaxStep <= FailureLimit * MaxStep
  <2> DEFINE slack == FailureLimit - (n + 1)
  <2>1. slack \in Nat
    BY <1>1
  <2>2. FailureLimit * MaxStep = (n + 1) * MaxStep + slack * MaxStep
    BY <1>1
  <2>3. slack * MaxStep \in Nat /\ (n + 1) * MaxStep \in Int /\ FailureLimit * MaxStep \in Int
    BY <1>1, <2>1
  <2> QED
    BY <2>2, <2>3
<1>3. FailureLimit * MaxStep \in Int /\ (n + 1) * MaxStep \in Int
  BY <1>1
<1> QED
  BY <1>1, <1>2, <1>3

\* A movement within reach whose angles differ plausibly is that difference.
LEMMA PlausibleIsTrue ==
    ASSUME NEW from \in Int, NEW to \in Int, NEW reach \in Int,
           -reach <= to - from, to - from <= reach, reach + Plausible < Turn,
           Abs32(WrappedDelta(to % Turn, from % Turn)) <= Plausible
    PROVE  WrappedDelta(to % Turn, from % Turn) = to - from
<1> DEFINE delta == WrappedDelta(to % Turn, from % Turn)
           there == to % Turn
           here == from % Turn
<1>1. Turn \in Nat \ {0} /\ Plausible \in Nat
  BY TurnAssumption, SamplingAssumption
<1>2. there \in Int /\ here \in Int
  BY <1>1
<1>3. PICK m \in Int : to = m * Turn + there
  BY AngleOf
<1>4. PICK n \in Int : from = n * Turn + here
  BY AngleOf
<1>5. PICK k \in {-1, 0, 1} : delta = there - here + k * Turn
  BY AngleOf, DeltaWraps
<1>6. delta \in Int
  <2>1. there \in Angles /\ here \in Angles
    BY AngleOf
  <2> HIDE DEF there, here
  <2>2. WrappedDelta(there, here) \in -Half .. Half
    BY <2>1, DeltaWraps
  <2> QED
    BY <2>2, HalfTurn DEF there, here
<1>7. -Plausible <= delta /\ delta <= Plausible
  <2> HIDE DEF delta
  <2>1. Abs32(delta) <= Plausible
    BY DEF delta
  <2> QED
    BY <1>1, <1>6, <2>1 DEF Abs32
<1> HIDE DEF delta, there, here
<1>8. (m - n - k) * Turn = m * Turn - n * Turn - k * Turn
      /\ m * Turn \in Int /\ n * Turn \in Int /\ k * Turn \in Int
  BY <1>1
<1>9. (to - from) - delta = (m - n - k) * Turn
  BY <1>2, <1>3, <1>4, <1>5, <1>8
<1>10. -Turn < (to - from) - delta /\ (to - from) - delta < Turn
  BY <1>1, <1>6, <1>7
<1>11. m - n - k = 0
  BY <1>9, <1>10, NoTurns
<1>12. 0 * Turn = 0
  BY <1>1
<1>13. (to - from) - delta = 0
  BY <1>9, <1>11, <1>12
<1> QED
  BY <1>6, <1>13 DEF delta, there, here

LEMMA InitTracks == Init => TrackInvariant
BY DEF Init, ResetEncoder, NoReading, TrackInvariant, ReadingInvariant, WithinReach,
       AngleInvariant, PositionTracks, ReferenceValid

LEMMA FailTracks ==
    ASSUME TypeOK, TrackInvariant, NEW step \in -MaxStep .. MaxStep, ReadFails(step)
    PROVE  TrackInvariant'
<1>1. /\ wheel' = wheel + step /\ wheel' \in Int /\ at' = "buttons"
      /\ UNCHANGED <<config, encoder, last, auto_center, seen, home>>
      /\ sample' = NoReading
      /\ io_failures' = IF io_failures < FailureLimit THEN io_failures + 1 ELSE io_failures
      /\ reported' = (reported \/ io_failures' >= FailureLimit)
  BY TurnsTypes DEF ReadFails
<1>2. io_failures \in Nat /\ FailureLimit \in Nat /\ io_failures' \in Nat /\ seen \in Int
      /\ wheel \in Int
  BY <1>1, SamplingAssumption DEF TypeOK
<1>3. ReadingInvariant'
  <2>1. ~ReferenceValid(sample')
    BY <1>1 DEF NoReading, ReferenceValid
  <2>2. ~reported' => ~reported /\ io_failures' < FailureLimit
    <3>1. ~reported' => ~reported /\ ~(io_failures' >= FailureLimit)
      BY <1>1, Zenon
    <3>2. ~(io_failures' >= FailureLimit) => io_failures' < FailureLimit
      BY <1>2
    <3> QED
      BY <3>1, <3>2, Zenon
  <2>3. ReadingInvariant
    BY DEF TrackInvariant
  <2> QED
    BY <1>1, <2>1, <2>2, <2>3 DEF ReadingInvariant, ReferenceValid
<1>4. WithinReach'
  <2> SUFFICES ASSUME encoder'.initialized, ~reported'
               PROVE  /\ -(io_failures' * MaxStep) <= wheel' - seen'
                      /\ wheel' - seen' <= io_failures' * MaxStep
    BY DEF WithinReach
  <2>1. ~reported /\ encoder.initialized /\ io_failures' = io_failures + 1
    BY <1>1, <1>2 DEF TrackInvariant, ReadingInvariant
  <2>2. /\ -(io_failures * MaxStep) <= wheel - seen
        /\ wheel - seen <= io_failures * MaxStep
    BY <2>1 DEF TrackInvariant, WithinReach
  <2> QED
    BY <1>1, <1>2, <2>1, <2>2, ReachGrows
<1>5. AngleInvariant'
  BY <1>1 DEF TrackInvariant, AngleInvariant, ShowsAngle
<1>6. PositionTracks'
  BY <1>1 DEF TrackInvariant, PositionTracks
<1> QED
  BY <1>3, <1>4, <1>5, <1>6 DEF TrackInvariant

LEMMA MagnetTracks ==
    ASSUME TypeOK, TrackInvariant, NEW step \in -MaxStep .. MaxStep, ReadWithoutMagnet(step)
    PROVE  TrackInvariant'
<1>1. /\ UNCHANGED <<config, encoder, auto_center, seen, home>> /\ reported' = TRUE
      /\ ~sample'.magnet /\ ~last'.valid
  BY DEF ReadWithoutMagnet, Reading, TypeOK
<1>2. ReadingInvariant' /\ WithinReach'
  BY <1>1 DEF TrackInvariant, ReadingInvariant, WithinReach, ReferenceValid
<1>3. AngleInvariant' /\ PositionTracks'
  BY <1>1 DEF TrackInvariant, AngleInvariant, ShowsAngle, PositionTracks
<1> QED
  BY <1>2, <1>3 DEF TrackInvariant

LEMMA FollowTracks ==
    ASSUME TypeOK, TrackInvariant, NEW step \in -MaxStep .. MaxStep, Follow(step)
    PROVE  TrackInvariant'
<1> DEFINE raw == (wheel + step) % Turn
           before == IF last.valid THEN encoder ELSE ResetEncoder
<1>1. /\ wheel' = wheel + step /\ wheel' \in Int /\ raw \in Angles /\ at' = "buttons"
  BY TurnsTypes DEF Follow, Turns
<1>2. /\ sample' = Reading(TRUE, raw) /\ io_failures' = 0 /\ auto_center' = FALSE
      /\ last' = [raw |-> raw, valid |-> TRUE] /\ seen' = wheel'
      /\ encoder' = Updated(before, raw, config')
      /\ config' = IF auto_center THEN [config EXCEPT !.zero_offset = raw] ELSE config
      /\ home' = IF encoder.initialized THEN home
                 ELSE wheel' - config.direction * encoder'.position
      /\ reported' = (encoder.initialized /\ (reported \/ Implausible(raw)))
  BY DEF Follow
<1>3. raw = wheel' % Turn
  BY <1>1
<1>4. config' \in EncoderConfigs /\ config'.direction = config.direction
      /\ config.direction \in AxisDirections
  BY <1>1, <1>2 DEF TypeOK, EncoderConfigs
<1>5. before \in Encoders /\ ~ResetEncoder.initialized
  BY TurnAssumption DEF TypeOK, ResetEncoder, Encoders, Angles
<1>6. encoder.initialized => config' = config
  BY <1>2 DEF TrackInvariant, ReadingInvariant
<1>7. before.initialized => before = encoder /\ last.valid
  BY <1>5
<1> HIDE DEF raw, before
<1>8. encoder' \in Encoders /\ encoder'.initialized /\ encoder'.previous_raw = raw
  BY <1>1, <1>2, <1>4, <1>5, UpdateTypes
<1>9. ReadingInvariant'
  <2>1. FailureLimit > 0
    BY SamplingAssumption
  <2> QED
    BY <1>2, <1>3, <1>8, <2>1 DEF ReadingInvariant, Reading, ReferenceValid
<1>10. WithinReach'
  <2>1. MaxStep \in Nat
    BY SamplingAssumption
  <2> QED
    BY <1>1, <1>2, <2>1 DEF WithinReach
<1>11. AngleInvariant'
  <2>1. before.initialized => ShowsAngle(before, config')
    BY <1>6, <1>7 DEF TrackInvariant, AngleInvariant
  <2>2. ShowsAngle(Updated(before, raw, config'), config')
    BY <1>1, <1>4, <1>5, <2>1, UpdateShows
  <2> QED
    BY <1>2, <2>2 DEF AngleInvariant, ShowsAngle
<1>12. PositionTracks'
  <2> SUFFICES ASSUME ~reported'
               PROVE  config'.direction * encoder'.position = seen' - home'
    BY DEF PositionTracks
  <2>1. CASE ~encoder.initialized
    <3>1. config.direction * encoder'.position \in Int
      BY <1>4, <1>8, DirectionTwice DEF Encoders
    <3> QED
      BY <1>1, <1>2, <1>4, <2>1, <3>1
  <2>2. CASE encoder.initialized
    <3>1. ~reported /\ ~Implausible(raw) /\ last.valid /\ io_failures < FailureLimit
      BY <1>2, <2>2 DEF TrackInvariant, ReadingInvariant
    <3>2. before = encoder /\ config' = config
      BY <1>6, <2>2, <3>1 DEF before
    <3>3. encoder.previous_raw = last.raw /\ last.raw = seen % Turn
      BY <2>2, <3>1 DEF TrackInvariant, ReadingInvariant
    <3>4. /\ -(io_failures * MaxStep) <= wheel - seen
          /\ wheel - seen <= io_failures * MaxStep
      BY <2>2, <3>1 DEF TrackInvariant, WithinReach
    <3>5. io_failures \in Nat /\ wheel \in Int /\ seen \in Int /\ home \in Int
      BY SamplingAssumption DEF TypeOK
    <3>6. /\ -((io_failures + 1) * MaxStep) <= wheel' - seen
          /\ wheel' - seen <= (io_failures + 1) * MaxStep
          /\ (io_failures + 1) * MaxStep \in Int
      BY <1>1, <3>4, <3>5, ReachGrows
    <3>7. (io_failures + 1) * MaxStep + Plausible < Turn
      BY <3>1, <3>5, ReachBounded
    <3>8. WrappedDelta(raw, encoder.previous_raw) \in Int
      BY <1>1, DeltaWraps, HalfTurn DEF TypeOK
    <3>9. Abs32(WrappedDelta(raw, encoder.previous_raw)) <= Plausible
      <4> DEFINE delta == WrappedDelta(raw, encoder.previous_raw)
      <4>1. ~(Abs32(delta) > Plausible) /\ Plausible \in Nat /\ delta \in Int
        BY <3>1, <3>3, <3>8, SamplingAssumption DEF Implausible
      <4> HIDE DEF delta
      <4>2. Abs32(delta) <= Plausible
        BY <4>1 DEF Abs32
      <4> QED
        BY <4>2 DEF delta
    <3>10. WrappedDelta(raw, encoder.previous_raw) = wheel' - seen
      BY <1>1, <1>3, <3>3, <3>5, <3>6, <3>7, <3>9, PlausibleIsTrue
    <3>11. config.direction * encoder'.position
             = config.direction * encoder.position + (wheel' - seen)
      BY <1>1, <1>2, <1>4, <1>5, <2>2, <3>2, <3>10, UpdateMoves
    <3>12. config.direction * encoder.position = seen - home
      BY <2>2, <3>1 DEF TrackInvariant, PositionTracks
    <3> QED
      BY <1>1, <1>2, <2>2, <3>2, <3>5, <3>11, <3>12
  <2> QED
    BY <2>1, <2>2
<1> QED
  BY <1>9, <1>10, <1>11, <1>12 DEF TrackInvariant

LEMMA ControlsTrack ==
    ASSUME TypeOK, TrackInvariant, NEW pressed \in SUBSET Buttons, SampleControls(pressed)
    PROVE  TrackInvariant'
<1>1. at' = "read"
  BY DEF SampleControls
<1>2. CASE Centering
  <2>1. CenterHere /\ ReferenceValid(sample) /\ at = "buttons"
    BY <1>2 DEF SampleControls, Centering, GestureAfter, TypeOK
  <2>2. last.valid /\ seen = wheel /\ sample.raw = last.raw /\ io_failures = 0
        /\ last.raw = seen % Turn
    BY <2>1 DEF TrackInvariant, ReadingInvariant
  <2>3. /\ encoder'.initialized /\ encoder'.previous_raw = sample.raw
        /\ encoder'.position = 0 /\ ShowsAngle(encoder', config')
        /\ config'.direction \in AxisDirections
    BY <2>1, CenterTypes DEF EncoderConfigs
  <2>4. /\ UNCHANGED <<wheel, io_failures, sample, seen>> /\ home' = seen
        /\ last' = [raw |-> sample.raw, valid |-> TRUE]
        /\ auto_center' = FALSE /\ reported' = FALSE
    BY <2>1 DEF CenterHere
  <2>5. /\ FailureLimit \in Nat \ {0} /\ MaxStep \in Nat /\ wheel \in Int /\ seen \in Int
        /\ config'.direction * 0 = 0
    BY <2>3, SamplingAssumption DEF TypeOK, AxisDirections
  <2>6. ReadingInvariant'
    BY <1>1, <2>2, <2>3, <2>4, <2>5 DEF ReadingInvariant
  <2>7. WithinReach' /\ PositionTracks'
    BY <2>2, <2>3, <2>4, <2>5 DEF WithinReach, PositionTracks
  <2>8. AngleInvariant'
    BY <2>3 DEF AngleInvariant, ShowsAngle
  <2> QED
    BY <2>6, <2>7, <2>8 DEF TrackInvariant
<1>3. CASE ~Centering
  <2>1. UNCHANGED axisVars
    BY <1>3 DEF SampleControls
  <2> QED
    BY <1>1, <2>1 DEF TrackInvariant, ReadingInvariant, WithinReach, AngleInvariant,
                      ShowsAngle, PositionTracks, axisVars, ReferenceValid
<1> QED
  BY <1>2, <1>3

LEMMA StepTracks == TypeOK /\ TrackInvariant /\ [Next]_vars => TrackInvariant'
<1> SUFFICES ASSUME TypeOK, TrackInvariant, [Next]_vars PROVE TrackInvariant'
  OBVIOUS
<1>1. ASSUME NEW c \in Configs, ReplaceConfig(c) PROVE TrackInvariant'
  <2>1. ~encoder'.initialized /\ at' = "read" /\ UNCHANGED <<last, seen>>
    BY <1>1 DEF ReplaceConfig, ResetEncoder
  <2> QED
    BY <2>1 DEF TrackInvariant, ReadingInvariant, WithinReach, AngleInvariant, PositionTracks
<1>2. ASSUME NEW pressed \in Presses, SampleControls(pressed) PROVE TrackInvariant'
  BY <1>2, ControlsTrack, SamplingAssumption
<1>3. CASE UNCHANGED vars
  BY <1>3 DEF vars, axisVars, TrackInvariant, ReadingInvariant, WithinReach, AngleInvariant,
              ShowsAngle, PositionTracks, ReferenceValid
<1> QED
  BY <1>1, <1>2, <1>3, FailTracks, MagnetTracks, FollowTracks DEF Next, ReadEncoder

LEMMA Inductive == Spec => [](TypeOK /\ TrackInvariant)
  BY InitTypes, StepTypes, InitTracks, StepTracks, PTL DEF Spec

\* The position shows the angle of the last reading up to whole turns.
THEOREM Congruent == Spec => []PositionCongruent
<1>1. TypeOK /\ TrackInvariant => PositionCongruent
  <2> SUFFICES ASSUME TypeOK, TrackInvariant, encoder.initialized
               PROVE  (config.direction * encoder.position
                         - (encoder.previous_raw - config.zero_offset)) % Turn = 0
    BY DEF PositionCongruent
  <2>1. PICK turns \in Int : config.direction * encoder.position
                               = encoder.previous_raw - config.zero_offset + turns * Turn
    BY DEF TrackInvariant, AngleInvariant, ShowsAngle
  <2>2. /\ encoder.previous_raw \in Int /\ config.zero_offset \in Int /\ Turn \in Int
        /\ turns * Turn \in Int
    BY TurnAssumption DEF TypeOK, EncoderConfigs, Angles
  <2>3. config.direction * encoder.position
          - (encoder.previous_raw - config.zero_offset) = turns * Turn
    BY <2>1, <2>2
  <2> QED
    BY <2>3, WholeTurns
<1> QED
  BY <1>1, Inductive, PTL

\* Unless a fault was latched since the centre was set, the position is how
\* far the wheel has turned from there.
THEOREM Tracks == Spec => []PositionTracks
<1>1. TrackInvariant => PositionTracks
  BY DEF TrackInvariant
<1> QED
  BY <1>1, Inductive, PTL

-----------------------------------------------------------------------------
(* The contacts and the gesture. *)

\* The integrator has counted at least the ticks a contact has been steady,
\* and a button changes where it ends.
DebounceInvariant ==
    \A b \in Buttons :
        /\ steady[b] > 0 => controls.integrator[b] >= steady[b]
        /\ steady[b] < 0 => controls.integrator[b] <= DebounceTicks + steady[b]
        /\ controls.integrator[b] = DebounceTicks => b \in controls.stable
        /\ controls.integrator[b] = 0 => b \notin controls.stable

\* Since the last gesture a paddle must have been let go, and its integrator
\* counted up again, before the hold is counted.
GestureInvariant ==
    /\ ~BothPaddlesHeld(controls) => ~gesture.latched /\ gesture.hold = 0
    /\ ~gesture.latched =>
          /\ gesture.hold < HoldTicks
          /\ gesture.hold <= held_for
          /\ \A b \in Paddles \ controls.stable : controls.integrator[b] + 1 <= since
          /\ BothPaddlesHeld(controls) => since >= DebounceTicks + gesture.hold

ButtonsInvariant == DebounceInvariant /\ GestureInvariant

\* What a tick does to one contact.
LEMMA ContactStep ==
    ASSUME TypeOK, NEW pressed \in SUBSET Buttons, SampleControls(pressed), NEW b \in Buttons
    PROVE  LET count == controls.integrator[b]
               after == controls'.integrator[b]
           IN  /\ count \in 0 .. DebounceTicks /\ after \in 0 .. DebounceTicks
               /\ b \in pressed => after = IF count < DebounceTicks THEN count + 1 ELSE count
               /\ b \notin pressed => after = IF count > 0 THEN count - 1 ELSE count
               /\ b \in pressed =>
                    (b \in controls'.stable <=> after = DebounceTicks \/ b \in controls.stable)
               /\ b \notin pressed =>
                    (b \in controls'.stable <=> after # 0 /\ b \in controls.stable)
<1>1. DebounceTicks \in Nat \ {0}
  BY WheelControlsAssumption
<1>2. controls.integrator \in [Buttons -> 0 .. DebounceTicks]
  BY DEF TypeOK, ControlsSet
<1>3. controls' = [integrator |-> IntegratorAfter(controls, pressed),
                   stable |-> {c \in Buttons :
                      IF c \in pressed
                      THEN IntegratorAfter(controls, pressed)[c] = DebounceTicks
                             \/ c \in controls.stable
                      ELSE IntegratorAfter(controls, pressed)[c] # 0 /\ c \in controls.stable}]
  BY DEF SampleControls, ControlsSample
<1>4. controls'.integrator[b] =
        LET count == controls.integrator[b]
        IN  IF b \in pressed
            THEN IF count < DebounceTicks THEN count + 1 ELSE count
            ELSE IF count > 0 THEN count - 1 ELSE count
  BY <1>3 DEF IntegratorAfter
<1>5. b \in controls'.stable <=>
        IF b \in pressed THEN controls'.integrator[b] = DebounceTicks \/ b \in controls.stable
                         ELSE controls'.integrator[b] # 0 /\ b \in controls.stable
  BY <1>3
<1> QED
  BY <1>1, <1>2, <1>4, <1>5

LEMMA InitButtons == Init => ButtonsInvariant
<1> SUFFICES ASSUME Init PROVE ButtonsInvariant
  OBVIOUS
<1>1. DebounceTicks \in Nat \ {0} /\ HoldTicks \in Nat \ {0} /\ Paddles \subseteq Buttons
      /\ Paddles # {}
  BY WheelControlsAssumption, SamplingAssumption
<1>2. controls = [integrator |-> [b \in Buttons |-> 0], stable |-> {}]
      /\ gesture = [hold |-> 0, latched |-> FALSE] /\ held_for = 0 /\ since = 1
      /\ steady = [b \in Buttons |-> 0]
  BY DEF Init, ControlsInitialize
<1>3. ~BothPaddlesHeld(controls)
  BY <1>1, <1>2 DEF BothPaddlesHeld
<1> QED
  BY <1>1, <1>2, <1>3 DEF ButtonsInvariant, DebounceInvariant, GestureInvariant

LEMMA StepDebounce ==
    ASSUME TypeOK, DebounceInvariant, NEW pressed \in SUBSET Buttons, SampleControls(pressed)
    PROVE  DebounceInvariant'
<1> SUFFICES ASSUME NEW b \in Buttons
             PROVE  /\ steady'[b] > 0 => controls'.integrator[b] >= steady'[b]
                    /\ steady'[b] < 0 => controls'.integrator[b] <= DebounceTicks + steady'[b]
                    /\ controls'.integrator[b] = DebounceTicks => b \in controls'.stable
                    /\ controls'.integrator[b] = 0 => b \notin controls'.stable
  BY DEF DebounceInvariant
<1> DEFINE count == controls.integrator[b]
           after == controls'.integrator[b]
<1>1. DebounceTicks \in Nat \ {0} /\ steady[b] \in -DebounceTicks .. DebounceTicks
  BY WheelControlsAssumption DEF TypeOK
<1>2. steady'[b] =
        IF b \in pressed
        THEN IF steady[b] < 0 THEN 1 ELSE Clamp(steady[b] + 1, 0, DebounceTicks)
        ELSE IF steady[b] > 0 THEN -1 ELSE Clamp(steady[b] - 1, -DebounceTicks, 0)
  BY DEF SampleControls, SteadyAfter
<1>3. /\ steady[b] > 0 => count >= steady[b]
      /\ steady[b] < 0 => count <= DebounceTicks + steady[b]
      /\ count = DebounceTicks => b \in controls.stable
      /\ count = 0 => b \notin controls.stable
  BY DEF DebounceInvariant
<1>4. /\ count \in 0 .. DebounceTicks /\ after \in 0 .. DebounceTicks
      /\ b \in pressed => after = IF count < DebounceTicks THEN count + 1 ELSE count
      /\ b \notin pressed => after = IF count > 0 THEN count - 1 ELSE count
      /\ b \in pressed =>
           (b \in controls'.stable <=> after = DebounceTicks \/ b \in controls.stable)
      /\ b \notin pressed =>
           (b \in controls'.stable <=> after # 0 /\ b \in controls.stable)
  BY ContactStep
<1> HIDE DEF count, after
<1>5. CASE b \in pressed
  BY <1>1, <1>2, <1>3, <1>4, <1>5 DEF Clamp, after
<1>6. CASE b \notin pressed
  BY <1>1, <1>2, <1>3, <1>4, <1>6 DEF Clamp, after
<1> QED
  BY <1>5, <1>6

\* A tick with both paddles held and a valid reference counts, any other one
\* starts the count anew.
LEMMA HoldCounts ==
    ASSUME TypeOK, NEW pressed \in SUBSET Buttons, SampleControls(pressed)
    PROVE  LET held == BothPaddlesHeld(controls')
               valid == ReferenceValid(sample)
           IN  /\ ~held => gesture'.hold = 0 /\ ~gesture'.latched
               /\ held /\ ~valid => gesture'.hold = 0 /\ gesture'.latched = gesture.latched
               /\ held /\ valid /\ gesture.latched => gesture' = gesture
               /\ held /\ valid /\ ~gesture.latched =>
                    /\ gesture'.hold = Clamp(gesture.hold + 1, 0, HoldTicks)
                    /\ gesture'.latched = (gesture.hold + 1 >= HoldTicks)
               /\ held /\ valid => held_for' = Clamp(held_for + 1, 0, HoldTicks)
<1> DEFINE held == BothPaddlesHeld(controls')
           valid == ReferenceValid(sample)
           after == [hold |-> Clamp(gesture.hold + 1, 0, HoldTicks),
                     latched |-> gesture.hold + 1 >= HoldTicks]
<1>1. gesture \in [hold : 0 .. HoldTicks, latched : BOOLEAN]
  BY DEF TypeOK
<1>2. gesture' = IF ~held THEN [hold |-> 0, latched |-> FALSE]
                 ELSE IF ~valid THEN [gesture EXCEPT !.hold = 0]
                 ELSE IF gesture.latched THEN gesture ELSE after
  BY DEF SampleControls, GestureAfter
<1>3. after.hold = Clamp(gesture.hold + 1, 0, HoldTicks)
      /\ after.latched = (gesture.hold + 1 >= HoldTicks)
  OBVIOUS
<1>4. held /\ valid => held_for' = Clamp(held_for + 1, 0, HoldTicks)
  BY DEF SampleControls
<1> HIDE DEF held, valid, after
<1>5. ~held => gesture'.hold = 0 /\ ~gesture'.latched
  BY <1>2
<1>6. held /\ ~valid => gesture'.hold = 0 /\ gesture'.latched = gesture.latched
  BY <1>1, <1>2
<1>7. held /\ valid /\ gesture.latched => gesture' = gesture
  BY <1>2
<1>8. held /\ valid /\ ~gesture.latched => gesture' = after
  BY <1>2
<1> QED
  BY <1>3, <1>4, <1>5, <1>6, <1>7, <1>8 DEF held, valid

LEMMA StepGesture ==
    ASSUME TypeOK, ButtonsInvariant, NEW pressed \in SUBSET Buttons, SampleControls(pressed)
    PROVE  /\ GestureInvariant'
           /\ Centering => held_for' = HoldTicks /\ since + 1 >= HoldTicks + DebounceTicks
<1> DEFINE held == BothPaddlesHeld(controls')
           valid == ReferenceValid(sample)
<1>1. /\ DebounceTicks \in Nat \ {0} /\ HoldTicks \in Nat \ {0} /\ Paddles \subseteq Buttons
      /\ gesture.hold \in Nat /\ gesture.latched \in BOOLEAN
      /\ held_for \in Nat /\ held_for <= HoldTicks /\ since \in Nat
      /\ gesture.hold <= HoldTicks
  BY WheelControlsAssumption, SamplingAssumption DEF TypeOK
<1>2. GestureInvariant /\ DebounceInvariant
  BY DEF ButtonsInvariant
<1>3. since' = IF Centering THEN 0 ELSE Clamp(since + 1, 0, HoldTicks + DebounceTicks)
  BY DEF SampleControls
\* A contact on the way up has counted no more than the ticks that passed.
<1>4. ASSUME ~gesture.latched, NEW b \in Paddles, b \notin controls.stable
      PROVE  /\ controls'.integrator[b] <= since
             /\ b \in controls'.stable => since >= DebounceTicks
  <2>1. controls.integrator[b] + 1 <= since
    BY <1>2, <1>4 DEF GestureInvariant
  <2>2. /\ controls.integrator[b] \in 0 .. DebounceTicks
        /\ controls'.integrator[b] \in 0 .. DebounceTicks
        /\ controls'.integrator[b] <= controls.integrator[b] + 1
        /\ b \in controls'.stable => controls'.integrator[b] = DebounceTicks
    BY <1>1, <1>4, ContactStep
  <2> QED
    BY <1>1, <2>1, <2>2
\* One that has just been let go has nothing left to count.
<1>5. ASSUME NEW b \in Paddles, b \in controls.stable, b \notin controls'.stable
      PROVE  controls'.integrator[b] = 0
  BY <1>1, <1>5, ContactStep
<1>6. ASSUME NEW b \in Paddles, b \notin controls'.stable
      PROVE  controls'.integrator[b] \in Nat /\ controls'.integrator[b] < DebounceTicks
  BY <1>1, <1>6, ContactStep
<1>7. ASSUME held, ~gesture.latched
      PROVE  since >= DebounceTicks + gesture.hold
  <2>1. CASE BothPaddlesHeld(controls)
    BY <1>2, <1>7, <2>1 DEF GestureInvariant
  <2>2. CASE ~BothPaddlesHeld(controls)
    <3>1. PICK b \in Paddles : b \notin controls.stable
      BY <2>2 DEF BothPaddlesHeld
    <3>2. b \in controls'.stable
      BY <1>7 DEF BothPaddlesHeld
    <3>3. gesture.hold = 0
      BY <1>2, <2>2 DEF GestureInvariant
    <3> QED
      BY <1>1, <1>4, <1>7, <3>1, <3>2, <3>3
  <2> QED
    BY <2>1, <2>2
<1>8. Centering => held /\ valid /\ ~gesture.latched /\ gesture.hold + 1 >= HoldTicks
  BY HoldCounts DEF Centering
<1>9. Centering => held_for' = HoldTicks /\ since + 1 >= HoldTicks + DebounceTicks
  <2> SUFFICES ASSUME Centering
               PROVE  held_for' = HoldTicks /\ since + 1 >= HoldTicks + DebounceTicks
    OBVIOUS
  <2>1. held /\ valid /\ ~gesture.latched /\ gesture.hold + 1 >= HoldTicks
    BY <1>8
  <2>2. gesture.hold <= held_for
    BY <1>2, <2>1 DEF GestureInvariant
  <2>3. held_for' = Clamp(held_for + 1, 0, HoldTicks)
    BY <2>1, HoldCounts
  <2>4. since >= DebounceTicks + gesture.hold
    BY <1>7, <2>1
  <2> QED
    BY <1>1, <2>1, <2>2, <2>3, <2>4 DEF Clamp
<1>10. ~held => ~gesture'.latched /\ gesture'.hold = 0
  BY HoldCounts
<1>11. ASSUME ~gesture'.latched
       PROVE  /\ gesture'.hold < HoldTicks
              /\ gesture'.hold <= held_for'
              /\ \A b \in Paddles \ controls'.stable : controls'.integrator[b] + 1 <= since'
              /\ held => since' >= DebounceTicks + gesture'.hold
  <2>1. ~Centering /\ since' = Clamp(since + 1, 0, HoldTicks + DebounceTicks)
    BY <1>3, <1>11 DEF Centering
  <2>2. held_for' \in Nat
    BY ControlsTypes DEF TypeOK
  <2>3. gesture'.hold = 0
          \/ /\ held /\ valid /\ ~gesture.latched /\ gesture'.hold = gesture.hold + 1
             /\ gesture.hold + 1 < HoldTicks
    <3>1. CASE ~held \/ ~valid
      BY <3>1, HoldCounts
    <3>2. CASE held /\ valid
      <4>1. ~gesture.latched
        BY <1>11, <3>2, HoldCounts
      <4>2. /\ gesture'.hold = Clamp(gesture.hold + 1, 0, HoldTicks)
            /\ ~(gesture.hold + 1 >= HoldTicks)
        BY <1>11, <3>2, <4>1, HoldCounts
      <4> QED
        BY <1>1, <3>2, <4>1, <4>2 DEF Clamp
    <3> QED
      BY <3>1, <3>2
  <2>4. gesture'.hold < HoldTicks /\ gesture'.hold <= held_for'
    <3>1. CASE gesture'.hold = 0
      BY <1>1, <2>2, <3>1
    <3>2. CASE gesture'.hold # 0
      <4>1. held /\ valid /\ ~gesture.latched /\ gesture'.hold = gesture.hold + 1
            /\ gesture.hold + 1 < HoldTicks
        BY <2>3, <3>2
      <4>2. gesture.hold <= held_for /\ held_for' = Clamp(held_for + 1, 0, HoldTicks)
        BY <1>2, <4>1, HoldCounts DEF GestureInvariant
      <4> QED
        BY <1>1, <4>1, <4>2 DEF Clamp
    <3> QED
      BY <3>1, <3>2
  <2>5. ASSUME NEW b \in Paddles, b \notin controls'.stable
        PROVE  controls'.integrator[b] + 1 <= since'
    <3>1. controls'.integrator[b] \in Nat /\ controls'.integrator[b] < DebounceTicks
      BY <1>6, <2>5
    <3>2. controls'.integrator[b] <= since
      <4>1. CASE b \in controls.stable
        BY <1>1, <1>5, <2>5, <4>1
      <4>2. CASE b \notin controls.stable
        <5>1. ~BothPaddlesHeld(controls)
          BY <4>2 DEF BothPaddlesHeld
        <5> QED
          BY <1>2, <1>4, <4>2, <5>1 DEF GestureInvariant
      <4> QED
        BY <4>1, <4>2
    <3> QED
      BY <1>1, <2>1, <3>1, <3>2 DEF Clamp
  <2>6. held => since' >= DebounceTicks + gesture'.hold
    <3> SUFFICES ASSUME held PROVE since' >= DebounceTicks + gesture'.hold
      OBVIOUS
    <3>1. ~gesture.latched
      BY <1>11, HoldCounts
    <3>2. since >= DebounceTicks + gesture.hold
      BY <1>7, <3>1
    <3>3. gesture'.hold \in Nat /\ gesture'.hold <= gesture.hold + 1 /\ gesture'.hold <= HoldTicks
      BY <1>1, <2>3, <2>4
    <3> QED
      BY <1>1, <2>1, <3>2, <3>3 DEF Clamp
  <2> QED
    BY <2>4, <2>5, <2>6
<1> QED
  BY <1>9, <1>10, <1>11 DEF GestureInvariant

LEMMA StepButtons ==
    TypeOK /\ ButtonsInvariant /\ [Next]_vars
      => ButtonsInvariant' /\ (Centering => /\ held_for' = HoldTicks
                                            /\ since + 1 >= HoldTicks + DebounceTicks)
<1> SUFFICES ASSUME TypeOK, ButtonsInvariant, [Next]_vars
             PROVE  /\ ButtonsInvariant'
                    /\ Centering => /\ held_for' = HoldTicks
                                    /\ since + 1 >= HoldTicks + DebounceTicks
  OBVIOUS
<1>1. ASSUME NEW pressed \in Presses, SampleControls(pressed)
      PROVE  /\ ButtonsInvariant'
             /\ Centering => /\ held_for' = HoldTicks
                             /\ since + 1 >= HoldTicks + DebounceTicks
  BY <1>1, StepDebounce, StepGesture, SamplingAssumption DEF ButtonsInvariant
<1>2. CASE UNCHANGED controlsVars
  BY <1>2 DEF controlsVars, ButtonsInvariant, DebounceInvariant, GestureInvariant,
              BothPaddlesHeld, Centering
<1>3. (\E pressed \in Presses : SampleControls(pressed)) \/ UNCHANGED controlsVars
  BY DEF Next, ReadEncoder, ReplaceConfig, ReadFails, ReadWithoutMagnet, Follow, Turns, vars
<1> QED
  BY <1>1, <1>2, <1>3

LEMMA InductiveButtons == Spec => [](TypeOK /\ ButtonsInvariant)
  BY InitTypes, StepTypes, InitButtons, StepButtons, PTL DEF Spec

\* A contact steady for the debounce time is shown as it is.
THEOREM SteadyIsShown == Spec => []SteadyShows
<1>1. TypeOK /\ ButtonsInvariant => SteadyShows
  <2> SUFFICES ASSUME TypeOK, ButtonsInvariant, NEW b \in Buttons
               PROVE  /\ steady[b] = DebounceTicks => b \in controls.stable
                      /\ steady[b] = -DebounceTicks => b \notin controls.stable
    BY DEF SteadyShows
  <2>1. /\ DebounceTicks \in Nat \ {0} /\ steady[b] \in Int
        /\ controls.integrator[b] \in 0 .. DebounceTicks
    BY WheelControlsAssumption DEF TypeOK, ControlsSet
  <2> QED
    BY <2>1 DEF ButtonsInvariant, DebounceInvariant
<1> QED
  BY <1>1, InductiveButtons, PTL

\* A recentring takes a whole hold on a valid reference, and the next one a
\* release and a debounce more.
THEOREM HoldNeeded == Spec => GestureNeedsHold
  BY InductiveButtons, StepButtons, PTL DEF Spec, GestureNeedsHold

-----------------------------------------------------------------------------
(* Springs. *)

LEMMA AxisGrows ==
    ASSUME NEW a \in Int, NEW b \in Int, a <= b
    PROVE  CountsToHid(a) <= CountsToHid(b)
<1>1. Half \in Nat \ {0} /\ One \in Nat \ {0}
  BY HalfTurn, OneAssumption
<1>2. a * One \in Int /\ b * One \in Int /\ a * One <= b * One
  BY <1>1
<1>3. /\ Quotient(a * One, Half) \in Int /\ Quotient(b * One, Half) \in Int
      /\ Quotient(a * One, Half) <= Quotient(b * One, Half)
  BY <1>1, <1>2, QuotientGrows
<1> DEFINE qa == Quotient(a * One, Half)
           qb == Quotient(b * One, Half)
<1> HIDE DEF qa, qb
<1>4. ClampQ15(qa) <= ClampQ15(qb)
  BY <1>1, <1>3 DEF ClampQ15, Clamp, qa, qb
<1> QED
  BY <1>4 DEF CountsToHid, qa, qb

LEMMA PullGrows ==
    ASSUME NEW spring \in PullingSprings, NEW a \in Q15, NEW b \in Q15, a <= b
    PROVE  Pull(spring, a) <= Pull(spring, b)
<1> DEFINE da == Displacement(a, spring)
           db == Displacement(b, spring)
           fa == MulQ15(da, Coefficient(da, spring))
           fb == MulQ15(db, Coefficient(db, spring))
<1>1. /\ spring.center \in Int /\ spring.dead_band \in Nat
      /\ spring.positive_coefficient \in Nat /\ spring.negative_coefficient \in Nat
      /\ spring.positive_saturation \in Int /\ spring.negative_saturation \in Int
      /\ One \in Nat \ {0} /\ a \in Int /\ b \in Int
  BY OneAssumption DEF PullingSprings, Q15
<1>2. da \in Int /\ db \in Int /\ da <= db
  BY <1>1 DEF Displacement, Abs32
<1>3. Pull(spring, a) = Saturated(fa, spring) /\ Pull(spring, b) = Saturated(fb, spring)
  BY DEF Pull, ConditionForce
<1> HIDE DEF da, db
<1>5. fa \in Int /\ fb \in Int /\ fa <= fb
  <2>1. CASE da > 0
    <3>1. db > 0
      BY <1>2, <2>1
    <3> QED
      BY <1>1, <1>2, <2>1, <3>1, ProductGrows DEF Coefficient
  <2>2. CASE ~(da > 0) /\ db > 0
    <3>1. da <= 0 /\ db >= 0
      BY <1>2, <2>2
    <3>2. /\ MulQ15(da, spring.negative_coefficient) \in Int
          /\ MulQ15(da, spring.negative_coefficient) <= 0
      BY <1>1, <1>2, <3>1, ProductSign, Zenon
    <3>3. /\ MulQ15(db, spring.positive_coefficient) \in Int
          /\ MulQ15(db, spring.positive_coefficient) >= 0
      BY <1>1, <1>2, <3>1, ProductSign, Zenon
    <3> QED
      BY <2>2, <3>2, <3>3 DEF Coefficient
  <2>3. CASE ~(da > 0) /\ ~(db > 0)
    BY <1>1, <1>2, <2>3, ProductGrows DEF Coefficient
  <2> QED
    BY <2>1, <2>2, <2>3
<1> HIDE DEF fa, fb
<1>6. Saturated(fa, spring) <= Saturated(fb, spring)
  BY <1>1, <1>5 DEF Saturated, Clamp
<1> QED
  BY <1>3, <1>6

\* The axis shows the position while the reference holds.
AxisInvariant == encoder.initialized /\ last.valid => axis = CountsToHid(encoder.position)

LEMMA StepAxis == TypeOK /\ AxisInvariant /\ [Next]_vars => AxisInvariant'
<1> SUFFICES ASSUME TypeOK, AxisInvariant, [Next]_vars PROVE AxisInvariant'
  OBVIOUS
<1>1. ASSUME NEW c \in Configs, ReplaceConfig(c) PROVE AxisInvariant'
  BY <1>1 DEF ReplaceConfig, ResetEncoder, AxisInvariant
<1>2. ASSUME NEW step \in -MaxStep .. MaxStep, ReadFails(step) PROVE AxisInvariant'
  BY <1>2 DEF ReadFails, AxisInvariant
<1>3. ASSUME NEW step \in -MaxStep .. MaxStep, ReadWithoutMagnet(step) PROVE AxisInvariant'
  BY <1>3 DEF ReadWithoutMagnet, AxisInvariant, TypeOK
<1>4. ASSUME NEW step \in -MaxStep .. MaxStep, Follow(step) PROVE AxisInvariant'
  BY <1>4 DEF Follow, AxisInvariant
<1>5. ASSUME NEW pressed \in Presses, SampleControls(pressed) PROVE AxisInvariant'
  <2>1. CASE Centering
    BY <1>5, <2>1 DEF SampleControls, CenterHere, AxisInvariant
  <2>2. CASE ~Centering
    BY <1>5, <2>2 DEF SampleControls, axisVars, AxisInvariant
  <2> QED
    BY <2>1, <2>2
<1>6. CASE UNCHANGED vars
  BY <1>6 DEF vars, axisVars, AxisInvariant
<1> QED
  BY <1>1, <1>2, <1>3, <1>4, <1>5, <1>6 DEF Next, ReadEncoder

LEMMA InductiveAxis == Spec => []AxisInvariant
<1>1. Init => AxisInvariant
  BY DEF Init, ResetEncoder, AxisInvariant
<1>2. Spec => []TypeOK
  BY TypeCorrect
<1> QED
  BY <1>1, <1>2, StepAxis, PTL DEF Spec

LEMMA TrackedPull ==
    TypeOK /\ TrackInvariant /\ AxisInvariant /\ (TypeOK /\ TrackInvariant /\ AxisInvariant)'
      => \A spring \in Springs :
           Tracked /\ Tracked' /\ UNCHANGED <<config, home>>
           => /\ config.direction * (seen' - seen) >= 0
                   => Pull(spring, axis') >= Pull(spring, axis)
              /\ config.direction * (seen' - seen) <= 0
                   => Pull(spring, axis') <= Pull(spring, axis)
<1> SUFFICES ASSUME TypeOK, TrackInvariant, AxisInvariant,
                    TypeOK', TrackInvariant', AxisInvariant',
                    NEW spring \in Springs, Tracked, Tracked', UNCHANGED <<config, home>>
             PROVE  /\ config.direction * (seen' - seen) >= 0
                         => Pull(spring, axis') >= Pull(spring, axis)
                    /\ config.direction * (seen' - seen) <= 0
                         => Pull(spring, axis') <= Pull(spring, axis)
  OBVIOUS
<1>1. /\ config.direction * encoder.position = seen - home
      /\ config'.direction * encoder'.position = seen' - home'
      /\ config' = config /\ home' = home
      /\ axis = CountsToHid(encoder.position) /\ axis' = CountsToHid(encoder'.position)
  BY DEF Tracked, TrackInvariant, PositionTracks, AxisInvariant
<1>2. /\ config.direction \in AxisDirections /\ home \in Int /\ seen \in Int /\ seen' \in Int
      /\ encoder.position \in Int /\ encoder'.position \in Int
      /\ axis \in Q15 /\ axis' \in Q15
  BY DEF TypeOK, EncoderConfigs
<1>3. config.direction * (seen' - seen) = encoder'.position - encoder.position
  <2>1. CASE config.direction = 1
    BY <1>1, <1>2, <2>1
  <2>2. CASE config.direction = -1
    BY <1>1, <1>2, <2>2
  <2> QED
    BY <1>2, <2>1, <2>2 DEF AxisDirections
<1>4. spring \in PullingSprings
  BY SamplingAssumption
<1>5. ASSUME config.direction * (seen' - seen) >= 0
      PROVE  Pull(spring, axis') >= Pull(spring, axis)
  <2>1. encoder.position <= encoder'.position
    BY <1>2, <1>3, <1>5
  <2>2. axis <= axis'
    BY <1>1, <1>2, <2>1, AxisGrows
  <2>3. Pull(spring, axis) <= Pull(spring, axis')
    BY <1>2, <1>4, <2>2, PullGrows
  <2> QED
    BY <2>3
<1>6. ASSUME config.direction * (seen' - seen) <= 0
      PROVE  Pull(spring, axis') <= Pull(spring, axis)
  <2>1. encoder'.position <= encoder.position
    BY <1>2, <1>3, <1>6
  <2>2. axis' <= axis
    BY <1>1, <1>2, <2>1, AxisGrows
  <2> QED
    BY <1>2, <1>4, <2>2, PullGrows
<1> QED
  BY <1>5, <1>6

\* Turning the wheel one way never makes a spring pull less that way.
THEOREM SpringKeepsHold == Spec => SpringHolds
<1>1. Spec => [](TypeOK /\ TrackInvariant /\ AxisInvariant)
  BY Inductive, InductiveAxis, PTL
<1>2. (TypeOK /\ TrackInvariant /\ AxisInvariant)
        /\ (TypeOK /\ TrackInvariant /\ AxisInvariant)'
      => [\A spring \in Springs :
            Tracked /\ Tracked' /\ UNCHANGED <<config, home>>
            => /\ config.direction * (seen' - seen) >= 0
                    => Pull(spring, axis') >= Pull(spring, axis)
               /\ config.direction * (seen' - seen) <= 0
                    => Pull(spring, axis') <= Pull(spring, axis)]_vars
  BY TrackedPull
<1> QED
  BY <1>1, <1>2, PTL DEF SpringHolds

=============================================================================
