------------------------------- MODULE Sampling -------------------------------
(***************************************************************************)
(* What one tick of the control task does with its inputs (the middle of   *)
(* control_task, control_core.cpp:150-209): read the encoder, judge the    *)
(* reading, follow the position, sample the contacts, and take the angle   *)
(* as the new centre once both paddles were held for HoldTicks.            *)
(*                                                                         *)
(* ControlCore takes the verdicts on a reading as inputs.  Here they are   *)
(* computed, from a wheel that really turns: its angle counts on past the  *)
(* turn, the sensor shows it modulo Turn, and between two ticks it moves   *)
(* by MaxStep at most.  Only the tasks' own variables are involved, so a   *)
(* tick is two steps: one up to the position, one for the paddles.         *)
(***************************************************************************)
EXTENDS AxisEncoder, WheelControls, EffectForce

CONSTANTS
    Plausible,          \* board::kImplausibleDeltaCounts
    FailureLimit,       \* board::kConsecutiveIoFailures
    HoldTicks,          \* kCenterHoldTicks
    Configs,            \* the encoder configurations a host may send
    Presses,            \* the sets of contacts that may be found pressed
    Springs,            \* the spring conditions considered
    MaxStep,            \* environment: counts the wheel turns in a tick
    MaxTravel,          \* bound: how far the wheel turns either way
    MaxCounts           \* bound: the positions considered

\* The springs that pull back: with a negative coefficient a spring pushes.
PullingSprings ==
    [center : Int, positive_coefficient : Nat, negative_coefficient : Nat,
     positive_saturation : Int, negative_saturation : Int, dead_band : Nat]

EncoderConfigs == [direction : AxisDirections, zero_offset : Angles]

ASSUME SamplingAssumption ==
    /\ {Plausible, MaxStep, MaxTravel, MaxCounts} \subseteq Nat
    /\ {FailureLimit, HoldTicks} \subseteq Nat \ {0}
    /\ Configs \subseteq EncoderConfigs
    /\ Presses \subseteq SUBSET Buttons
    /\ MaxCounts >= Half
    /\ Springs \subseteq PullingSprings

\* What the wheel turns while readings fail, unreported, is told from what
\* it turns the other way: FailureLimit ticks of it are less than a turn, by
\* more than a plausible movement.
ASSUME SpeedAssumption == FailureLimit * MaxStep + Plausible < Turn

VARIABLES
    at,                 \* "read" or "buttons"
    wheel,              \* environment: the angle of the wheel, in counts
    config,             \* config.runtime.encoder
    encoder,            \* encoder_math
    last,               \* previous_raw and previous_raw_valid
    io_failures,
    auto_center,        \* auto_center_on_first_sample
    sample,
    axis,               \* axis.position
    controls,
    gesture             \* center_hold_ticks, center_gesture_latched

VARIABLES
    seen,               \* history: the wheel at the last good reading
    home,               \* history: the wheel where its position counts from
    reported,           \* history: a fault was latched since home was set
    held_for,           \* history: ticks the gesture has been held
    since,              \* history: ticks since the last gesture
    steady              \* history: ticks a contact has been pressed, or not

axisVars == <<wheel, config, encoder, last, io_failures, auto_center, sample,
              axis, seen, home, reported>>
controlsVars == <<controls, gesture, held_for, since, steady>>
vars == <<at, axisVars, controlsVars>>

NoReading == [io_ok |-> FALSE, magnet |-> FALSE, raw |-> 0]
Reading(magnet, raw) == [io_ok |-> TRUE, magnet |-> magnet, raw |-> raw]
ReferenceValid(s) == s.io_ok /\ s.magnet

\* Only a passive build without a valid record in NVS centres by itself.
Init ==
    /\ at = "read"
    /\ wheel \in Angles
    /\ config \in Configs
    /\ auto_center \in BOOLEAN
    /\ encoder = ResetEncoder
    /\ last = [raw |-> 0, valid |-> FALSE]
    /\ io_failures = 0
    /\ sample = NoReading
    /\ axis = 0
    /\ controls = ControlsInitialize
    /\ gesture = [hold |-> 0, latched |-> FALSE]
    /\ seen = wheel
    /\ home = wheel
    /\ reported = FALSE
    /\ held_for = 0
    /\ since = 1
    /\ steady = [b \in Buttons |-> 0]

-----------------------------------------------------------------------------

\* apply_command, replace_config: the position starts over, what the loop
\* remembers of the last reading stays.
ReplaceConfig(c) ==
    /\ at = "read"
    /\ config' = c
    /\ encoder' = ResetEncoder
    /\ UNCHANGED <<at, wheel, last, io_failures, auto_center, sample, axis, seen,
                   home, reported, controlsVars>>

\* The wheel turns until the next reading.
Turns(step) ==
    /\ at = "read"
    /\ wheel' = wheel + step
    /\ Abs32(wheel') <= MaxTravel
    /\ at' = "buttons"
    /\ UNCHANGED controlsVars

\* Both attempts of AxisEncoder::read fail.
ReadFails(step) ==
    /\ Turns(step)
    /\ sample' = NoReading
    /\ io_failures' = IF io_failures < FailureLimit THEN io_failures + 1 ELSE io_failures
    /\ reported' = (reported \/ io_failures' >= FailureLimit)
    /\ UNCHANGED <<config, encoder, last, auto_center, axis, seen, home>>

\* The sensor answers that it sees no magnet: magnet_missing.
ReadWithoutMagnet(step) ==
    /\ Turns(step)
    /\ sample' = Reading(FALSE, wheel' % Turn)
    /\ io_failures' = 0
    /\ last' = [last EXCEPT !.valid = FALSE]
    /\ axis' = 0
    /\ reported' = TRUE
    /\ UNCHANGED <<config, encoder, auto_center, seen, home>>

\* Mutant: a movement across failed readings is not judged.
ImplausibleUninterrupted(raw) ==
    /\ io_failures = 0
    /\ last.valid
    /\ Abs32(WrappedDelta(raw, last.raw)) > Plausible

\* encoder_implausible_motion
Implausible(raw) == last.valid /\ Abs32(WrappedDelta(raw, last.raw)) > Plausible

\* A good reading, of an encoder that starts over if the last was not one.
Follow(step) ==
    LET raw == (wheel + step) % Turn
    IN  /\ Turns(step)
        /\ sample' = Reading(TRUE, raw)
        /\ io_failures' = 0
        /\ config' = IF auto_center THEN [config EXCEPT !.zero_offset = raw] ELSE config
        /\ auto_center' = FALSE
        /\ encoder' = Updated(IF last.valid THEN encoder ELSE ResetEncoder, raw, config')
        /\ Abs32(encoder'.position) <= MaxCounts
        /\ last' = [raw |-> raw, valid |-> TRUE]
        /\ axis' = CountsToHid(encoder'.position)
        /\ seen' = wheel'
        /\ home' = IF encoder.initialized THEN home
                   ELSE wheel' - config.direction * encoder'.position
        /\ reported' = (encoder.initialized /\ (reported \/ Implausible(raw)))

ReadEncoder == \E step \in -MaxStep .. MaxStep :
                  ReadFails(step) \/ ReadWithoutMagnet(step) \/ Follow(step)

-----------------------------------------------------------------------------

\* Mutant: the gesture is armed again by a lost reference, still held.
GestureAfterRearmed(held, valid) ==
    IF ~held \/ ~valid THEN [hold |-> 0, latched |-> FALSE]
    ELSE IF gesture.latched THEN gesture
    ELSE [hold |-> Clamp(gesture.hold + 1, 0, HoldTicks),
          latched |-> gesture.hold + 1 >= HoldTicks]

\* center_hold_ticks and center_gesture_latched.
GestureAfter(held, valid) ==
    IF ~held THEN [hold |-> 0, latched |-> FALSE]
    ELSE IF ~valid THEN [gesture EXCEPT !.hold = 0]
    ELSE IF gesture.latched THEN gesture
    ELSE [hold |-> Clamp(gesture.hold + 1, 0, HoldTicks),
          latched |-> gesture.hold + 1 >= HoldTicks]

\* The angle just read becomes the centre, and the position starts from it.
CenterHere ==
    /\ config' = [config EXCEPT !.zero_offset = sample.raw]
    /\ encoder' = Updated(ResetEncoder, sample.raw, config')
    /\ axis' = CountsToHid(encoder'.position)
    /\ last' = [raw |-> sample.raw, valid |-> TRUE]
    /\ auto_center' = FALSE
    /\ home' = seen
    /\ reported' = FALSE
    /\ UNCHANGED <<wheel, io_failures, sample, seen>>

Centering == ~gesture.latched /\ gesture'.latched

SteadyAfter(pressed) ==
    [b \in Buttons |->
        IF b \in pressed
        THEN IF steady[b] < 0 THEN 1 ELSE Clamp(steady[b] + 1, 0, DebounceTicks)
        ELSE IF steady[b] > 0 THEN -1 ELSE Clamp(steady[b] - 1, -DebounceTicks, 0)]

SampleControls(pressed) ==
    /\ at = "buttons"
    /\ controls' = ControlsSample(controls, pressed)
    /\ gesture' = GestureAfter(BothPaddlesHeld(controls'), ReferenceValid(sample))
    /\ IF Centering THEN CenterHere ELSE UNCHANGED axisVars
    /\ at' = "read"
    /\ held_for' = IF BothPaddlesHeld(controls') /\ ReferenceValid(sample)
                   THEN Clamp(held_for + 1, 0, HoldTicks) ELSE 0
    /\ since' = IF Centering THEN 0 ELSE Clamp(since + 1, 0, HoldTicks + DebounceTicks)
    /\ steady' = SteadyAfter(pressed)

Next ==
    \/ \E c \in Configs : ReplaceConfig(c)
    \/ ReadEncoder
    \/ \E pressed \in Presses : SampleControls(pressed)

Spec == Init /\ [][Next]_vars

-----------------------------------------------------------------------------

TypeOK ==
    /\ at \in {"read", "buttons"}
    /\ {wheel, seen, home} \subseteq Int
    /\ config \in EncoderConfigs
    /\ encoder \in [initialized : BOOLEAN, previous_raw : Angles, position : Int]
    /\ last \in [raw : Angles, valid : BOOLEAN]
    /\ io_failures \in 0 .. FailureLimit
    /\ auto_center \in BOOLEAN
    /\ sample \in [io_ok : BOOLEAN, magnet : BOOLEAN, raw : Angles]
    /\ axis \in Q15
    /\ controls \in ControlsSet
    /\ gesture \in [hold : 0 .. HoldTicks, latched : BOOLEAN]
    /\ reported \in BOOLEAN
    /\ held_for \in 0 .. HoldTicks
    /\ since \in 0 .. HoldTicks + DebounceTicks
    /\ steady \in [Buttons -> -DebounceTicks .. DebounceTicks]

\* Whatever was lost on the way, the position shows the angle the sensor
\* last gave, against the zero of the configuration in force: what can go
\* wrong with it is whole turns.
PositionCongruent ==
    encoder.initialized =>
        (config.direction * encoder.position
           - (encoder.previous_raw - config.zero_offset)) % Turn = 0

\* README "Firmware unwraps the 4095/0 crossing while powered": unless a
\* fault was latched since the centre was set, the position is how far the
\* wheel has turned from there, full turns and failed readings included.
PositionTracks ==
    encoder.initialized /\ ~reported =>
        config.direction * encoder.position = seen - home

\* A contact that has been pressed, or released, for the debounce time is
\* shown so, however it bounced before and however long it was held.
SteadyShows ==
    \A b \in Buttons :
        /\ steady[b] = DebounceTicks => b \in controls.stable
        /\ steady[b] = -DebounceTicks => b \notin controls.stable

-----------------------------------------------------------------------------

Tracked == encoder.initialized /\ last.valid /\ ~reported

Pull(spring, position) == ConditionForce(position, spring)

\* While the position tracks the wheel, turning the wheel one way never makes
\* a spring pull less that way: not in the dead band, in saturation, at the
\* end of the HID axis, nor a turn further.
SpringHolds ==
    [][\A spring \in Springs :
         Tracked /\ Tracked' /\ UNCHANGED <<config, home>>
         => /\ config.direction * (seen' - seen) >= 0
                 => Pull(spring, axis') >= Pull(spring, axis)
            /\ config.direction * (seen' - seen) <= 0
                 => Pull(spring, axis') <= Pull(spring, axis)]_vars

\* COMMISSIONING.md "only triggers once per hold": the centre moves by hand
\* only after HoldTicks ticks with both paddles held on a valid reference,
\* and not again before they were let go, pressed and held anew.
GestureNeedsHold ==
    [][Centering => /\ held_for' = HoldTicks
                    /\ since + 1 >= HoldTicks + DebounceTicks]_vars

=============================================================================
