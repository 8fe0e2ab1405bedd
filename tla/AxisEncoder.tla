----------------------------- MODULE AxisEncoder ------------------------------
(***************************************************************************)
(* AxisEncoderMath (axis_encoder.cpp): from the absolute angle of the      *)
(* AS5600, modulo Turn counts (4096), to a position that goes on counting  *)
(* past the turn, and to the HID axis.  An encoder is a record; its        *)
(* velocity filter is left out (ControlCore has what depends on it).       *)
(***************************************************************************)
EXTENDS Fixed

CONSTANT Turn

ASSUME TurnAssumption == Turn \in Nat \ {0} /\ Turn % 2 = 0

Half == Turn \div 2
Angles == 0 .. Turn - 1
AxisDirections == {-1, 1}

\* wrapped_delta: the shorter way round; half a turn either way stays as it is.
WrappedDelta(current, previous) ==
    LET delta == current - previous
    IN  IF delta > Half THEN delta - Turn
        ELSE IF delta < -Half THEN delta + Turn
        ELSE delta

\* relative_to_zero; the zero offset is reduced to an angle by masking.
RelativeToZero(raw, zero_offset) == WrappedDelta(raw, zero_offset % Turn)

\* Mutant: the scaled position is cut to 16 bits instead of limited.
CountsToHidWrapped(counts) ==
    ((Quotient(counts * One, Half) + One + 1) % (2 * (One + 1))) - One - 1

\* counts_to_hid: half a turn is the end of the axis, and there it stays.
CountsToHid(counts) == ClampQ15(Quotient(counts * One, Half))

-----------------------------------------------------------------------------

ResetEncoder == [initialized |-> FALSE, previous_raw |-> 0, position |-> 0]

\* Mutant: the angle is compared with the first one, not the previous one.
UpdatedFromFirst(encoder, raw, config) ==
    IF ~encoder.initialized
    THEN [initialized |-> TRUE, previous_raw |-> raw,
          position |-> config.direction * RelativeToZero(raw, config.zero_offset)]
    ELSE [encoder EXCEPT
            !.position = @ + config.direction * WrappedDelta(raw, encoder.previous_raw)]

\* update: the first angle counts from the configured zero, every other one
\* from the angle before it.
Updated(encoder, raw, config) ==
    IF ~encoder.initialized
    THEN [initialized |-> TRUE, previous_raw |-> raw,
          position |-> config.direction * RelativeToZero(raw, config.zero_offset)]
    ELSE [encoder EXCEPT
            !.position = @ + config.direction * WrappedDelta(raw, encoder.previous_raw),
            !.previous_raw = raw]

=============================================================================
