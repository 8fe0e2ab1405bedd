------------------------------ MODULE MCSampling ------------------------------
(* A small instance of Sampling for TLC. *)
EXTENDS Sampling

EncoderConfig(direction, zero) == [direction |-> direction, zero_offset |-> zero]
BothDirections == {EncoderConfig(1, 0), EncoderConfig(-1, 2)}

Spring(center, coefficient, saturation, dead_band) ==
    [center |-> center, positive_coefficient |-> coefficient,
     negative_coefficient |-> One, positive_saturation |-> saturation,
     negative_saturation |-> One, dead_band |-> dead_band]
SomeSprings == {Spring(0, One, One, 0), Spring(0, One, 2, 1), Spring(1, 2, One, 1)}

CONSTANTS shift_up, shift_down

SomePresses == {{}, {shift_up}, {shift_up, shift_down}}
StraightSine == [i \in 0 .. SineSteps |-> i]
=============================================================================
