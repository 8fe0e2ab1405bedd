------------------------------ MODULE MCArming -------------------------------
(***************************************************************************)
(* ControlCore with one more history variable, for the arming condition:   *)
(* whether the wheel was already moving at the previous reading.  The      *)
(* first reading after boot has nothing to be compared with and is not     *)
(* held against the program.                                               *)
(***************************************************************************)
EXTENDS MCControlCore

VARIABLE was_moving

InitWithHistory == Init /\ was_moving = FALSE

NextWithHistory ==
    /\ Next
    /\ was_moving' = IF tick = "wake" THEN sample.moving ELSE was_moving

SpecWithHistory == InitWithHistory /\ [][NextWithHistory]_<<vars, was_moving>>

\* arduino-port/README.md "The motor cannot arm until all of these are true:
\* ... the encoder is nearly stationary".
ArmOnlyWhenStationary ==
    [][safety.state # "armed" /\ safety'.state = "armed"
         => ~(was_moving /\ sample.moving)]_<<vars, was_moving>>

=============================================================================
