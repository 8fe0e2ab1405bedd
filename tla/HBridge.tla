------------------------------- MODULE HBridge -------------------------------
(***************************************************************************)
(* What the L298N is promised: its direction pins stay put while it is     *)
(* powered, and once they are up they are only turned around after         *)
(* DeadTime unpowered calls, unless everything was switched off first.     *)
(***************************************************************************)
EXTENDS Integers

CONSTANT DeadTime

VARIABLES
    pins,       \* 1, -1, or 0 when both are low
    powered,    \* the enable input sees a duty
    rest        \* unpowered calls since it was, counted up to DeadTime

Sides == {-1, 1}

RestedOnce == IF rest < DeadTime THEN rest + 1 ELSE rest

Init == pins = 0 /\ powered = FALSE /\ rest = 0

\* Power one side: the one the pins select, or either one from low pins.
Power ==
    /\ pins' \in Sides
    /\ pins # 0 => pins' = pins
    /\ powered' = TRUE
    /\ rest' = 0

Idle ==
    /\ powered' = FALSE
    /\ rest' = RestedOnce
    /\ UNCHANGED pins

Turn ==
    /\ ~powered
    /\ rest >= DeadTime
    /\ pins' \in Sides
    /\ powered' = FALSE
    /\ rest' = RestedOnce

Release ==
    /\ pins' = 0
    /\ powered' = FALSE
    /\ rest' = RestedOnce

Next == Power \/ Idle \/ Turn \/ Release

Spec == Init /\ [][Next]_<<pins, powered, rest>>

=============================================================================
