--------------------------- MODULE MCControlCore ----------------------------
(* Small instances of ControlCore for TLC: the constants of each run. *)
EXTENDS ControlCore

Limits(force, duty) ==
    [global_gain |-> FullScale, maximum_force |-> force, maximum_duty |-> duty,
     duty_slew_per_tick |-> 1]

NoDrive == Limits(0, 0)
OneConfig == {Limits(2, 2)}

Reading(ok, magnet, jump, moving) ==
    [io_ok |-> ok, magnet |-> magnet, jump |-> jump, moving |-> moving]
Still == Reading(TRUE, TRUE, FALSE, FALSE)
Moving == Reading(TRUE, TRUE, FALSE, TRUE)
Jumped == Reading(TRUE, TRUE, TRUE, TRUE)
NoMagnet == Reading(TRUE, FALSE, FALSE, FALSE)
Failed == Reading(FALSE, FALSE, FALSE, FALSE)

StillOnly == {Still}
StillOrFailed == {Still, Failed}
StillOrMoving == {Still, Moving}
EveryReading == {Still, Moving, Jumped, NoMagnet, Failed}

Push == {2}
=============================================================================
