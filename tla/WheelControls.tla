---------------------------- MODULE WheelControls -----------------------------
(***************************************************************************)
(* The paddles and pedals (wheel_controls.cpp): each contact has an        *)
(* integrator that counts up while the contact differs from its idle level *)
(* and down while it does not; a button changes at either end.             *)
(*                                                                         *)
(* A contact that differs from its idle level is called pressed.  The idle *)
(* level of a pedal is fixed, that of a paddle is the level found at boot: *)
(* the paddles are released then, as the README of the firmware demands.   *)
(***************************************************************************)
EXTENDS Integers

CONSTANTS
    Buttons,            \* both paddles, and any pedals
    Paddles,            \* kBothPaddles
    DebounceTicks       \* kDebounceTicks

ASSUME WheelControlsAssumption ==
    /\ Paddles \subseteq Buttons /\ Paddles # {}
    /\ DebounceTicks \in Nat \ {0}

ControlsSet ==
    [integrator : [Buttons -> 0 .. DebounceTicks], stable : SUBSET Buttons]

ControlsInitialize == [integrator |-> [b \in Buttons |-> 0], stable |-> {}]

\* Mutant: the integrator counts on past the debounce time.
IntegratorUnlimited(controls, pressed) ==
    [b \in Buttons |->
        IF b \in pressed THEN controls.integrator[b] + 1
        ELSE IF controls.integrator[b] > 0 THEN controls.integrator[b] - 1 ELSE 0]

IntegratorAfter(controls, pressed) ==
    [b \in Buttons |->
        LET count == controls.integrator[b]
        IN  IF b \in pressed
            THEN IF count < DebounceTicks THEN count + 1 ELSE count
            ELSE IF count > 0 THEN count - 1 ELSE count]

\* WheelControls::sample, for the contacts found pressed.
ControlsSample(controls, pressed) ==
    LET integrator == IntegratorAfter(controls, pressed)
    IN  [integrator |-> integrator,
         stable |-> {b \in Buttons :
                        IF b \in pressed
                        THEN integrator[b] = DebounceTicks \/ b \in controls.stable
                        ELSE integrator[b] # 0 /\ b \in controls.stable}]

BothPaddlesHeld(controls) == Paddles \subseteq controls.stable

=============================================================================
