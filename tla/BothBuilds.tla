------------------------------ MODULE BothBuilds ------------------------------
(***************************************************************************)
(* ControlCore in both of its builds (wheel_board.hpp, kPassiveWheelMode): *)
(* the active one, which PassiveWheelMode = FALSE selects, and the passive *)
(* one, which must not move the wheel whatever host and sensors do.        *)
(***************************************************************************)
EXTENDS ControlCore

CONSTANTS
    \* What is considered of the surroundings of the passive build; see the
    \* constants of ControlCore.
    PassiveSamples, PassiveHolds, PassiveSaves, PassiveOverruns

VARIABLE build

Passive == INSTANCE ControlCore WITH
    PassiveWheelMode <- TRUE, Samples <- PassiveSamples, PaddleHolds <- PassiveHolds,
    SaveOutcomes <- PassiveSaves, TickOverruns <- PassiveOverruns

BuildsInit ==
    \/ build = "active"  /\ Init
    \/ build = "passive" /\ Passive!Init

BuildsNext ==
    /\ UNCHANGED build
    /\ \/ build = "active"  /\ Next
       \/ build = "passive" /\ Passive!Next

BuildsSpec == BuildsInit /\ [][BuildsNext]_<<vars, build>>

\* README "With board::kPassiveWheelMode set to true, the L298N never arms": no
\* report, configuration, gesture or cleared fault of the passive build does,
\* or reaches the motor.  In the active build a tick that does not end armed
\* has switched the motor off.
MotorOffInBothBuilds ==
    IF build = "passive" THEN Passive!PassiveStaysOff ELSE MotorOffUnlessArmed

=============================================================================
