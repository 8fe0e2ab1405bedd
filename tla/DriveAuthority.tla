--------------------------- MODULE DriveAuthority ----------------------------
(***************************************************************************)
(* What a host is promised about the drive, whatever its reports, the USB  *)
(* events and the control loop do to each other: the wheel decides to      *)
(* drive only under its grant and without a failure, and a drive that      *)
(* outlives its grant is cut at the next look, before anything else.       *)
(***************************************************************************)
VARIABLES
    granted,    \* the host has enabled the actuators, and nothing revoked it
    driven,     \* the bridge is powered
    failed,     \* a fault is latched
    turn        \* where a tick is: "look", "decide", then "drive" or "rest"

Init ==
    /\ granted = FALSE
    /\ driven = FALSE
    /\ failed \in BOOLEAN
    /\ turn = "look"

\* The host grants, the host or an event revokes: at any moment.
Host ==
    /\ granted' \in BOOLEAN
    /\ UNCHANGED <<driven, failed, turn>>

Look ==
    /\ turn = "look"
    /\ driven' \in BOOLEAN
    /\ driven' => driven /\ granted
    /\ turn' = "decide"
    /\ UNCHANGED <<granted, failed>>

\* The tick may fail, clear a failure, revoke and let go, but not the reverse.
Prepare ==
    /\ turn = "decide"
    /\ failed' \in BOOLEAN
    /\ {granted', driven'} \subseteq BOOLEAN
    /\ granted' => granted
    /\ driven' => driven
    /\ UNCHANGED turn

Decide ==
    /\ turn = "decide"
    /\ turn' \in {"drive", "rest"}
    /\ turn' = "drive" => granted /\ ~failed
    /\ UNCHANGED <<granted, driven, failed>>

\* The tick may have taken too long, which is a failure.
Act ==
    /\ turn \in {"drive", "rest"}
    /\ {failed', driven'} \subseteq BOOLEAN
    /\ failed => failed'
    /\ driven' => turn = "drive" /\ ~failed'
    /\ turn' = "look"
    /\ UNCHANGED granted

Next == Host \/ Look \/ Prepare \/ Decide \/ Act

Spec == Init /\ [][Next]_<<granted, driven, failed, turn>>

=============================================================================
