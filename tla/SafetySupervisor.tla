-------------------------- MODULE SafetySupervisor --------------------------
(***************************************************************************)
(* wheel::SafetySupervisor: four states, the first fault, and the          *)
(* transitions between them.  The supervisor has no thread of its own; it  *)
(* is a record owned by the control task, so its methods are operators     *)
(* that take the record and return the next one.                           *)
(***************************************************************************)

SafetyStates == {"boot", "disarmed", "armed", "fault"}

FaultCodes ==
    {"encoder_failure", "magnet_missing", "encoder_implausible_motion",
     "control_overrun", "usb_command_overflow", "invalid_configuration",
     "internal_error"}

NoFault == "none"

Supervisors == [state : SafetyStates, first_fault : FaultCodes \cup {NoFault}]

SafetyInputSet ==
    [encoder_valid : BOOLEAN, encoder_ready : BOOLEAN, usb_mounted : BOOLEAN,
     usb_suspended : BOOLEAN, host_actuators_enabled : BOOLEAN,
     configuration_valid : BOOLEAN, motion_below_arming_threshold : BOOLEAN]

InitialSupervisor == [state |-> "boot", first_fault |-> NoFault]

BootComplete(s) ==
    IF s.state = "boot" THEN [s EXCEPT !.state = "disarmed"] ELSE s

\* What an armed wheel needs at every tick.  Motion is not part of it.
HealthyToStayArmed(in) ==
    /\ in.encoder_valid
    /\ in.encoder_ready
    /\ in.usb_mounted
    /\ ~in.usb_suspended
    /\ in.host_actuators_enabled
    /\ in.configuration_valid

HealthyToArm(in) ==
    HealthyToStayArmed(in) /\ in.motion_below_arming_threshold

SafetyUpdate(s, in) ==
    IF s.state = "armed" /\ ~HealthyToStayArmed(in)
      THEN [s EXCEPT !.state = "disarmed"]
    ELSE IF s.state = "disarmed" /\ HealthyToArm(in)
      THEN [s EXCEPT !.state = "armed"]
    ELSE s

\* Mutant: the last fault is kept.
LatchLastFault(s, code) == [state |-> "fault", first_fault |-> code]

\* The first fault is kept; later ones are dropped.
LatchFault(s, code) ==
    [state |-> "fault",
     first_fault |-> IF s.first_fault = NoFault THEN code ELSE s.first_fault]

LatchFaultIf(condition, s, code) ==
    IF condition THEN LatchFault(s, code) ELSE s

ClearFault(s, in) ==
    IF /\ s.state = "fault"
       /\ in.encoder_valid
       /\ in.encoder_ready
       /\ in.configuration_valid
       /\ ~in.host_actuators_enabled
      THEN [state |-> "disarmed", first_fault |-> NoFault]
      ELSE s

\* Mutant: the supervisor is left to find out at its next update.
HostDisableIgnored(s) == s

HostDisable(s) ==
    IF s.state = "armed" THEN [s EXCEPT !.state = "disarmed"] ELSE s

=============================================================================
