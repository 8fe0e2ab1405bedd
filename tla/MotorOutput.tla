----------------------------- MODULE MotorOutput ------------------------------
(***************************************************************************)
(* MotorOutput as the control task calls it, one call at a time: either    *)
(* set_force with what the engine returned and the limits of the running   *)
(* configuration, or disable().  The caller may change its mind, and the   *)
(* configuration, between any two calls; nothing makes it call disable()   *)
(* when the configuration changes.                                         *)
(***************************************************************************)
EXTENDS MotorControl

CONSTANTS
    Configs,    \* the configurations that may be installed
    Forces      \* the forces the effect engine may return

ASSUME MotorOutputAssumption ==
    /\ Configs \subseteq DriveLimits
    /\ Forces \subseteq -FullScale .. FullScale

VARIABLES
    motor,
    allowed,    \* MotorAllowed at the call: set_force, else disable
    force,
    config,
    rest        \* history: unpowered calls since the last powered one, up to 2

motorVars == <<motor, allowed, force, config, rest>>

MotorInit ==
    /\ \E succeeds \in BOOLEAN : motor = MotorInitialize(succeeds)
    /\ allowed = FALSE
    /\ force = 0
    /\ config \in Configs
    /\ rest = 0

\* What the control task decides on before its next call.
Decide ==
    /\ allowed' \in BOOLEAN
    /\ force' \in Forces
    /\ config' \in Configs
    /\ UNCHANGED <<motor, rest>>

RestAfter(m) == IF m.pwm > 0 THEN 0 ELSE IF rest < 2 THEN rest + 1 ELSE rest

Call ==
    /\ motor' = IF allowed THEN SetForce(motor, force, config) ELSE MotorDisable(motor)
    /\ rest' = RestAfter(motor')
    /\ UNCHANGED <<allowed, force, config>>

MotorNext == Decide \/ Call

MotorSpec == MotorInit /\ [][MotorNext]_motorVars

\* The control task calls once a tick, and its loop does not end.
MotorLiveSpec == MotorSpec /\ WF_motorVars(Call)

-----------------------------------------------------------------------------

MotorTypeOK ==
    /\ motor \in Motors
    /\ allowed \in BOOLEAN
    /\ force \in Forces \cup {0}
    /\ config \in Configs
    /\ rest \in 0 .. 2

\* The four members of MotorControlMath agree with the hardware: outside a
\* reversal and in the midst of one the pins select direction_ and the PWM
\* shows applied_duty_, a reversal has rested once per period it went through
\* and heads for the other side, and an uninitialised bridge is never powered.
BridgeInvariant ==
    /\ motor.pins = motor.direction
    /\ motor.pwm = motor.applied_duty
    /\ motor.phase # "driving" =>
          /\ motor.direction # 0
          /\ motor.pending_direction = -motor.direction
          /\ motor.pwm = 0
          /\ rest >= IF motor.phase = "disabled_period_one" THEN 1 ELSE 2
    /\ motor.pwm > 0 => motor.initialized /\ motor.direction # 0 /\ rest = 0

Bridge == INSTANCE HBridge WITH
    DeadTime <- 2, pins <- motor.pins, powered <- motor.pwm > 0, rest <- rest

\* The pins do not move under power, and a reversal takes two calls without
\* power before they turn; only disable() lets go of them at once.
ImplementsHBridge == Bridge!Spec

\* Whatever limits were in force before: a call that changes the bridge drives
\* no harder than the current ones allow, or less hard than the call before
\* by a full slew step.
DutyConvergesToLimit ==
    [][motor' # motor =>
         \/ motor'.pwm <= TargetDuty(force, config)
         \/ motor'.pwm <= motor.pwm - config.duty_slew_per_tick]_motorVars

\* A force asked for steadily is reached, and kept: the reversal state
\* machine and the slew limiter let no request starve.
ForceSettles ==
    \A f \in Forces, c \in Configs :
        <>[](allowed /\ force = f /\ config = c /\ motor.initialized)
          => <>[](/\ motor.pwm = TargetDuty(f, c)
                  /\ motor.pwm > 0 => motor.pins = RequestedDirection(f, c))

=============================================================================
