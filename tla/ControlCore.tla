---------------------------- MODULE ControlCore -----------------------------
(***************************************************************************)
(* The control task of the wheel firmware (control_core.cpp) with the      *)
(* tasks it shares RuntimeShared with:                                     *)
(*                                                                         *)
(*   control   one pass of the 1 ms loop, an action per stretch of code    *)
(*             from one check of shared state to the next; the two flags   *)
(*             it exchanges one after the other are taken together, and    *)
(*             so are the two USB flags it loads one after the other;      *)
(*   usb       the TinyUSB task running set_report, the only producer of   *)
(*             commands and pending_configs;                               *)
(*   event     the USB event task (mounted, suspended);                    *)
(*   loop      the Arduino task: setup(), which reports that USB did not   *)
(*             start, then loop(), which saves configurations and reports  *)
(*             a failed save.                                              *)
(*                                                                         *)
(* Revocation is the heart of it.  Whoever wants the motor off increments  *)
(* disable_epoch at once; the queued commands catch up later.  An enable   *)
(* carries the epoch its handler loaded, and the control task drives only  *)
(* while the epoch it acknowledged is still the current one.               *)
(*                                                                         *)
(* The force of the effect engine is any value of Forces while the engine  *)
(* is enabled; parameters and playback of effects are abstracted, and the  *)
(* commands that only concern them are one kind, "effect".                 *)
(***************************************************************************)
EXTENDS SafetySupervisor, MotorControl, Sequences, FiniteSets

CONSTANTS
    PassiveWheelMode,   \* board::kPassiveWheelMode
    QueueCapacity,      \* usable entries of commands
    PendingCapacity,    \* usable entries of pending_configs
    PaddleCapacity,     \* usable entries of paddle_configs_to_save
    IoFailureLimit,     \* board::kConsecutiveIoFailures
    OverrunLimit,       \* board::kRepeatedOverruns
    HoldTicks,          \* kCenterHoldTicks
    DefaultConfig,      \* safe_default_config(): no force, no duty
    Configs,            \* the valid configurations a host may send
    Reports,            \* the host reports considered
    UsbBegins,          \* whether setup may start USB, may fail to
    UsbEvents,          \* the USB events considered
    Samples,            \* the encoder readings considered
    PaddleHolds,        \* whether both paddles may read as held
    Forces,             \* the values the effect engine may return
    SaveOutcomes,       \* whether a save to NVS may succeed, may fail
    TickOverruns,       \* whether a tick may exceed kHardOverrunUs
    MaxEpoch            \* bound: no revocation starts beyond this epoch

ReportKinds ==
    {"effect", "clear_fault", "enable_actuators", "disable_actuators",
     "reset", "replace_config"}

UsbEventKinds == {"started", "stopped", "suspend", "resume"}

\* moving: the wheel turned fast enough since the previous reading for one
\* velocity update to exceed the arming threshold.  jump: the angle is more
\* than kImplausibleDeltaCounts away from the previous one.
SampleSet == [io_ok : BOOLEAN, magnet : BOOLEAN, jump : BOOLEAN, moving : BOOLEAN]

ASSUME ConstantsAssumption ==
    /\ PassiveWheelMode \in BOOLEAN
    /\ QueueCapacity \in Nat \ {0}
    /\ PendingCapacity \in Nat \ {0}
    /\ PaddleCapacity \in Nat \ {0}
    /\ IoFailureLimit \in Nat \ {0}
    /\ OverrunLimit \in Nat \ {0}
    /\ HoldTicks \in Nat \ {0}
    /\ MaxEpoch \in Nat
    /\ Configs \subseteq DriveLimits
    /\ DefaultConfig \in DriveLimits
    /\ DefaultConfig.maximum_force = 0
    /\ DefaultConfig.maximum_duty = 0
    /\ Reports \subseteq ReportKinds
    /\ UsbBegins \subseteq BOOLEAN
    /\ UsbEvents \subseteq UsbEventKinds
    /\ Samples \subseteq SampleSet
    /\ PaddleHolds \subseteq BOOLEAN
    /\ Forces \subseteq -FullScale .. FullScale
    /\ SaveOutcomes \subseteq BOOLEAN
    /\ TickOverruns \subseteq BOOLEAN

-----------------------------------------------------------------------------
(* State.                                                                  *)

VARIABLES
    commands,            \* SpscQueue of ControlCommand, usb to control
    disable_epoch,
    usb_mounted,
    usb_suspended,
    command_overflow,
    asynchronous_fault,
    pending_configs,     \* how many host configurations wait to be saved
    paddle_configs       \* how many paddle configurations wait to be saved

VARIABLES
    tick,                \* where the control task is in its loop
    acknowledged,        \* acknowledged_disable_epoch
    safety,
    host_enabled,
    engine_enabled,      \* EffectEngine::actuators_enabled_
    clear_requested,
    config,
    encoder,             \* AxisEncoderMath: "reset", "slow" or "fast"
    sample,
    io_failures,
    previous_raw_valid,
    gesture,             \* center_hold_ticks, center_gesture_latched
    overruns,
    motor

VARIABLES
    usb,                 \* what the report handler still has to do
    event,               \* what the USB event handler still has to do
    loop                 \* what the loop task still has to do

VARIABLE
    authorised           \* history: an enable was read after the last revocation

sharedVars == <<commands, disable_epoch, usb_mounted, usb_suspended,
                command_overflow, asynchronous_fault, pending_configs,
                paddle_configs>>
hostVars == <<acknowledged, host_enabled, engine_enabled, clear_requested, config>>
axisVars == <<encoder, sample, io_failures, previous_raw_valid, gesture>>
controlVars == <<tick, safety, acknowledged, host_enabled, engine_enabled,
                 clear_requested, config, encoder, sample, io_failures,
                 previous_raw_valid, gesture, overruns, motor>>
vars == <<sharedVars, controlVars, usb, event, loop, authorised>>

CommandSet ==
    [type : ReportKinds, disable_epoch : Nat, config : Configs \cup {DefaultConfig}]

Command(type) ==
    [type |-> type, disable_epoch |-> 0, config |-> DefaultConfig]
EnableCommand(epoch) ==
    [Command("enable_actuators") EXCEPT !.disable_epoch = epoch]
ReplaceCommand(c) == [Command("replace_config") EXCEPT !.config = c]

TickPoints == {"wake", "faults", "drain", "check", "sample", "arbitrate",
               "drive", "output_on", "output_off"}
UsbPoints == {"idle", "push_pending", "push", "overflowed"}
IdleUsb == [at |-> "idle", command |-> Command("effect")]

NoSample == [io_ok |-> FALSE, magnet |-> FALSE, jump |-> FALSE, moving |-> FALSE]
ReferenceValid(s) == s.io_ok /\ s.magnet

ConfigurationReady == config.maximum_force > 0 /\ config.maximum_duty > 0

\* RuntimeShared::request_disable.
RequestDisable ==
    /\ disable_epoch' = disable_epoch + 1
    /\ authorised' = FALSE

Bounded == disable_epoch < MaxEpoch

-----------------------------------------------------------------------------
(* Boot: control_task up to its loop.                                      *)

\* latch_fault(invalid_configuration) unless a valid record came from NVS
\* or the build is passive, then latch_fault(internal_error) unless all the
\* hardware came up.
BootSafety(from_nvs, hardware_ready) ==
    LatchFaultIf(~hardware_ready,
        LatchFaultIf(~from_nvs /\ ~PassiveWheelMode,
                     BootComplete(InitialSupervisor), "invalid_configuration"),
        "internal_error")

Init ==
    /\ commands = <<>>
    /\ disable_epoch = 1
    /\ usb_mounted = FALSE
    /\ usb_suspended = FALSE
    /\ command_overflow = FALSE
    /\ asynchronous_fault = NoFault
    /\ pending_configs = 0
    /\ paddle_configs = 0
    /\ \E from_nvs, motor_ready, others_ready \in BOOLEAN :
          /\ safety = BootSafety(from_nvs, motor_ready /\ others_ready)
          /\ config \in IF from_nvs THEN Configs ELSE {DefaultConfig}
          /\ motor = MotorInitialize(motor_ready /\ ~PassiveWheelMode)
    /\ tick = "wake"
    /\ acknowledged = 0
    /\ host_enabled = FALSE
    /\ engine_enabled = FALSE
    /\ clear_requested = FALSE
    /\ encoder = "reset"
    /\ sample = NoSample
    /\ io_failures = 0
    /\ previous_raw_valid = FALSE
    /\ gesture = [hold |-> 0, latched |-> FALSE]
    /\ overruns = 0
    /\ usb = IdleUsb
    /\ event = "idle"
    /\ \E usb_begins \in UsbBegins : loop = IF usb_begins THEN "idle" ELSE "fault"
    /\ authorised = FALSE

-----------------------------------------------------------------------------
(* The control task.                                                       *)

\* Mutant: the tick starts without looking at the epoch.
WakeWithoutCheck ==
    /\ tick = "wake"
    /\ tick' = "faults"
    /\ UNCHANGED <<sharedVars, safety, hostVars, axisVars, overruns, motor,
                   usb, event, loop, authorised>>

\* The loop's first check: a stale acknowledgement switches the motor off.
Wake ==
    /\ tick = "wake"
    /\ motor' = IF disable_epoch # acknowledged THEN MotorDisable(motor) ELSE motor
    /\ tick' = "faults"
    /\ UNCHANGED <<sharedVars, safety, hostVars, axisVars, overruns,
                   usb, event, loop, authorised>>

\* Mutant: the asynchronous fault is taken only when no command was dropped.
TakeOneFault ==
    /\ tick = "faults"
    /\ safety' = IF command_overflow THEN LatchFault(safety, "usb_command_overflow")
                 ELSE safety
    /\ command_overflow' = FALSE
    /\ asynchronous_fault' = NoFault
    /\ tick' = "drain"
    /\ UNCHANGED <<commands, disable_epoch, usb_mounted, usb_suspended,
                   pending_configs, paddle_configs, hostVars, axisVars,
                   overruns, motor, usb, event, loop, authorised>>

\* Both flags are exchanged for "none"; the overflow is latched first.
TakeFaults ==
    /\ tick = "faults"
    /\ safety' = LatchFaultIf(asynchronous_fault # NoFault,
                     LatchFaultIf(command_overflow, safety, "usb_command_overflow"),
                     asynchronous_fault)
    /\ command_overflow' = FALSE
    /\ asynchronous_fault' = NoFault
    /\ tick' = "drain"
    /\ UNCHANGED <<commands, disable_epoch, usb_mounted, usb_suspended,
                   pending_configs, paddle_configs, hostVars, axisVars,
                   overruns, motor, usb, event, loop, authorised>>

\* apply_command, one disjunct per case that concerns the supervisor.
ApplyEffect(c) ==
    /\ c.type = "effect"
    /\ UNCHANGED <<hostVars, safety, encoder>>

ApplyClearFault(c) ==
    /\ c.type = "clear_fault"
    /\ clear_requested' = TRUE
    /\ UNCHANGED <<acknowledged, host_enabled, engine_enabled, config, safety, encoder>>

\* Mutant: the enable acknowledges nothing.
ApplyEnableUnacknowledged(c) ==
    /\ c.type = "enable_actuators"
    /\ host_enabled' = TRUE
    /\ engine_enabled' = TRUE
    /\ UNCHANGED <<acknowledged, clear_requested, config, safety, encoder>>

ApplyEnable(c) ==
    /\ c.type = "enable_actuators"
    /\ host_enabled' = TRUE
    /\ engine_enabled' = TRUE
    /\ acknowledged' = c.disable_epoch
    /\ UNCHANGED <<clear_requested, config, safety, encoder>>

\* EffectEngine::reset disables the engine as set_actuators_enabled does.
ApplyDisable(c) ==
    /\ c.type \in {"disable_actuators", "reset"}
    /\ host_enabled' = FALSE
    /\ engine_enabled' = FALSE
    /\ safety' = HostDisable(safety)
    /\ UNCHANGED <<acknowledged, clear_requested, config, encoder>>

ApplyReplaceConfig(c) ==
    /\ c.type = "replace_config"
    /\ config' = c.config
    /\ encoder' = "reset"
    /\ host_enabled' = FALSE
    /\ engine_enabled' = FALSE
    /\ safety' = HostDisable(safety)
    /\ UNCHANGED <<acknowledged, clear_requested>>

Apply(c) ==
    \/ ApplyEffect(c)
    \/ ApplyClearFault(c)
    \/ ApplyEnable(c)
    \/ ApplyDisable(c)
    \/ ApplyReplaceConfig(c)

DrainOne ==
    /\ tick = "drain"
    /\ commands # <<>>
    /\ Apply(Head(commands))
    /\ commands' = Tail(commands)
    /\ UNCHANGED <<disable_epoch, usb_mounted, usb_suspended, command_overflow,
                   asynchronous_fault, pending_configs, paddle_configs, tick,
                   sample, io_failures, previous_raw_valid, gesture, overruns,
                   motor, usb, event, loop, authorised>>

DrainDone ==
    /\ tick = "drain"
    /\ commands = <<>>
    /\ tick' = "check"
    /\ UNCHANGED <<sharedVars, safety, hostVars, axisVars, overruns, motor,
                   usb, event, loop, authorised>>

\* Mutant: the passive build relies on the motor being off.
CheckEpochOnly ==
    /\ tick = "check"
    /\ IF disable_epoch # acknowledged
         THEN /\ host_enabled' = FALSE
              /\ engine_enabled' = FALSE
              /\ safety' = HostDisable(safety)
         ELSE UNCHANGED <<host_enabled, engine_enabled, safety>>
    /\ tick' = "sample"
    /\ UNCHANGED <<sharedVars, acknowledged, clear_requested, config, axisVars,
                   overruns, motor, usb, event, loop, authorised>>

\* The second check, after the drain; a passive build always takes it.
CheckEpoch ==
    /\ tick = "check"
    /\ IF disable_epoch # acknowledged \/ PassiveWheelMode
         THEN /\ host_enabled' = FALSE
              /\ engine_enabled' = FALSE
              /\ safety' = HostDisable(safety)
         ELSE UNCHANGED <<host_enabled, engine_enabled, safety>>
    /\ motor' = IF PassiveWheelMode THEN MotorDisable(motor) ELSE motor
    /\ tick' = "sample"
    /\ UNCHANGED <<sharedVars, acknowledged, clear_requested, config, axisVars,
                   overruns, usb, event, loop, authorised>>

\* AxisEncoderMath::update, as far as the arming threshold goes.  The first
\* update after a reset has no previous position: its velocity is zero.
VelocityAfter(e, s) ==
    IF e = "reset" THEN {"slow"} ELSE IF s.moving THEN {"fast"} ELSE {e, "slow"}

SampleSafety(s, failures) ==
    IF ~s.io_ok
      THEN LatchFaultIf(failures >= IoFailureLimit, safety, "encoder_failure")
      ELSE LatchFaultIf(s.magnet /\ previous_raw_valid /\ s.jump,
               LatchFaultIf(~s.magnet, safety, "magnet_missing"),
               "encoder_implausible_motion")

HoldAfter == IF gesture.hold < HoldTicks THEN gesture.hold + 1 ELSE gesture.hold

\* Hold both paddles for HoldTicks with a valid reference: once per hold.
GestureAfter(held, s) ==
    IF ~held THEN [hold |-> 0, latched |-> FALSE]
    ELSE IF ~ReferenceValid(s) THEN [gesture EXCEPT !.hold = 0]
    ELSE IF gesture.latched THEN gesture
    ELSE [hold |-> HoldAfter, latched |-> HoldAfter = HoldTicks]

\* The encoder is read, then the paddles.  A completed gesture recentres,
\* which resets the velocity filter, and queues the configuration to save;
\* with the queue full it is a fault of its own.
ReadInputs(s, held) ==
    LET recentre == ~gesture.latched /\ GestureAfter(held, s).latched
        full == paddle_configs = PaddleCapacity
    IN  /\ tick = "sample"
        /\ sample' = s
        /\ io_failures' = IF s.io_ok THEN 0
                          ELSE IF io_failures < IoFailureLimit
                               THEN io_failures + 1 ELSE io_failures
        /\ safety' = SampleSafety(s, io_failures')
        /\ previous_raw_valid' = IF s.io_ok THEN s.magnet ELSE previous_raw_valid
        /\ gesture' = GestureAfter(held, s)
        /\ encoder' \in IF recentre THEN {"slow"}
                        ELSE IF ~ReferenceValid(s) THEN {encoder}
                        ELSE IF previous_raw_valid THEN VelocityAfter(encoder, s)
                        ELSE VelocityAfter("reset", s)
        /\ recentre /\ full => Bounded
        /\ IF recentre /\ full
             THEN /\ asynchronous_fault' = IF asynchronous_fault = NoFault
                                           THEN "internal_error"
                                           ELSE asynchronous_fault
                  /\ RequestDisable
             ELSE UNCHANGED <<asynchronous_fault, disable_epoch, authorised>>
        /\ paddle_configs' = IF recentre /\ ~full THEN paddle_configs + 1
                             ELSE paddle_configs
        /\ tick' = "arbitrate"
        /\ UNCHANGED <<commands, usb_mounted, usb_suspended, command_overflow,
                       pending_configs, hostVars, overruns, motor, usb, event, loop>>

SafetyInputs ==
    [encoder_valid |-> sample.io_ok /\ io_failures = 0,
     encoder_ready |-> ReferenceValid(sample),
     usb_mounted |-> usb_mounted,
     usb_suspended |-> usb_suspended,
     host_actuators_enabled |-> host_enabled,
     configuration_valid |-> ConfigurationReady,
     motion_below_arming_threshold |-> encoder # "fast"]

\* A requested clear is tried once, then the supervisor is updated.
Arbitrate ==
    /\ tick = "arbitrate"
    /\ safety' = SafetyUpdate(IF clear_requested THEN ClearFault(safety, SafetyInputs)
                                                 ELSE safety,
                              SafetyInputs)
    /\ clear_requested' = FALSE
    /\ tick' = "drive"
    /\ UNCHANGED <<sharedVars, acknowledged, host_enabled, engine_enabled, config,
                   axisVars, overruns, motor, usb, event, loop, authorised>>

\* Mutant: the epoch is not looked at again after the drain.
MotorAllowedWhenArmed == safety.state = "armed"

MotorAllowed == safety.state = "armed" /\ disable_epoch = acknowledged

\* The third check.  What it decides is written to the bridge afterwards, so
\* a revocation can still fall between this step and the next.
DecideDrive ==
    /\ tick = "drive"
    /\ tick' = IF MotorAllowed /\ ~PassiveWheelMode THEN "output_on" ELSE "output_off"
    /\ UNCHANGED <<sharedVars, safety, hostVars, axisVars, overruns, motor,
                   usb, event, loop, authorised>>

EngineForces == IF engine_enabled THEN Forces ELSE {0}

MotorAfter(force) ==
    IF tick = "output_on" THEN SetForce(motor, force, config) ELSE MotorDisable(motor)

\* Drive or disable, then account for the time the tick took.
Output(force, overrun) ==
    LET repeated == overrun /\ overruns + 1 >= OverrunLimit
    IN  /\ tick \in {"output_on", "output_off"}
        /\ motor' = IF repeated THEN MotorDisable(motor) ELSE MotorAfter(force)
        /\ overruns' = IF ~overrun THEN 0
                       ELSE IF overruns < OverrunLimit THEN overruns + 1
                       ELSE overruns
        /\ safety' = LatchFaultIf(repeated, safety, "control_overrun")
        /\ tick' = "wake"
        /\ UNCHANGED <<sharedVars, hostVars, axisVars, usb, event, loop, authorised>>

ControlStep ==
    \/ Wake
    \/ TakeFaults
    \/ DrainOne
    \/ DrainDone
    \/ CheckEpoch
    \/ \E s \in Samples, held \in PaddleHolds : ReadInputs(s, held)
    \/ Arbitrate
    \/ DecideDrive
    \/ \E force \in EngineForces, overrun \in TickOverruns : Output(force, overrun)

-----------------------------------------------------------------------------
(* The USB task: one report at a time.                                     *)

\* Reports that only queue a command.  Bounded, for the push may overflow.
ReceiveSimple(kind) ==
    /\ usb.at = "idle"
    /\ kind \in {"effect", "clear_fault"}
    /\ Bounded
    /\ usb' = [at |-> "push", command |-> Command(kind)]
    /\ UNCHANGED <<sharedVars, controlVars, event, loop, authorised>>

\* The enable command carries the epoch its handler finds.
ReceiveEnable ==
    /\ usb.at = "idle"
    /\ Bounded
    /\ usb' = [at |-> "push", command |-> EnableCommand(disable_epoch)]
    /\ authorised' = TRUE
    /\ UNCHANGED <<sharedVars, controlVars, event, loop>>

\* Disable and reset revoke first, then queue.
ReceiveDisable(kind) ==
    /\ usb.at = "idle"
    /\ kind \in {"disable_actuators", "reset"}
    /\ Bounded
    /\ RequestDisable
    /\ usb' = [at |-> "push", command |-> Command(kind)]
    /\ UNCHANGED <<commands, usb_mounted, usb_suspended, command_overflow,
                   asynchronous_fault, pending_configs, paddle_configs,
                   controlVars, event, loop>>

ReceiveConfig(c) ==
    /\ usb.at = "idle"
    /\ Bounded
    /\ RequestDisable
    /\ usb' = [at |-> "push_pending", command |-> ReplaceCommand(c)]
    /\ UNCHANGED <<commands, usb_mounted, usb_suspended, command_overflow,
                   asynchronous_fault, pending_configs, paddle_configs,
                   controlVars, event, loop>>

Report ==
    \/ \E kind \in Reports : ReceiveSimple(kind) \/ ReceiveDisable(kind)
    \/ "enable_actuators" \in Reports /\ ReceiveEnable
    \/ "replace_config" \in Reports /\ \E c \in Configs : ReceiveConfig(c)

\* queue_config_update: the copy for NVS goes first; when it does not fit the
\* command is never queued.
PushPending ==
    /\ usb.at = "push_pending"
    /\ IF pending_configs = PendingCapacity
         THEN /\ command_overflow' = TRUE
              /\ usb' = IdleUsb
              /\ UNCHANGED pending_configs
         ELSE /\ pending_configs' = pending_configs + 1
              /\ usb' = [usb EXCEPT !.at = "push"]
              /\ UNCHANGED command_overflow
    /\ UNCHANGED <<commands, disable_epoch, usb_mounted, usb_suspended,
                   asynchronous_fault, paddle_configs, controlVars, event, loop,
                   authorised>>

\* Mutant: a push waits for room in the queue.
PushCommandWaiting ==
    /\ usb.at = "push"
    /\ Len(commands) < QueueCapacity
    /\ commands' = Append(commands, usb.command)
    /\ usb' = IdleUsb
    /\ UNCHANGED <<disable_epoch, usb_mounted, usb_suspended, command_overflow,
                   asynchronous_fault, pending_configs, paddle_configs, controlVars, event,
                   loop, authorised>>

\* RuntimeShared::push_command up to the revocation of a failed push.
PushCommand ==
    /\ usb.at = "push"
    /\ IF Len(commands) = QueueCapacity
         THEN /\ command_overflow' = TRUE
              /\ usb' = [usb EXCEPT !.at = "overflowed"]
              /\ UNCHANGED commands
         ELSE /\ commands' = Append(commands, usb.command)
              /\ usb' = IdleUsb
              /\ UNCHANGED command_overflow
    /\ UNCHANGED <<disable_epoch, usb_mounted, usb_suspended, asynchronous_fault,
                   pending_configs, paddle_configs, controlVars, event, loop,
                   authorised>>

RevokeAfterOverflow ==
    /\ usb.at = "overflowed"
    /\ RequestDisable
    /\ usb' = IdleUsb
    /\ UNCHANGED <<commands, usb_mounted, usb_suspended, command_overflow,
                   asynchronous_fault, pending_configs, paddle_configs,
                   controlVars, event, loop>>

UsbStep == PushPending \/ PushCommand \/ RevokeAfterOverflow

-----------------------------------------------------------------------------
(* The USB event task.                                                     *)

UsbStarted ==
    /\ event = "idle"
    /\ usb_mounted' = TRUE
    /\ event' = "clear_suspended"
    /\ UNCHANGED usb_suspended

UsbStopped ==
    /\ event = "idle"
    /\ Bounded
    /\ usb_mounted' = FALSE
    /\ event' = "revoke"
    /\ UNCHANGED usb_suspended

UsbSuspend ==
    /\ event = "idle"
    /\ Bounded
    /\ usb_suspended' = TRUE
    /\ event' = "revoke"
    /\ UNCHANGED usb_mounted

UsbResume ==
    /\ event = "idle"
    /\ usb_suspended' = FALSE
    /\ UNCHANGED <<usb_mounted, event>>

UsbEvent ==
    /\ \/ "started" \in UsbEvents /\ UsbStarted
       \/ "stopped" \in UsbEvents /\ UsbStopped
       \/ "suspend" \in UsbEvents /\ UsbSuspend
       \/ "resume" \in UsbEvents /\ UsbResume
    /\ UNCHANGED <<commands, disable_epoch, command_overflow, asynchronous_fault,
                   pending_configs, paddle_configs, controlVars, usb, loop,
                   authorised>>

ClearSuspended ==
    /\ event = "clear_suspended"
    /\ usb_suspended' = FALSE
    /\ event' = "idle"
    /\ UNCHANGED <<commands, disable_epoch, usb_mounted, command_overflow,
                   asynchronous_fault, pending_configs, paddle_configs,
                   controlVars, usb, loop, authorised>>

\* Mutant: unplugging and suspending do not revoke.
RevokeAfterEventLost ==
    /\ event = "revoke"
    /\ authorised' = FALSE
    /\ event' = "idle"
    /\ UNCHANGED <<sharedVars, controlVars, usb, loop>>

RevokeAfterEvent ==
    /\ event = "revoke"
    /\ RequestDisable
    /\ event' = "idle"
    /\ UNCHANGED <<commands, usb_mounted, usb_suspended, command_overflow,
                   asynchronous_fault, pending_configs, paddle_configs,
                   controlVars, usb, loop>>

EventStep == ClearSuspended \/ RevokeAfterEvent

-----------------------------------------------------------------------------
(* The loop task: save what the two queues hold, in either order (the      *)
(* order matters to ConfigStore only), and request a fault for a save that *)
(* fails.                                                                  *)

SaveOne(succeeds) ==
    /\ loop = "idle"
    /\ \/ /\ pending_configs > 0
          /\ pending_configs' = pending_configs - 1
          /\ UNCHANGED paddle_configs
       \/ /\ paddle_configs > 0
          /\ paddle_configs' = paddle_configs - 1
          /\ UNCHANGED pending_configs
    /\ loop' = IF succeeds THEN "idle" ELSE "fault"
    /\ UNCHANGED <<commands, disable_epoch, usb_mounted, usb_suspended,
                   command_overflow, asynchronous_fault, controlVars, usb, event,
                   authorised>>

\* RuntimeShared::request_fault: compare_exchange from none, then revoke.
RequestFault ==
    /\ loop = "fault"
    /\ asynchronous_fault' = IF asynchronous_fault = NoFault
                             THEN "internal_error" ELSE asynchronous_fault
    /\ loop' = "revoke"
    /\ UNCHANGED <<commands, disable_epoch, usb_mounted, usb_suspended,
                   command_overflow, pending_configs, paddle_configs,
                   controlVars, usb, event, authorised>>

RevokeAfterFault ==
    /\ loop = "revoke"
    /\ RequestDisable
    /\ loop' = "idle"
    /\ UNCHANGED <<commands, usb_mounted, usb_suspended, command_overflow,
                   asynchronous_fault, pending_configs, paddle_configs,
                   controlVars, usb, event>>

LoopStep == RequestFault \/ RevokeAfterFault

Save == \E succeeds \in SaveOutcomes : SaveOne(succeeds)

-----------------------------------------------------------------------------

Next ==
    \/ ControlStep
    \/ Report
    \/ UsbStep
    \/ UsbEvent
    \/ EventStep
    \/ Save
    \/ LoopStep

Spec == Init /\ [][Next]_vars

\* The scheduler runs a task that has something left to do: a handler that
\* started is not abandoned, and the few tasks with a higher priority than the
\* control task's give its core back.  TinyUSB's task does not when it breaks
\* into a publication and waits for the end of it (Interrupted in Seqlock);
\* such behaviours are not among those of LiveSpec, whose snapshots take no
\* time.  Hosts, events and the wheel owe us nothing.
Fairness ==
    /\ WF_vars(ControlStep)
    /\ WF_vars(UsbStep)
    /\ WF_vars(EventStep)
    /\ WF_vars(LoopStep)

LiveSpec == Spec /\ Fairness

-----------------------------------------------------------------------------
(* Invariants.                                                             *)

\* Every variable holds a value the program could hold.
TypeOK ==
    /\ commands \in Seq(CommandSet) /\ Len(commands) <= QueueCapacity
    /\ disable_epoch \in Nat \ {0}
    /\ usb_mounted \in BOOLEAN
    /\ usb_suspended \in BOOLEAN
    /\ command_overflow \in BOOLEAN
    /\ asynchronous_fault \in FaultCodes \cup {NoFault}
    /\ pending_configs \in 0 .. PendingCapacity
    /\ paddle_configs \in 0 .. PaddleCapacity
    /\ tick \in TickPoints
    /\ acknowledged \in Nat
    /\ safety \in Supervisors
    /\ host_enabled \in BOOLEAN
    /\ engine_enabled \in BOOLEAN
    /\ clear_requested \in BOOLEAN
    /\ config \in Configs \cup {DefaultConfig}
    /\ encoder \in {"reset", "slow", "fast"}
    /\ sample \in SampleSet
    /\ io_failures \in 0 .. IoFailureLimit
    /\ previous_raw_valid \in BOOLEAN
    /\ gesture \in [hold : 0 .. HoldTicks, latched : BOOLEAN]
    /\ overruns \in 0 .. OverrunLimit
    /\ motor \in Motors
    /\ usb \in [at : UsbPoints, command : CommandSet]
    /\ event \in {"idle", "clear_suspended", "revoke"}
    /\ loop \in {"idle", "fault", "revoke"}
    /\ authorised \in BOOLEAN

\* An epoch is no later than disable_epoch, and when it is the current one
\* the authorisation it was read under still stands.
EpochCovered(epoch) ==
    /\ epoch <= disable_epoch
    /\ epoch = disable_epoch => authorised

CarriesEpoch(c) == c.type = "enable_actuators"

\* So are the acknowledged epoch and those an enable carries, in the queue or
\* still in the hands of its handler.
EpochInvariant ==
    /\ EpochCovered(acknowledged)
    /\ \A i \in 1 .. Len(commands) :
          CarriesEpoch(commands[i]) => EpochCovered(commands[i].disable_epoch)
    /\ CarriesEpoch(usb.command) => EpochCovered(usb.command.disable_epoch)

\* The supervisor is armed for an enabled host only, the loop writes a force
\* for an armed supervisor only, and what it wrote does not outlive the tick
\* of an unarmed one.
DriveInvariant ==
    /\ safety.state = "armed" => host_enabled
    /\ tick = "output_on" => safety.state = "armed"
    /\ tick = "wake" /\ motor.pwm > 0 => safety.state = "armed"

\* In a passive build the host is disabled from the second check until the
\* supervisor is updated.
PassiveInvariant ==
    PassiveWheelMode =>
        /\ tick \in {"sample", "arbitrate"} => ~host_enabled
        /\ safety.state # "armed"
        /\ ~motor.initialized /\ motor.pwm = 0 /\ motor.pins = 0

\* A fault is latched exactly while a first fault is on record.
FaultInvariant == safety.state = "fault" <=> safety.first_fault # NoFault

\* What the proofs carry from step to step, beyond types.
CoreInvariant ==
    EpochInvariant /\ DriveInvariant /\ PassiveInvariant /\ FaultInvariant

\* The bridge is driven at the end of a tick only by an armed supervisor: a
\* revocation, fault or lost reference of that tick has switched it off.
MotorOffUnlessArmed == tick = "wake" /\ motor.pwm > 0 => safety.state = "armed"

\* The engine produces force exactly while the host has the actuators
\* enabled; six places in apply_command and the loop keep the two together.
EngineFollowsHost == engine_enabled = host_enabled

\* README "the L298N never arms": in the shipping build no command sequence
\* arms the supervisor, starts the PWM or raises a direction pin.
PassiveStaysOff ==
    PassiveWheelMode =>
        safety.state # "armed" /\ ~motor.initialized /\ motor.pwm = 0 /\ motor.pins = 0

-----------------------------------------------------------------------------
(* Action properties.                                                      *)

\* The loop decides to drive only if the host enabled the actuators after the
\* last disable, reset, configuration update, unplug, suspend, overflow or
\* failed save, however these interleave with queued enables.
DriveDecisionAuthorised ==
    [][tick = "drive" /\ tick' = "output_on" => authorised]_vars

\* Whatever was driven when an authorisation ended, the first access of the
\* next tick cuts it: the bridge outlives a revocation by one tick at most.
WakeCutsRevokedDrive ==
    [][tick = "wake" /\ tick' = "faults" /\ ~authorised => motor'.pwm = 0]_vars

\* The nine points of the loop, as far as they concern a host.
Turn ==
    CASE tick = "wake" -> "look"
      [] tick = "output_on" -> "drive"
      [] tick = "output_off" -> "rest"
      [] OTHER -> "decide"

Authority == INSTANCE DriveAuthority WITH
    granted <- authorised, driven <- motor.pwm > 0,
    failed <- safety.state = "fault", turn <- Turn

\* Three epoch checks and a queue of commands come to this for the host: a
\* decision to drive needs its grant and no fault, a drive that outlives its
\* grant ends with the first access of the next tick, and one that meets a
\* fault, an overrun among them, with the last of its own.
ImplementsAuthority == Authority!Spec

\* The first fault stays on record until it is cleared, and clearing leaves a
\* disarmed wheel whose host must enable again.
FaultOnlyClears ==
    [][safety.first_fault # NoFault =>
         \/ /\ safety'.first_fault = safety.first_fault
            /\ safety'.state = "fault"
         \/ /\ safety'.first_fault = NoFault
            /\ safety'.state = "disarmed"
            /\ ~host_enabled']_vars

-----------------------------------------------------------------------------
(* Liveness, as far as the drain loop terminates: it has no bound of its   *)
(* own, and a host that refills the queue faster than it is drained keeps  *)
(* the loop in it.                                                         *)

DrainKeepsUp == []<>(tick # "drain")

\* No task ever waits for another: the control task can always go on, and so
\* can a handler that has begun, whatever is full, lost or revoked meanwhile.
TasksCanRun ==
    /\ ENABLED <<ControlStep>>_vars
    /\ usb.at # "idle" => ENABLED <<UsbStep>>_vars
    /\ event # "idle" => ENABLED <<EventStep>>_vars
    /\ loop # "idle" => ENABLED <<LoopStep>>_vars

\* A revocation reaches the bridge, unless the host enables anew.
RevocationStopsMotor ==
    DrainKeepsUp => (~authorised ~> (motor.pwm = 0 \/ authorised))

\* A dropped command and a failed save both end up as a latched fault.
FailureIsLatched ==
    DrainKeepsUp => ((command_overflow \/ asynchronous_fault # NoFault)
                       ~> safety.state = "fault")

\* A host whose last word was an enable, on a healthy mounted wheel at rest,
\* gets an armed wheel.
HealthyToArmForGood ==
    /\ authorised
    /\ usb_mounted /\ ~usb_suspended
    /\ ReferenceValid(sample) /\ encoder # "fast"
    /\ ConfigurationReady
    /\ safety.state # "fault"

EnabledWheelArms ==
    DrainKeepsUp => (<>[]HealthyToArmForGood => <>[](safety.state = "armed"))

=============================================================================
