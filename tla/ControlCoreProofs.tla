-------------------------- MODULE ControlCoreProofs --------------------------
(***************************************************************************)
(* Proofs about ControlCore: its types, the invariant CoreInvariant, the   *)
(* safety properties that follow from it, the passive build, and what the  *)
(* fairness of the tasks brings about, for every capacity, limit,          *)
(* environment and bound.                                                  *)
(***************************************************************************)
EXTENDS BothBuilds, ArithmeticProofs

\* The supervisor's operators return supervisors.
LEMMA SupervisorTypes ==
    ASSUME NEW s \in Supervisors
    PROVE  /\ BootComplete(s) \in Supervisors
           /\ HostDisable(s) \in Supervisors
           /\ \A in : SafetyUpdate(s, in) \in Supervisors
           /\ \A in : ClearFault(s, in) \in Supervisors
           /\ \A code \in FaultCodes : LatchFault(s, code) \in Supervisors
           /\ \A code \in FaultCodes, b \in BOOLEAN : LatchFaultIf(b, s, code) \in Supervisors
BY DEF Supervisors, SafetyStates, BootComplete, HostDisable, SafetyUpdate, ClearFault,
       LatchFault, LatchFaultIf

\* Command builders return commands.
LEMMA CommandTypes ==
    /\ \A kind \in ReportKinds : Command(kind) \in CommandSet
    /\ \A e \in Nat : EnableCommand(e) \in CommandSet
    /\ \A c \in Configs : ReplaceCommand(c) \in CommandSet
    /\ IdleUsb \in [at : UsbPoints, command : CommandSet]
BY DEF Command, EnableCommand, ReplaceCommand, CommandSet, ReportKinds, IdleUsb, UsbPoints

\* Boot ends disarmed or with its fault on record.
LEMMA BootSafetyType ==
    ASSUME NEW a \in BOOLEAN, NEW b \in BOOLEAN
    PROVE  /\ BootSafety(a, b) \in Supervisors
           /\ BootSafety(a, b).state \in {"disarmed", "fault"}
           /\ BootSafety(a, b).state = "fault" <=> BootSafety(a, b).first_fault # NoFault
BY ConstantsAssumption
   DEF BootSafety, BootComplete, InitialSupervisor, LatchFaultIf, LatchFault, Supervisors,
       SafetyStates, FaultCodes, NoFault

\* The two-valued variables.
FlagsOK ==
    /\ usb_mounted \in BOOLEAN
    /\ usb_suspended \in BOOLEAN
    /\ command_overflow \in BOOLEAN
    /\ host_enabled \in BOOLEAN
    /\ engine_enabled \in BOOLEAN
    /\ clear_requested \in BOOLEAN
    /\ previous_raw_valid \in BOOLEAN
    /\ authorised \in BOOLEAN

\* The initial states are well typed.
LEMMA InitType == Init => TypeOK
<1> SUFFICES ASSUME Init PROVE TypeOK
  OBVIOUS
<1>1. safety \in Supervisors
  BY BootSafetyType DEF Init
<1>2. config \in Configs \cup {DefaultConfig}
  BY DEF Init
<1>3. motor \in Motors
  BY FullScaleAssumption DEF Init, MotorInitialize, Motors, Directions, Phases, Fractions
<1>4. usb \in [at : UsbPoints, command : CommandSet]
  BY CommandTypes DEF Init
<1>5. gesture \in [hold : 0 .. HoldTicks, latched : BOOLEAN]
  BY ConstantsAssumption DEF Init
<1>6. commands \in Seq(CommandSet) /\ Len(commands) <= QueueCapacity
  BY ConstantsAssumption DEF Init
<1>7. sample \in SampleSet
  BY DEF Init, NoSample, SampleSet
<1>8. FlagsOK
  BY Zenon DEF Init, FlagsOK
<1> QED
  BY <1>1, <1>2, <1>3, <1>4, <1>5, <1>6, <1>7, <1>8, ConstantsAssumption
  DEF Init, TypeOK, FlagsOK, TickPoints, FaultCodes, NoFault

\* The running configuration is one set_force accepts.
LEMMA ConfigIsLimits == TypeOK => config \in DriveLimits
BY ConstantsAssumption DEF TypeOK

\* Every step keeps the two-valued variables two-valued.
LEMMA StepFlags == TypeOK /\ [Next]_vars => FlagsOK'
<1> SUFFICES ASSUME TypeOK, [Next]_vars PROVE FlagsOK'
  OBVIOUS
<1>0. FlagsOK
  BY DEF TypeOK, FlagsOK
<1> USE DEF FlagsOK, sharedVars, hostVars, axisVars, controlVars
<1>1. CASE Wake
  BY <1>0, <1>1, Zenon DEF Wake
<1>2. CASE TakeFaults
  BY <1>0, <1>2, Zenon DEF TakeFaults
<1>3. CASE DrainOne
  BY <1>0, <1>3, Zenon
  DEF DrainOne, Apply, ApplyEffect, ApplyClearFault, ApplyEnable, ApplyDisable,
      ApplyReplaceConfig
<1>4. CASE DrainDone
  BY <1>0, <1>4, Zenon DEF DrainDone
<1>5. CASE CheckEpoch
  BY <1>0, <1>5, Zenon DEF CheckEpoch
<1>6. ASSUME NEW s \in Samples, NEW held \in PaddleHolds, ReadInputs(s, held)
      PROVE  FlagsOK'
  <2>1. s.magnet \in BOOLEAN
    BY ConstantsAssumption DEF SampleSet
  <2>2. authorised' \in BOOLEAN
    BY <1>0, <1>6, Zenon DEF ReadInputs, RequestDisable
  <2>3. previous_raw_valid' \in BOOLEAN
    BY <1>0, <1>6, <2>1, Zenon DEF ReadInputs
  <2> QED
    BY <1>0, <1>6, <2>2, <2>3, Zenon DEF ReadInputs
<1>7. CASE Arbitrate
  BY <1>0, <1>7, Zenon DEF Arbitrate
<1>8. CASE DecideDrive
  BY <1>0, <1>8, Zenon DEF DecideDrive
<1>9. ASSUME NEW force \in EngineForces, NEW overrun \in TickOverruns, Output(force, overrun)
      PROVE  FlagsOK'
  BY <1>0, <1>9, Zenon DEF Output
<1>10. CASE Report
  BY <1>0, <1>10, Zenon
  DEF Report, ReceiveSimple, ReceiveEnable, ReceiveDisable, ReceiveConfig, RequestDisable
<1>11. CASE UsbStep
  BY <1>0, <1>11, Zenon
  DEF UsbStep, PushPending, PushCommand, RevokeAfterOverflow, RequestDisable
<1>12. CASE UsbEvent
  BY <1>0, <1>12, Zenon DEF UsbEvent, UsbStarted, UsbStopped, UsbSuspend, UsbResume
<1>13. CASE EventStep
  BY <1>0, <1>13, Zenon DEF EventStep, ClearSuspended, RevokeAfterEvent, RequestDisable
<1>14. CASE Save
  BY <1>0, <1>14, Zenon DEF Save, SaveOne
<1>15. CASE LoopStep
  BY <1>0, <1>15, Zenon DEF LoopStep, RequestFault, RevokeAfterFault, RequestDisable
<1>16. CASE UNCHANGED vars
  BY <1>0, <1>16, Zenon DEF vars
<1> QED
  BY <1>1, <1>2, <1>3, <1>4, <1>5, <1>6, <1>7, <1>8, <1>9, <1>10, <1>11, <1>12,
     <1>13, <1>14, <1>15, <1>16, Zenon
  DEF Next, ControlStep

\* Every step keeps the types.
LEMMA StepType == TypeOK /\ [Next]_vars => TypeOK'
<1> SUFFICES ASSUME TypeOK, [Next]_vars PROVE TypeOK'
  OBVIOUS
<1>0. FlagsOK'
  BY StepFlags
<1> USE DEF TypeOK, FlagsOK, sharedVars, hostVars, axisVars, controlVars
<1>1. CASE Wake
  BY <1>0, <1>1, MotorDisableType DEF Wake, TickPoints
<1>2. CASE TakeFaults
  <2>1. safety' \in Supervisors
    <3>1. LatchFaultIf(command_overflow, safety, "usb_command_overflow") \in Supervisors
      BY SupervisorTypes DEF FaultCodes
    <3>2. asynchronous_fault # NoFault => asynchronous_fault \in FaultCodes
      OBVIOUS
    <3> QED
      BY <1>0, <1>2, <3>1, <3>2, SupervisorTypes DEF TakeFaults, LatchFaultIf
  <2> QED
    BY <1>0, <1>2, <2>1 DEF TakeFaults, TickPoints
<1>3. CASE DrainOne
  <2>1. /\ Head(commands) \in CommandSet
        /\ Tail(commands) \in Seq(CommandSet)
        /\ Len(Tail(commands)) <= QueueCapacity
    BY <1>0, <1>3, ConstantsAssumption DEF DrainOne
  <2>2. HostDisable(safety) \in Supervisors
    BY SupervisorTypes
  <2> QED
    BY <1>0, <1>3, <2>1, <2>2
    DEF DrainOne, Apply, ApplyEffect, ApplyClearFault, ApplyEnable, ApplyDisable,
        ApplyReplaceConfig, CommandSet
<1>4. CASE DrainDone
  BY <1>0, <1>4 DEF DrainDone, TickPoints
<1>5. CASE CheckEpoch
  <2>1. HostDisable(safety) \in Supervisors /\ MotorDisable(motor) \in Motors
    BY SupervisorTypes, MotorDisableType
  <2> QED
    BY <1>0, <1>5, <2>1 DEF CheckEpoch, TickPoints
<1>6. ASSUME NEW s \in Samples, NEW held \in PaddleHolds, ReadInputs(s, held)
      PROVE  TypeOK'
  <2>1. s \in SampleSet /\ held \in BOOLEAN
    BY ConstantsAssumption
  <2>2. io_failures' \in 0 .. IoFailureLimit
    BY <1>0, <1>6, ConstantsAssumption DEF ReadInputs
  <2>3. safety' \in Supervisors
    <3>1. LatchFaultIf(~s.magnet, safety, "magnet_missing") \in Supervisors
      BY SupervisorTypes DEF FaultCodes
    <3>2. SampleSafety(s, io_failures') \in Supervisors
      BY <3>1, SupervisorTypes DEF SampleSafety, FaultCodes, LatchFaultIf
    <3> QED
      BY <1>0, <1>6, <3>2 DEF ReadInputs
  <2>4. gesture' \in [hold : 0 .. HoldTicks, latched : BOOLEAN]
    <3>1. HoldAfter \in 0 .. HoldTicks
      BY ConstantsAssumption DEF HoldAfter
    <3>2. GestureAfter(held, s) \in [hold : 0 .. HoldTicks, latched : BOOLEAN]
      BY <3>1, ConstantsAssumption DEF GestureAfter
    <3> QED
      BY <1>6, <3>2 DEF ReadInputs
  <2>5. encoder' \in {"reset", "slow", "fast"}
    BY <1>0, <1>6 DEF ReadInputs, VelocityAfter
  <2>6. /\ asynchronous_fault' \in FaultCodes \cup {NoFault}
        /\ disable_epoch' \in Nat \ {0}
        /\ authorised' \in BOOLEAN
    BY <1>0, <1>6 DEF ReadInputs, RequestDisable, FaultCodes
  <2>7. paddle_configs' \in 0 .. PaddleCapacity
    BY <1>0, <1>6, ConstantsAssumption DEF ReadInputs
  <2>8. sample' \in SampleSet /\ previous_raw_valid' \in BOOLEAN /\ tick' \in TickPoints
    BY <1>0, <1>6, <2>1 DEF ReadInputs, SampleSet, TickPoints
  <2> QED
    BY <1>0, <1>6, <2>2, <2>3, <2>4, <2>5, <2>6, <2>7, <2>8 DEF ReadInputs
<1>7. CASE Arbitrate
  <2>1. safety' \in Supervisors
    BY <1>0, <1>7, SupervisorTypes DEF Arbitrate
  <2> QED
    BY <1>0, <1>7, <2>1 DEF Arbitrate, TickPoints
<1>8. CASE DecideDrive
  BY <1>0, <1>8 DEF DecideDrive, TickPoints
<1>9. ASSUME NEW force \in EngineForces, NEW overrun \in TickOverruns, Output(force, overrun)
      PROVE  TypeOK'
  <2>1. force \in SignedFractions
    BY ConstantsAssumption, FullScaleAssumption DEF EngineForces, SignedFractions
  <2>2. motor' \in Motors
    BY <1>0, <1>9, <2>1, ConfigIsLimits, MotorDisableType, SetForceType DEF Output, MotorAfter
  <2>3. overruns' \in 0 .. OverrunLimit
    BY <1>0, <1>9, ConstantsAssumption DEF Output
  <2>4. safety' \in Supervisors
    BY <1>0, <1>9, SupervisorTypes DEF Output, LatchFaultIf, FaultCodes
  <2> QED
    BY <1>0, <1>9, <2>2, <2>3, <2>4 DEF Output, TickPoints
<1>10. CASE Report
  <2>1. usb' \in [at : UsbPoints, command : CommandSet]
    BY <1>0, <1>10, CommandTypes
    DEF Report, ReceiveSimple, ReceiveEnable, ReceiveDisable, ReceiveConfig, ReportKinds,
        UsbPoints
  <2> QED
    BY <1>0, <1>10, <2>1
    DEF Report, ReceiveSimple, ReceiveEnable, ReceiveDisable, ReceiveConfig, RequestDisable
<1>11. CASE UsbStep
  <2>1. usb.command \in CommandSet
    OBVIOUS
  <2>2. Len(commands) # QueueCapacity =>
           /\ Append(commands, usb.command) \in Seq(CommandSet)
           /\ Len(Append(commands, usb.command)) <= QueueCapacity
    BY <2>1, ConstantsAssumption
  <2>3. CASE PushPending
    BY <1>0, <2>3, CommandTypes, ConstantsAssumption DEF PushPending, UsbPoints
  <2>4. CASE PushCommand
    BY <1>0, <2>4, <2>2, CommandTypes DEF PushCommand, UsbPoints
  <2>5. CASE RevokeAfterOverflow
    BY <1>0, <2>5, CommandTypes DEF RevokeAfterOverflow, RequestDisable
  <2> QED
    BY <1>0, <1>11, <2>3, <2>4, <2>5 DEF UsbStep
<1>12. CASE UsbEvent
  BY <1>0, <1>12 DEF UsbEvent, UsbStarted, UsbStopped, UsbSuspend, UsbResume
<1>13. CASE EventStep
  BY <1>0, <1>13 DEF EventStep, ClearSuspended, RevokeAfterEvent, RequestDisable
<1>14. CASE Save
  BY <1>0, <1>14, ConstantsAssumption DEF Save, SaveOne
<1>15. CASE LoopStep
  BY <1>0, <1>15 DEF LoopStep, RequestFault, RevokeAfterFault, RequestDisable, FaultCodes
<1>16. CASE UNCHANGED vars
  BY <1>0, <1>16 DEF vars
<1> QED
  BY <1>1, <1>2, <1>3, <1>4, <1>5, <1>6, <1>7, <1>8, <1>9, <1>10, <1>11, <1>12,
     <1>13, <1>14, <1>15, <1>16
  DEF Next, ControlStep

\* Every variable of the firmware's tasks keeps to its range.
THEOREM TypeCorrect == Spec => []TypeOK
BY InitType, StepType, PTL DEF Spec

-----------------------------------------------------------------------------
(* The epoch: what is acknowledged or carried is covered.                  *)

\* A revocation leaves every covered epoch covered: none is current any more.
LEMMA RevocationCovers ==
    ASSUME TypeOK, RequestDisable, NEW e \in Nat, EpochCovered(e)
    PROVE  EpochCovered(e)'
BY DEF TypeOK, RequestDisable, EpochCovered

\* Epoch 0, acknowledged at boot, is older than disable_epoch.
LEMMA InitEpoch == Init => EpochInvariant
BY DEF Init, EpochInvariant, EpochCovered, CarriesEpoch, IdleUsb, Command

\* A revocation outdates every epoch in flight; an enable carries the one
\* its handler authorised.
LEMMA StepEpoch == TypeOK /\ TypeOK' /\ EpochInvariant /\ [Next]_vars => EpochInvariant'
<1> SUFFICES ASSUME TypeOK, TypeOK', EpochInvariant, [Next]_vars PROVE EpochInvariant'
  OBVIOUS
<1> USE DEF sharedVars, hostVars, axisVars, controlVars
<1>a. /\ \A i \in 1 .. Len(commands) : commands[i].disable_epoch \in Nat
      /\ usb.command.disable_epoch \in Nat
      /\ acknowledged \in Nat
      /\ disable_epoch \in Nat
  <2>1. /\ \A i \in 1 .. Len(commands) : commands[i] \in CommandSet
        /\ usb.command \in CommandSet
    BY DEF TypeOK
  <2>2. \A c \in CommandSet : c.disable_epoch \in Nat
    BY DEF CommandSet
  <2>3. acknowledged \in Nat /\ disable_epoch \in Nat
    BY DEF TypeOK
  <2> QED
    BY <2>1, <2>2, <2>3
<1>b. ASSUME UNCHANGED <<commands, acknowledged>>, RequestDisable,
             usb' = usb \/ ~CarriesEpoch(usb'.command)
      PROVE  EpochInvariant'
  BY <1>a, <1>b, RevocationCovers DEF EpochInvariant
<1>c. ASSUME UNCHANGED <<commands, acknowledged, disable_epoch, usb, authorised>>
      PROVE  EpochInvariant'
  BY <1>c DEF EpochInvariant, EpochCovered
<1>1. CASE Wake
  BY <1>1, <1>c DEF Wake
<1>2. CASE TakeFaults
  BY <1>2, <1>c DEF TakeFaults
<1>3. CASE DrainOne
  <2>1. /\ commands # <<>> /\ commands' = Tail(commands)
        /\ UNCHANGED <<disable_epoch, usb, authorised>>
    BY <1>3 DEF DrainOne
  <2>2. /\ 1 \in 1 .. Len(commands) /\ Head(commands) = commands[1]
        /\ \A i \in 1 .. Len(commands') :
              i + 1 \in 1 .. Len(commands) /\ commands'[i] = commands[i + 1]
    BY <2>1 DEF TypeOK
  <2>3. EpochCovered(acknowledged)'
    <3> DEFINE c == Head(commands)
    <3>1. Apply(c)
      BY <1>3 DEF DrainOne
    <3> HIDE DEF c
    <3>2. \/ acknowledged' = acknowledged
          \/ acknowledged' = c.disable_epoch /\ CarriesEpoch(c)
      BY <3>1, Zenon
      DEF Apply, ApplyEffect, ApplyClearFault, ApplyEnable, ApplyDisable,
          ApplyReplaceConfig, CarriesEpoch
    <3> USE DEF c
    <3> QED
      BY <2>1, <2>2, <3>2 DEF EpochInvariant, EpochCovered
  <2>4. (\A i \in 1 .. Len(commands) :
           CarriesEpoch(commands[i]) => EpochCovered(commands[i].disable_epoch))'
    BY <2>1, <2>2 DEF EpochInvariant, EpochCovered
  <2> QED
    BY <2>1, <2>3, <2>4 DEF EpochInvariant, EpochCovered
<1>4. CASE DrainDone
  BY <1>4, <1>c DEF DrainDone
<1>5. CASE CheckEpoch
  BY <1>5, <1>c DEF CheckEpoch
<1>6. ASSUME NEW s \in Samples, NEW held \in PaddleHolds, ReadInputs(s, held)
      PROVE  EpochInvariant'
  BY <1>6, <1>b, <1>c DEF ReadInputs
<1>7. CASE Arbitrate
  BY <1>7, <1>c DEF Arbitrate
<1>8. CASE DecideDrive
  BY <1>8, <1>c DEF DecideDrive
<1>9. ASSUME NEW force \in EngineForces, NEW overrun \in TickOverruns, Output(force, overrun)
      PROVE  EpochInvariant'
  BY <1>9, <1>c DEF Output
<1>10. CASE Report
  <2>1. CASE ReceiveEnable
    BY <2>1, <1>a DEF ReceiveEnable, EpochInvariant, EpochCovered, EnableCommand, Command
  <2>2. ASSUME NEW kind \in Reports, ReceiveSimple(kind)
        PROVE  EpochInvariant'
    BY <2>2 DEF ReceiveSimple, EpochInvariant, EpochCovered, Command, CarriesEpoch
  <2>3. ASSUME NEW kind \in Reports, ReceiveDisable(kind)
        PROVE  EpochInvariant'
    BY <2>3, <1>b DEF ReceiveDisable, Command, CarriesEpoch
  <2>4. ASSUME NEW c \in Configs, ReceiveConfig(c)
        PROVE  EpochInvariant'
    BY <2>4, <1>b DEF ReceiveConfig, ReplaceCommand, Command, CarriesEpoch
  <2> QED
    BY <1>10, <2>1, <2>2, <2>3, <2>4 DEF Report
<1>11. CASE UsbStep
  <2>1. CASE PushPending
    BY <2>1 DEF PushPending, EpochInvariant, EpochCovered, CarriesEpoch, IdleUsb, Command, TypeOK
  <2>2. CASE PushCommand
    <3>1. CASE Len(commands) = QueueCapacity
      BY <2>2, <3>1 DEF PushCommand, EpochInvariant, EpochCovered, TypeOK
    <3>2. CASE Len(commands) # QueueCapacity
      <4>1. /\ commands' = Append(commands, usb.command)
            /\ ~CarriesEpoch(usb'.command)
            /\ UNCHANGED <<acknowledged, disable_epoch, authorised>>
        BY <2>2, <3>2 DEF PushCommand, IdleUsb, Command, CarriesEpoch
      <4>2. \A i \in 1 .. Len(commands') :
               \/ i \in 1 .. Len(commands) /\ commands'[i] = commands[i]
               \/ commands'[i] = usb.command
        BY <4>1 DEF TypeOK
      <4> QED
        BY <4>1, <4>2 DEF EpochInvariant, EpochCovered
    <3> QED
      BY <3>1, <3>2
  <2>3. CASE RevokeAfterOverflow
    BY <2>3, <1>b DEF RevokeAfterOverflow, IdleUsb, Command, CarriesEpoch
  <2> QED
    BY <1>11, <2>1, <2>2, <2>3 DEF UsbStep
<1>12. CASE UsbEvent
  BY <1>12, <1>c DEF UsbEvent
<1>13. CASE EventStep
  BY <1>13, <1>b, <1>c DEF EventStep, ClearSuspended, RevokeAfterEvent
<1>14. CASE Save
  BY <1>14, <1>c DEF Save, SaveOne
<1>15. CASE LoopStep
  BY <1>15, <1>b, <1>c DEF LoopStep, RequestFault, RevokeAfterFault
<1>16. CASE UNCHANGED vars
  BY <1>16, <1>c DEF vars
<1> QED
  BY <1>1, <1>2, <1>3, <1>4, <1>5, <1>6, <1>7, <1>8, <1>9, <1>10, <1>11, <1>12,
     <1>13, <1>14, <1>15, <1>16
  DEF Next, ControlStep

-----------------------------------------------------------------------------
(* The supervisor and the bridge.                                          *)

Recorded(s) == s.state = "fault" <=> s.first_fault # NoFault

\* What the supervisor's operators do to a supervisor whose faults are recorded.
LEMMA SupervisorSteps ==
    ASSUME NEW s \in Supervisors, Recorded(s)
    PROVE  /\ Recorded(HostDisable(s)) /\ HostDisable(s).state # "armed"
           /\ \A b \in BOOLEAN, code \in FaultCodes :
                 /\ Recorded(LatchFaultIf(b, s, code))
                 /\ LatchFaultIf(b, s, code).state = "armed" => s.state = "armed" /\ ~b
           /\ \A in : Recorded(ClearFault(s, in))
                      /\ (ClearFault(s, in).state = "armed" => s.state = "armed")
           /\ \A in : Recorded(SafetyUpdate(s, in))
                      /\ (SafetyUpdate(s, in).state = "armed" => in.host_actuators_enabled)
BY DEF Recorded, Supervisors, SafetyStates, FaultCodes, NoFault, HostDisable, LatchFaultIf,
       LatchFault, ClearFault, SafetyUpdate, HealthyToArm, HealthyToStayArmed

\* Beyond the epoch, and with the engine.
SafetyInvariant ==
    /\ DriveInvariant
    /\ PassiveInvariant
    /\ FaultInvariant
    /\ EngineFollowsHost

\* Boot leaves the supervisor unarmed and the bridge off.
LEMMA InitSafety == Init => SafetyInvariant
<1> SUFFICES ASSUME Init PROVE SafetyInvariant
  OBVIOUS
<1>1. /\ safety.state \in {"disarmed", "fault"}
      /\ safety.state = "fault" <=> safety.first_fault # NoFault
  BY BootSafetyType DEF Init
<1>2. PICK ready \in BOOLEAN : motor = MotorInitialize(ready /\ ~PassiveWheelMode)
  BY DEF Init
<1>3. motor.pwm = 0 /\ motor.pins = 0
  BY <1>2 DEF MotorInitialize
<1>4. motor.initialized = (ready /\ ~PassiveWheelMode)
  BY <1>2 DEF MotorInitialize
<1>5. PassiveWheelMode => ~motor.initialized
  BY <1>4, Zenon
<1>6. safety.state # "armed"
  BY <1>1
<1>7. engine_enabled = host_enabled
  BY DEF Init
<1>8. tick = "wake"
  BY DEF Init
<1> QED
  BY <1>1, <1>3, <1>5, <1>6, <1>7, <1>8
  DEF Init, SafetyInvariant, DriveInvariant, PassiveInvariant, FaultInvariant,
      EngineFollowsHost

\* One step per action: who may arm, who may drive, what a fault leaves.
LEMMA StepSafety == TypeOK /\ SafetyInvariant /\ [Next]_vars => SafetyInvariant'
<1> SUFFICES ASSUME TypeOK, SafetyInvariant, [Next]_vars PROVE SafetyInvariant'
  OBVIOUS
<1> USE DEF SafetyInvariant, DriveInvariant, PassiveInvariant, FaultInvariant,
            EngineFollowsHost, Recorded, sharedVars, hostVars, axisVars, controlVars
<1>a. /\ safety \in Supervisors /\ Recorded(safety)
      /\ motor \in Motors /\ motor.pwm \in Nat
      /\ PassiveWheelMode \in BOOLEAN
  BY ConstantsAssumption, FullScaleAssumption DEF TypeOK, Motors, Fractions
<1>b. /\ MotorDisable(motor).pwm = 0 /\ MotorDisable(motor).pins = 0
      /\ MotorDisable(motor).initialized = motor.initialized
  BY <1>a, MotorDisableType
<1>c. /\ HostDisable(safety).state # "armed"
      /\ Recorded(HostDisable(safety))
  BY <1>a, SupervisorSteps
<1>d. ASSUME UNCHANGED controlVars
      PROVE  SafetyInvariant'
  BY <1>d
<1>1. CASE Wake
  BY <1>1, <1>b DEF Wake
<1>2. CASE TakeFaults
  <2> DEFINE first == LatchFaultIf(command_overflow, safety, "usb_command_overflow")
  <2>1. /\ first \in Supervisors /\ Recorded(first)
        /\ first.state = "armed" => safety.state = "armed"
    <3>1. command_overflow \in BOOLEAN
      BY DEF TypeOK
    <3>2. "usb_command_overflow" \in FaultCodes
      BY DEF FaultCodes
    <3>3. /\ first \in Supervisors
          /\ Recorded(first)
          /\ first.state = "armed" => safety.state = "armed" /\ ~command_overflow
      <4> HIDE DEF Recorded
      <4> QED
        BY <1>a, <3>1, <3>2, SupervisorTypes, SupervisorSteps
    <3> QED
      BY <3>3
  <2>2. safety' = IF asynchronous_fault # NoFault
                  THEN LatchFaultIf(TRUE, first, asynchronous_fault) ELSE first
    BY <1>2 DEF TakeFaults, LatchFaultIf
  <2> HIDE DEF first
  <2>3. Recorded(safety') /\ (safety'.state = "armed" => safety.state = "armed")
    <3>1. CASE asynchronous_fault = NoFault
      BY <2>1, <2>2, <3>1
    <3>2. CASE asynchronous_fault # NoFault
      <4>1. asynchronous_fault \in FaultCodes
        BY <3>2 DEF TypeOK
      <4>2. safety' = LatchFault(first, asynchronous_fault)
        BY <2>2, <3>2 DEF LatchFaultIf
      <4> QED
        BY <2>1, <4>1, <4>2 DEF LatchFault, FaultCodes, NoFault
    <3> QED
      BY <3>1, <3>2
  <2> QED
    BY <1>2, <2>3 DEF TakeFaults
<1>3. CASE DrainOne
  <2> DEFINE c == Head(commands)
  <2>1. Apply(c) /\ tick = "drain" /\ UNCHANGED <<tick, motor>>
    BY <1>3 DEF DrainOne
  <2> HIDE DEF c
  <2>2. CASE ApplyEffect(c)
    BY <2>1, <2>2 DEF ApplyEffect
  <2>3. CASE ApplyClearFault(c)
    BY <2>1, <2>3 DEF ApplyClearFault
  <2>4. CASE ApplyEnable(c)
    BY <2>1, <2>4 DEF ApplyEnable
  <2>5. CASE ApplyDisable(c)
    BY <2>1, <2>5, <1>c DEF ApplyDisable
  <2>6. CASE ApplyReplaceConfig(c)
    BY <2>1, <2>6, <1>c DEF ApplyReplaceConfig
  <2> QED
    BY <2>1, <2>2, <2>3, <2>4, <2>5, <2>6 DEF Apply
<1>4. CASE DrainDone
  BY <1>4 DEF DrainDone
<1>5. CASE CheckEpoch
  BY <1>5, <1>a, <1>b, <1>c DEF CheckEpoch
<1>6. ASSUME NEW s \in Samples, NEW held \in PaddleHolds, ReadInputs(s, held)
      PROVE  SafetyInvariant'
  <2>1. s.io_ok \in BOOLEAN /\ s.magnet \in BOOLEAN /\ s.jump \in BOOLEAN
    BY ConstantsAssumption DEF SampleSet
  <2> DEFINE first == LatchFaultIf(~s.magnet, safety, "magnet_missing")
             failed == io_failures' >= IoFailureLimit
  <2>2. /\ first \in Supervisors /\ Recorded(first)
        /\ first.state = "armed" => safety.state = "armed"
    BY <1>a DEF LatchFaultIf, LatchFault, Supervisors, SafetyStates, FaultCodes, NoFault
  <2>3. safety' = IF ~s.io_ok
                  THEN LatchFaultIf(failed, safety, "encoder_failure")
                  ELSE LatchFaultIf(s.magnet /\ previous_raw_valid /\ s.jump,
                                    first, "encoder_implausible_motion")
    BY <1>6 DEF ReadInputs, SampleSafety
  <2> HIDE DEF first, failed
  <2>4. /\ Recorded(LatchFaultIf(failed, safety, "encoder_failure"))
        /\ LatchFaultIf(failed, safety, "encoder_failure").state = "armed"
             => safety.state = "armed"
    BY <1>a, SupervisorSteps DEF FaultCodes, LatchFaultIf, LatchFault
  <2>5. Recorded(safety') /\ (safety'.state = "armed" => safety.state = "armed")
    BY <2>2, <2>3, <2>4, SupervisorSteps DEF FaultCodes, LatchFaultIf, LatchFault
  <2> QED
    BY <1>6, <2>5 DEF ReadInputs
<1>7. CASE Arbitrate
  <2> DEFINE cleared == IF clear_requested THEN ClearFault(safety, SafetyInputs) ELSE safety
  <2>1. cleared \in Supervisors /\ Recorded(cleared)
    BY <1>a, SupervisorTypes, SupervisorSteps
  <2>2. safety' = SafetyUpdate(cleared, SafetyInputs)
    BY <1>7 DEF Arbitrate
  <2> HIDE DEF cleared
  <2>3. Recorded(safety') /\ (safety'.state = "armed" => host_enabled)
    BY <2>1, <2>2, SupervisorSteps DEF SafetyInputs
  <2> QED
    BY <1>7, <2>3 DEF Arbitrate
<1>8. CASE DecideDrive
  BY <1>8 DEF DecideDrive, MotorAllowed
<1>9. ASSUME NEW force \in EngineForces, NEW overrun \in TickOverruns, Output(force, overrun)
      PROVE  SafetyInvariant'
  <2> DEFINE repeated == overrun /\ overruns + 1 >= OverrunLimit
  <2>1. force \in SignedFractions /\ config \in DriveLimits
    BY ConfigIsLimits, ConstantsAssumption, FullScaleAssumption
    DEF EngineForces, SignedFractions
  <2>2. ~motor.initialized => SetForce(motor, force, config) = motor
    BY <1>a, <2>1, SetForceType
  <2>3. /\ safety' = LatchFaultIf(repeated, safety, "control_overrun")
        /\ motor' = IF repeated THEN MotorDisable(motor) ELSE MotorAfter(force)
        /\ tick \in {"output_on", "output_off"} /\ tick' = "wake"
        /\ UNCHANGED hostVars
    BY <1>9 DEF Output
  <2>4. CASE repeated
    <3>1. safety'.state = "fault" /\ Recorded(safety')
      BY <1>a, <2>3, <2>4 DEF LatchFaultIf, LatchFault, Supervisors, NoFault
    <3> QED
      BY <1>b, <2>3, <2>4, <3>1
  <2>5. CASE ~repeated /\ tick = "output_on"
    <3>1. safety' = safety /\ motor' = SetForce(motor, force, config)
      BY <2>3, <2>5 DEF LatchFaultIf, MotorAfter
    <3>2. PassiveWheelMode => motor' = motor
      BY <2>2, <3>1
    <3> QED
      BY <2>3, <2>5, <3>1, <3>2
  <2>6. CASE ~repeated /\ tick = "output_off"
    <3>1. safety' = safety /\ motor' = MotorDisable(motor)
      BY <2>3, <2>6 DEF LatchFaultIf, MotorAfter
    <3> QED
      BY <1>b, <2>3, <2>6, <3>1
  <2> QED
    BY <2>3, <2>4, <2>5, <2>6
<1>10. CASE Report
  BY <1>10, <1>d DEF Report, ReceiveSimple, ReceiveEnable, ReceiveDisable, ReceiveConfig
<1>11. CASE UsbStep
  BY <1>11, <1>d DEF UsbStep, PushPending, PushCommand, RevokeAfterOverflow
<1>12. CASE UsbEvent
  BY <1>12, <1>d DEF UsbEvent
<1>13. CASE EventStep
  BY <1>13, <1>d DEF EventStep, ClearSuspended, RevokeAfterEvent
<1>14. CASE Save
  BY <1>14, <1>d DEF Save, SaveOne
<1>15. CASE LoopStep
  BY <1>15, <1>d DEF LoopStep, RequestFault, RevokeAfterFault
<1>16. CASE UNCHANGED vars
  BY <1>16, <1>d DEF vars
<1> QED
  BY <1>1, <1>2, <1>3, <1>4, <1>5, <1>6, <1>7, <1>8, <1>9, <1>10, <1>11, <1>12,
     <1>13, <1>14, <1>15, <1>16
  DEF Next, ControlStep

-----------------------------------------------------------------------------
(* The theorems.                                                           *)

\* The inductive invariant.
IInv == TypeOK /\ EpochInvariant /\ SafetyInvariant

\* The inductive invariant holds in every reachable state.
LEMMA Inductive == Spec => []IInv
<1>1. Init => IInv
  BY InitType, InitEpoch, InitSafety DEF IInv
<1>2. IInv /\ [Next]_vars => IInv'
  BY StepType, StepEpoch, StepSafety DEF IInv
<1> QED
  BY <1>1, <1>2, PTL DEF Spec

\* Every epoch an enable carries or the control task acknowledged is covered
\* by a standing authorisation or out of date, the supervisor is armed for an
\* enabled host only, and a fault is latched exactly while it is on record:
\* what apply_command, the three epoch checks and the supervisor maintain.
THEOREM CoreCorrect == Spec => []CoreInvariant
<1>1. IInv => CoreInvariant
  BY DEF IInv, SafetyInvariant, CoreInvariant
<1> QED
  BY <1>1, Inductive, PTL

\* At the end of a tick the bridge is driven by an armed supervisor only:
\* whatever disarmed it in that tick also switched the bridge off.
THEOREM MotorOff == Spec => []MotorOffUnlessArmed
<1>1. IInv => MotorOffUnlessArmed
  BY DEF IInv, SafetyInvariant, DriveInvariant, MotorOffUnlessArmed
<1> QED
  BY <1>1, Inductive, PTL

\* host_enabled and EffectEngine::actuators_enabled_ never disagree.
THEOREM EngineFollows == Spec => []EngineFollowsHost
<1>1. IInv => EngineFollowsHost
  BY DEF IInv, SafetyInvariant
<1> QED
  BY <1>1, Inductive, PTL

\* A build with kPassiveWheelMode never arms, starts the PWM or raises a
\* direction pin, whatever the host, the sensor and the other tasks do.
THEOREM PassiveOff == Spec => []PassiveStaysOff
<1>1. IInv => PassiveStaysOff
  BY DEF IInv, SafetyInvariant, PassiveInvariant, PassiveStaysOff
<1> QED
  BY <1>1, Inductive, PTL

\* The third epoch check lets the loop drive under a standing authorisation
\* only, however revocations interleave with queued and half-sent enables.
THEOREM DriveAuthorised == Spec => DriveDecisionAuthorised
<1>1. IInv /\ [Next]_vars
        => [tick = "drive" /\ tick' = "output_on" => authorised]_vars
  <2> SUFFICES ASSUME IInv, Next, tick = "drive", tick' = "output_on"
               PROVE  authorised
    BY DEF vars
  <2>1. EpochCovered(acknowledged)
    BY DEF IInv, EpochInvariant
  <2>2. DecideDrive \/ UNCHANGED tick
    BY DEF Next, ControlStep, Wake, TakeFaults, DrainOne, DrainDone, CheckEpoch, ReadInputs,
           Arbitrate, Output, Report, ReceiveSimple, ReceiveEnable, ReceiveDisable,
           ReceiveConfig, UsbStep, PushPending, PushCommand, RevokeAfterOverflow, UsbEvent,
           EventStep, ClearSuspended, RevokeAfterEvent, Save, SaveOne, LoopStep,
           RequestFault, RevokeAfterFault, controlVars
  <2>3. disable_epoch = acknowledged
    BY <2>2 DEF DecideDrive, MotorAllowed
  <2> QED
    BY <2>1, <2>3 DEF EpochCovered
<1> QED
  BY <1>1, Inductive, PTL DEF Spec, DriveDecisionAuthorised

\* The first access of a tick switches off a bridge whose authorisation is
\* gone: a revocation is outlived by at most the tick that was under way.
THEOREM WakeCuts == Spec => WakeCutsRevokedDrive
<1>1. IInv /\ [Next]_vars
        => [tick = "wake" /\ tick' = "faults" /\ ~authorised => motor'.pwm = 0]_vars
  <2> SUFFICES ASSUME IInv, Next, tick = "wake", tick' = "faults", ~authorised
               PROVE  motor'.pwm = 0
    BY DEF vars
  <2>1. EpochCovered(acknowledged) /\ motor \in Motors
    BY DEF IInv, EpochInvariant, TypeOK
  <2>2. Wake \/ UNCHANGED tick
    BY DEF Next, ControlStep, Wake, TakeFaults, DrainOne, DrainDone, CheckEpoch, ReadInputs,
           Arbitrate, DecideDrive, Output, Report, ReceiveSimple, ReceiveEnable, ReceiveDisable,
           ReceiveConfig, UsbStep, PushPending, PushCommand, RevokeAfterOverflow, UsbEvent,
           EventStep, ClearSuspended, RevokeAfterEvent, Save, SaveOne, LoopStep,
           RequestFault, RevokeAfterFault, controlVars
  <2>3. motor' = MotorDisable(motor)
    BY <2>1, <2>2 DEF Wake, EpochCovered
  <2> QED
    BY <2>1, <2>3, MotorDisableType
<1> QED
  BY <1>1, Inductive, PTL DEF Spec, WakeCutsRevokedDrive

\* The loop looks first, decides at length, and acts once.
LEMMA Turns ==
    tick \in TickPoints =>
        (/\ tick = "wake" => Turn = "look"
         /\ tick \notin {"wake", "output_on", "output_off"} => Turn = "decide"
         /\ tick = "output_on" => Turn = "drive"
         /\ tick = "output_off" => Turn = "rest")
BY DEF Turn, TickPoints

\* Every step of every task is one the abstract authority allows, or none of
\* its business.
LEMMA AuthorityStep ==
    IInv /\ IInv' /\ [Next]_vars
      => [Authority!Next]_<<authorised, motor.pwm > 0, safety.state = "fault", Turn>>
<1> SUFFICES ASSUME IInv, IInv', [Next]_vars
             PROVE  [Authority!Next]_<<authorised, motor.pwm > 0, safety.state = "fault", Turn>>
  OBVIOUS
<1> USE DEF sharedVars, hostVars, axisVars, controlVars
<1> DEFINE Driven == motor.pwm > 0
           Failed == safety.state = "fault"
<1>a. /\ authorised \in BOOLEAN /\ authorised' \in BOOLEAN
      /\ tick \in TickPoints /\ tick' \in TickPoints
      /\ safety \in Supervisors /\ motor \in Motors
      /\ EpochCovered(acknowledged)
      /\ tick = "output_on" => safety.state = "armed"
  BY DEF IInv, TypeOK, EpochInvariant, SafetyInvariant, DriveInvariant
<1>b. /\ tick = "wake" => Turn = "look"
      /\ tick \notin {"wake", "output_on", "output_off"} => Turn = "decide"
      /\ tick = "output_on" => Turn = "drive"
      /\ tick = "output_off" => Turn = "rest"
  BY <1>a, Turns
<1>c. (/\ tick = "wake" => Turn = "look"
       /\ tick \notin {"wake", "output_on", "output_off"} => Turn = "decide"
       /\ tick = "output_on" => Turn = "drive"
       /\ tick = "output_off" => Turn = "rest")'
  <2>1. (tick \in TickPoints)'
    BY <1>a
  <2> QED
    BY <2>1, Turns, PTL
<1>d. MotorDisable(motor).pwm = 0
  BY <1>a, MotorDisableType
<1>e. ASSUME UNCHANGED <<motor, safety, tick>>
      PROVE  Authority!Host
  <2>1. UNCHANGED Turn
    BY <1>e DEF Turn
  <2> QED
    BY <1>a, <1>e, <2>1 DEF Authority!Host
<1>f. ASSUME tick \in {"faults", "drain", "check", "sample", "arbitrate"},
             tick' \in {"faults", "drain", "check", "sample", "arbitrate", "drive"},
             motor' = motor \/ motor'.pwm = 0,
             authorised' = authorised \/ authorised' = FALSE
      PROVE  Authority!Prepare
  <2>1. Turn = "decide" /\ Turn' = "decide"
    BY <1>b, <1>c, <1>f
  <2>2. Driven' => Driven
    BY <1>f
  <2>3. authorised' => authorised
    BY <1>f
  <2>4. Driven' \in BOOLEAN /\ Failed' \in BOOLEAN
    OBVIOUS
  <2> QED
    BY <1>a, <2>1, <2>2, <2>3, <2>4 DEF Authority!Prepare
<1>1. CASE Wake
  <2>1. Turn = "look" /\ Turn' = "decide"
    BY <1>1, <1>b, <1>c DEF Wake
  <2>2. Driven' => Driven /\ authorised
    BY <1>1, <1>a, <1>d DEF Wake, EpochCovered
  <2>3. Driven' \in BOOLEAN /\ UNCHANGED <<authorised, Failed>>
    BY <1>1 DEF Wake
  <2> QED
    BY <2>1, <2>2, <2>3 DEF Authority!Next, Authority!Look
<1>2. CASE TakeFaults
  BY <1>2, <1>f DEF TakeFaults, Authority!Next
<1>3. CASE DrainOne
  BY <1>3, <1>f DEF DrainOne, Authority!Next
<1>4. CASE DrainDone
  BY <1>4, <1>f DEF DrainDone, Authority!Next
<1>5. CASE CheckEpoch
  BY <1>5, <1>d, <1>f DEF CheckEpoch, Authority!Next
<1>6. CASE \E s \in Samples, held \in PaddleHolds : ReadInputs(s, held)
  <2>1. /\ tick = "sample" /\ tick' = "arbitrate" /\ motor' = motor
        /\ authorised' = authorised \/ authorised' = FALSE
    BY <1>6 DEF ReadInputs, RequestDisable
  <2> QED
    BY <1>f, <2>1 DEF Authority!Next
<1>7. CASE Arbitrate
  BY <1>7, <1>f DEF Arbitrate, Authority!Next
<1>8. CASE DecideDrive
  <2>1. Turn = "decide" /\ Turn' \in {"drive", "rest"}
    BY <1>8, <1>b, <1>c DEF DecideDrive
  <2>2. Turn' = "drive" => authorised /\ ~Failed
    <3>1. Turn' = "drive" => tick' = "output_on"
      BY <1>8, <1>c DEF DecideDrive
    <3> QED
      BY <1>8, <1>a, <3>1 DEF DecideDrive, MotorAllowed, EpochCovered
  <2>3. UNCHANGED <<authorised, Driven, Failed>>
    BY <1>8 DEF DecideDrive
  <2> QED
    BY <2>1, <2>2, <2>3 DEF Authority!Next, Authority!Decide
<1>9. CASE \E force \in EngineForces, overrun \in TickOverruns : Output(force, overrun)
  <2>1. PICK force \in EngineForces, overrun \in TickOverruns : Output(force, overrun)
    BY <1>9
  <2> DEFINE repeated == overrun /\ overruns + 1 >= OverrunLimit
  <2>2. /\ tick \in {"output_on", "output_off"} /\ tick' = "wake"
        /\ motor' = IF repeated THEN MotorDisable(motor) ELSE MotorAfter(force)
        /\ safety' = LatchFaultIf(repeated, safety, "control_overrun")
        /\ UNCHANGED authorised
    BY <2>1 DEF Output
  <2> HIDE DEF repeated
  <2>3. Turn \in {"drive", "rest"} /\ Turn' = "look"
    BY <1>b, <1>c, <2>2
  <2>4. Failed => Failed'
    BY <2>2 DEF LatchFaultIf, LatchFault
  <2>5. Driven' => Turn = "drive" /\ ~Failed'
    <3>1. CASE repeated
      BY <1>d, <2>2, <3>1
    <3>2. CASE ~repeated /\ tick = "output_off"
      BY <1>d, <2>2, <3>2 DEF MotorAfter
    <3>3. CASE ~repeated /\ tick = "output_on"
      BY <1>a, <1>b, <2>2, <3>3 DEF LatchFaultIf
    <3> QED
      BY <2>2, <3>1, <3>2, <3>3
  <2>6. Driven' \in BOOLEAN /\ Failed' \in BOOLEAN
    OBVIOUS
  <2> QED
    BY <2>2, <2>3, <2>4, <2>5, <2>6 DEF Authority!Next, Authority!Act
<1>10. CASE Report
  BY <1>10, <1>e DEF Report, ReceiveSimple, ReceiveEnable, ReceiveDisable, ReceiveConfig,
                     Authority!Next
<1>11. CASE UsbStep
  BY <1>11, <1>e DEF UsbStep, PushPending, PushCommand, RevokeAfterOverflow, Authority!Next
<1>12. CASE UsbEvent
  BY <1>12, <1>e DEF UsbEvent, Authority!Next
<1>13. CASE EventStep
  BY <1>13, <1>e DEF EventStep, ClearSuspended, RevokeAfterEvent, Authority!Next
<1>14. CASE Save
  BY <1>14, <1>e DEF Save, SaveOne, Authority!Next
<1>15. CASE LoopStep
  BY <1>15, <1>e DEF LoopStep, RequestFault, RevokeAfterFault, Authority!Next
<1>16. CASE UNCHANGED vars
  BY <1>16, <1>e DEF vars, Authority!Next
<1> QED
  BY <1>1, <1>2, <1>3, <1>4, <1>5, <1>6, <1>7, <1>8, <1>9, <1>10, <1>11, <1>12, <1>13,
     <1>14, <1>15, <1>16
  DEF Next, ControlStep

\* The control task, its three checks and its queue implement the authority
\* of the host over the drive: under a standing grant and without a fault it
\* may decide to drive, and a grant that ended is noticed at the next look.
THEOREM AuthorityKept == Spec => ImplementsAuthority
<1>1. Init => Authority!Init
  <2> SUFFICES ASSUME Init PROVE Authority!Init
    OBVIOUS
  <2>1. PICK ready \in BOOLEAN : motor = MotorInitialize(ready /\ ~PassiveWheelMode)
    BY DEF Init
  <2>2. ~(motor.pwm > 0)
    BY <2>1 DEF MotorInitialize
  <2>3. Turn = "look" /\ authorised = FALSE
    BY DEF Init, Turn
  <2> QED
    BY <2>2, <2>3 DEF Authority!Init
<1> QED
  BY <1>1, AuthorityStep, Inductive, PTL DEF Spec, ImplementsAuthority, Authority!Spec

\* The first fault survives every step of every task except a clear_fault
\* arbitrated with the host disabled, which leaves a disarmed supervisor.
THEOREM FaultClears == Spec => FaultOnlyClears
<1> DEFINE Kept == safety'.first_fault = safety.first_fault /\ safety'.state = "fault"
           Cleared == /\ safety'.first_fault = NoFault
                      /\ safety'.state = "disarmed"
                      /\ ~host_enabled'
<1>1. IInv /\ [Next]_vars
        => [safety.first_fault # NoFault => Kept \/ Cleared]_vars
  <2> SUFFICES ASSUME IInv, Next, safety.first_fault # NoFault PROVE Kept \/ Cleared
    BY DEF vars
  <2>1. safety \in Supervisors /\ safety.state = "fault"
    BY DEF IInv, TypeOK, SafetyInvariant, FaultInvariant
  <2>2. UNCHANGED safety => Kept
    BY <2>1
  <2>3. \A b, code : LET s == LatchFaultIf(b, safety, code)
                    IN  s.first_fault = safety.first_fault /\ s.state = "fault"
    BY <2>1 DEF LatchFaultIf, LatchFault
  <2>4. HostDisable(safety) = safety
    BY <2>1 DEF HostDisable
  <2>5. CASE TakeFaults
    <3> DEFINE first == LatchFaultIf(command_overflow, safety, "usb_command_overflow")
    <3>1. first.first_fault = safety.first_fault /\ first.state = "fault"
      BY <2>3
    <3>2. safety' = LatchFaultIf(asynchronous_fault # NoFault, first, asynchronous_fault)
      BY <2>5 DEF TakeFaults
    <3> HIDE DEF first
    <3> QED
      BY <2>1, <3>1, <3>2 DEF LatchFaultIf, LatchFault
  <2>6. CASE \E s \in Samples, held \in PaddleHolds : ReadInputs(s, held)
    <3>1. PICK s \in Samples, held \in PaddleHolds : ReadInputs(s, held)
      BY <2>6
    <3>2. safety' = SampleSafety(s, io_failures')
      BY <3>1 DEF ReadInputs
    <3> QED
      BY <2>1, <3>2 DEF SampleSafety, LatchFaultIf, LatchFault
  <2>7. CASE Arbitrate
    <3>1. SafetyInputs.host_actuators_enabled = host_enabled
      BY DEF SafetyInputs
    <3>2. host_enabled' = host_enabled
      BY <2>7 DEF Arbitrate
    <3>3. CASE safety' = SafetyUpdate(safety, SafetyInputs)
      BY <2>1, <3>3 DEF SafetyUpdate
    <3>4. CASE safety' = SafetyUpdate(ClearFault(safety, SafetyInputs), SafetyInputs)
      BY <2>1, <3>1, <3>2, <3>4
      DEF SafetyUpdate, ClearFault, HealthyToArm, HealthyToStayArmed
    <3> QED
      BY <2>7, <3>3, <3>4 DEF Arbitrate
  <2>8. CASE \E force \in EngineForces, overrun \in TickOverruns : Output(force, overrun)
    BY <2>3, <2>8 DEF Output
  <2>9. CASE DrainOne
    BY <2>2, <2>4, <2>9
    DEF DrainOne, Apply, ApplyEffect, ApplyClearFault, ApplyEnable, ApplyDisable,
        ApplyReplaceConfig
  <2>10. CASE Wake \/ DrainDone \/ CheckEpoch \/ DecideDrive
    BY <2>2, <2>4, <2>10 DEF Wake, DrainDone, CheckEpoch, DecideDrive
  <2>11. CASE Report \/ UsbStep \/ UsbEvent \/ EventStep \/ Save \/ LoopStep
    BY <2>2, <2>11
    DEF Report, ReceiveSimple, ReceiveEnable, ReceiveDisable, ReceiveConfig, UsbStep,
        PushPending, PushCommand, RevokeAfterOverflow, UsbEvent, EventStep, ClearSuspended,
        RevokeAfterEvent, Save, SaveOne, LoopStep, RequestFault, RevokeAfterFault, controlVars
  <2> QED
    BY <2>5, <2>6, <2>7, <2>8, <2>9, <2>10, <2>11 DEF Next, ControlStep
<1> QED
  BY <1>1, Inductive, PTL DEF Spec, FaultOnlyClears

-----------------------------------------------------------------------------
(***************************************************************************)
(* The passive build.                                                      *)
(***************************************************************************)

\* What keeps the passive build off: its loop disables the host before it
\* updates the supervisor, and never decides to drive.
PassiveIInv ==
    /\ tick \in TickPoints \ {"output_on"}
    /\ tick \in {"sample", "arbitrate"} => host_enabled = FALSE
    /\ safety = [state |-> safety.state, first_fault |-> safety.first_fault]
    /\ safety.state # "armed"
    /\ motor.initialized = FALSE
    /\ motor.pwm = 0 /\ motor.pins = 0

\* Boot leaves the supervisor unarmed and the bridge as the passive build
\* wants it.
LEMMA PassiveInit == Passive!Init => PassiveIInv
<1> SUFFICES ASSUME Passive!Init PROVE PassiveIInv
  OBVIOUS
<1>1. PICK from_nvs \in BOOLEAN, motor_ready \in BOOLEAN, others_ready \in BOOLEAN :
         /\ safety = Passive!BootSafety(from_nvs, motor_ready /\ others_ready)
         /\ motor = MotorInitialize(motor_ready /\ ~TRUE)
  BY Zenon DEF Passive!Init, Passive!MotorInitialize, MotorInitialize
<1>2. motor.initialized = FALSE /\ motor.pwm = 0 /\ motor.pins = 0
  BY <1>1 DEF MotorInitialize
<1>3. /\ safety = [state |-> safety.state, first_fault |-> safety.first_fault]
      /\ safety.state # "armed"
  BY <1>1 DEF Passive!BootSafety, Passive!LatchFaultIf, Passive!LatchFault, Passive!BootComplete,
              Passive!InitialSupervisor
<1> QED
  BY <1>2, <1>3 DEF Passive!Init, PassiveIInv, TickPoints

\* No step of any task of the passive build arms, drives or enables.
LEMMA PassiveStep == PassiveIInv /\ [Passive!Next]_vars => PassiveIInv'
<1> SUFFICES ASSUME PassiveIInv, [Passive!Next]_vars PROVE PassiveIInv'
  OBVIOUS
<1> USE DEF PassiveIInv, TickPoints, Passive!sharedVars, Passive!hostVars, Passive!axisVars,
            Passive!controlVars
<1>a. ASSUME UNCHANGED Passive!controlVars
      PROVE  PassiveIInv'
  BY <1>a
<1>b. /\ Passive!MotorDisable(motor).initialized = FALSE
      /\ Passive!MotorDisable(motor).pwm = 0
      /\ Passive!MotorDisable(motor).pins = 0
  BY DEF Passive!MotorDisable
<1>c. \A s : s = [state |-> s.state, first_fault |-> s.first_fault] /\ s.state # "armed"
        => /\ Passive!HostDisable(s) = s
           /\ \A condition, code :
                 LET t == Passive!LatchFaultIf(condition, s, code)
                 IN  t = [state |-> t.state, first_fault |-> t.first_fault] /\ t.state # "armed"
           /\ \A in :
                 LET t == Passive!ClearFault(s, in)
                 IN  t = [state |-> t.state, first_fault |-> t.first_fault] /\ t.state # "armed"
           /\ \A in : in.host_actuators_enabled = FALSE => Passive!SafetyUpdate(s, in) = s
  BY DEF Passive!HostDisable, Passive!LatchFaultIf, Passive!LatchFault, Passive!ClearFault,
         Passive!SafetyUpdate, Passive!HealthyToArm, Passive!HealthyToStayArmed
<1>1. CASE Passive!Wake
  BY <1>1, <1>b DEF Passive!Wake
<1>2. CASE Passive!TakeFaults
  BY <1>2, <1>c DEF Passive!TakeFaults
<1>3. CASE Passive!DrainOne
  BY <1>3, <1>c
  DEF Passive!DrainOne, Passive!Apply, Passive!ApplyEffect, Passive!ApplyClearFault,
      Passive!ApplyEnable, Passive!ApplyDisable, Passive!ApplyReplaceConfig
<1>4. CASE Passive!DrainDone
  BY <1>4 DEF Passive!DrainDone
<1>5. CASE Passive!CheckEpoch
  BY <1>5, <1>b, <1>c DEF Passive!CheckEpoch
<1>6. ASSUME NEW s \in PassiveSamples, NEW held \in PassiveHolds, Passive!ReadInputs(s, held)
      PROVE  PassiveIInv'
  BY <1>6, <1>c DEF Passive!ReadInputs, Passive!SampleSafety
<1>7. CASE Passive!Arbitrate
  <2>1. host_enabled = FALSE /\ Passive!SafetyInputs.host_actuators_enabled = host_enabled
    BY <1>7 DEF Passive!Arbitrate, Passive!SafetyInputs
  <2> QED
    BY <1>7, <1>c, <2>1 DEF Passive!Arbitrate
<1>8. CASE Passive!DecideDrive
  BY <1>8 DEF Passive!DecideDrive
<1>9. ASSUME NEW force, NEW overrun, Passive!Output(force, overrun)
      PROVE  PassiveIInv'
  <2>1. motor' = Passive!MotorDisable(motor)
    BY <1>9 DEF Passive!Output, Passive!MotorAfter
  <2> QED
    BY <1>9, <1>b, <1>c, <2>1 DEF Passive!Output
<1>10. CASE Passive!Report
  BY <1>10, <1>a DEF Passive!Report, Passive!ReceiveSimple, Passive!ReceiveEnable,
                     Passive!ReceiveDisable, Passive!ReceiveConfig
<1>11. CASE Passive!UsbStep
  BY <1>11, <1>a DEF Passive!UsbStep, Passive!PushPending, Passive!PushCommand,
                     Passive!RevokeAfterOverflow
<1>12. CASE Passive!UsbEvent \/ Passive!EventStep
  BY <1>12, <1>a DEF Passive!UsbEvent, Passive!EventStep, Passive!ClearSuspended,
                     Passive!RevokeAfterEvent
<1>13. CASE Passive!Save \/ Passive!LoopStep
  BY <1>13, <1>a DEF Passive!Save, Passive!SaveOne, Passive!LoopStep, Passive!RequestFault,
                     Passive!RevokeAfterFault
<1>14. CASE UNCHANGED vars
  BY <1>14 DEF vars, controlVars
<1> QED
  BY <1>1, <1>2, <1>3, <1>4, <1>5, <1>6, <1>7, <1>8, <1>9, <1>10, <1>11, <1>12, <1>13, <1>14
  DEF Passive!Next, Passive!ControlStep

\* kPassiveWheelMode: whatever a host of the passive build sends and its sensors
\* show, the supervisor never arms and the bridge stays low, because the loop
\* disables the host before it updates the supervisor and decides on no drive;
\* in the active build what is not armed at the end of a tick is off.
THEOREM BuildsMotorOff == BuildsSpec => []MotorOffInBothBuilds
<1> DEFINE BIInv == /\ build \in {"active", "passive"}
                    /\ build = "active" => IInv
                    /\ build = "passive" => PassiveIInv
<1>1. BuildsInit => BIInv
  BY PassiveInit, InitType, InitEpoch, InitSafety DEF BuildsInit, IInv
<1>2. BIInv /\ [BuildsNext]_<<vars, build>> => BIInv'
  <2> SUFFICES ASSUME BIInv, [BuildsNext]_<<vars, build>> PROVE BIInv'
    OBVIOUS
  <2>1. CASE build = "active"
    <3>1. [Next]_vars /\ build' = "active"
      BY <2>1 DEF BuildsNext
    <3>2. IInv'
      BY <2>1, <3>1, StepType, StepEpoch, StepSafety DEF IInv
    <3> QED
      BY <3>1, <3>2
  <2>2. CASE build = "passive"
    <3>1. [Passive!Next]_vars /\ build' = "passive"
      BY <2>2 DEF BuildsNext
    <3> QED
      BY <2>2, <3>1, PassiveStep
  <2> QED
    BY <2>1, <2>2
<1>3. BIInv => MotorOffInBothBuilds
  BY DEF MotorOffInBothBuilds, Passive!PassiveStaysOff, PassiveIInv, IInv, SafetyInvariant,
         DriveInvariant, MotorOffUnlessArmed
<1> QED
  BY <1>1, <1>2, <1>3, PTL DEF BuildsSpec

-----------------------------------------------------------------------------
(***************************************************************************)
(* Liveness of the active build, from the weak fairness of the tasks.      *)
(* ENABLED is opaque to the prover: that a step the code leaves open can   *)
(* be taken is the hypothesis TasksCanRun, which TLC checks.               *)
(***************************************************************************)

\* Only the control task moves the tick, from each point to the next; the
\* queue is empty when the drain ends.
LEMMA TickSteps ==
    ASSUME [Next]_vars
    PROVE  /\ tick = "wake" => tick' \in {"wake", "faults"}
           /\ tick = "faults" => tick' \in {"faults", "drain"}
           /\ tick = "drain" => tick' \in {"drain", "check"}
           /\ tick = "check" => tick' \in {"check", "sample"}
           /\ tick = "sample" => tick' \in {"sample", "arbitrate"}
           /\ tick = "arbitrate" => tick' \in {"arbitrate", "drive"}
           /\ tick = "drive" => tick' \in {"drive", "output_on", "output_off"}
           /\ tick \in {"output_on", "output_off"} => tick' \in {tick, "wake"}
           /\ tick' # tick => ControlStep
BY DEF Next, ControlStep, Wake, TakeFaults, DrainOne, DrainDone, CheckEpoch, ReadInputs,
       Arbitrate, DecideDrive, Output, Report, ReceiveSimple, ReceiveEnable, ReceiveDisable,
       ReceiveConfig, UsbStep, PushPending, PushCommand, RevokeAfterOverflow, UsbEvent,
       EventStep, ClearSuspended, RevokeAfterEvent, Save, SaveOne, LoopStep,
       RequestFault, RevokeAfterFault, controlVars, vars

\* A step of the control task is the one its point in the tick calls for.
LEMMA ControlTurns ==
    ASSUME ControlStep
    PROVE  /\ tick = "wake" => Wake
           /\ tick = "faults" => TakeFaults
           /\ tick = "drain" => DrainOne \/ DrainDone
           /\ tick = "check" => CheckEpoch
           /\ tick = "sample" => \E s \in Samples, held \in PaddleHolds : ReadInputs(s, held)
           /\ tick = "arbitrate" => Arbitrate
           /\ tick = "drive" => DecideDrive
           /\ tick \in {"output_on", "output_off"} =>
                 \E force \in EngineForces, overrun \in TickOverruns : Output(force, overrun)
BY DEF ControlStep, Wake, TakeFaults, DrainOne, DrainDone, CheckEpoch, ReadInputs,
       Arbitrate, DecideDrive, Output

\* Only the drain takes several steps at one point.
LEMMA ControlMoves ==
    ASSUME ControlStep
    PROVE  tick # "drain" => tick' # tick
BY DEF ControlStep, Wake, TakeFaults, DrainOne, DrainDone, CheckEpoch, ReadInputs,
       Arbitrate, DecideDrive, Output

\* The last step of a tick, whatever was decided.
OutputPoint == tick \in {"output_on", "output_off"}

\* A control task that is scheduled, and whose drain ends, passes every point
\* of the tick again and again (ControlTask::run).
LEMMA TickComesRound ==
    LiveSpec /\ []TasksCanRun /\ DrainKeepsUp
        => /\ []<>(tick = "wake")
           /\ []<>(tick = "faults")
           /\ []<>(tick = "drain")
           /\ []<>(tick = "arbitrate")
<1>1. TypeOK => \/ tick = "wake" \/ tick = "faults" \/ tick = "drain" \/ tick = "check"
                \/ tick = "sample" \/ tick = "arbitrate" \/ tick = "drive" \/ OutputPoint
  BY DEF TypeOK, TickPoints, OutputPoint
<1>2. tick = "wake" /\ [Next]_vars => (tick = "wake")' \/ (tick = "faults")'
  BY TickSteps
<1>3. tick = "faults" /\ [Next]_vars => (tick = "faults")' \/ (tick = "drain")'
  BY TickSteps
<1>4. tick = "drain" /\ [Next]_vars => (tick = "drain")' \/ (tick = "check")'
  BY TickSteps
<1>5. tick = "check" /\ [Next]_vars => (tick = "check")' \/ (tick = "sample")'
  BY TickSteps
<1>6. tick = "sample" /\ [Next]_vars => (tick = "sample")' \/ (tick = "arbitrate")'
  BY TickSteps
<1>7. tick = "arbitrate" /\ [Next]_vars => (tick = "arbitrate")' \/ (tick = "drive")'
  BY TickSteps
<1>8. tick = "drive" /\ [Next]_vars => (tick = "drive")' \/ OutputPoint'
  BY TickSteps DEF OutputPoint
<1>9. OutputPoint /\ [Next]_vars => OutputPoint' \/ (tick = "wake")'
  BY TickSteps DEF OutputPoint
<1>10. /\ tick = "wake" /\ <<ControlStep>>_vars => ~(tick = "wake")'
       /\ tick = "faults" /\ <<ControlStep>>_vars => ~(tick = "faults")'
       /\ tick = "check" /\ <<ControlStep>>_vars => ~(tick = "check")'
       /\ tick = "sample" /\ <<ControlStep>>_vars => ~(tick = "sample")'
       /\ tick = "arbitrate" /\ <<ControlStep>>_vars => ~(tick = "arbitrate")'
       /\ tick = "drive" /\ <<ControlStep>>_vars => ~(tick = "drive")'
  BY ControlMoves
<1>11. OutputPoint /\ <<ControlStep>>_vars => ~OutputPoint'
  BY ControlTurns DEF OutputPoint, Output
<1>12. tick # "drain" <=> ~(tick = "drain")
  OBVIOUS
<1> QED
  BY <1>1, <1>2, <1>3, <1>4, <1>5, <1>6, <1>7, <1>8, <1>9, <1>10, <1>11, <1>12, TypeCorrect, PTL
  DEF LiveSpec, Fairness, Spec, DrainKeepsUp, TasksCanRun

\* A revocation stops the motor, however the tasks interleave: the tick comes
\* round to its start, where the epoch shared.request_disable() counted up is
\* seen and the bridge switched off, unless the host has enabled it anew.
THEOREM RevocationStops ==
    LiveSpec /\ []TasksCanRun => RevocationStopsMotor
<1> DEFINE Stopped == motor.pwm = 0 \/ authorised
<1>1. tick = "wake" /\ [Next]_vars => (tick = "wake")' \/ (tick = "faults")'
  BY TickSteps
<1>2. IInv /\ ~authorised /\ tick = "wake" /\ [Next]_vars
         => Stopped' \/ (~authorised /\ tick = "wake")'
  <2> SUFFICES ASSUME IInv, ~authorised, tick = "wake", [Next]_vars, tick' # "wake", ~authorised'
               PROVE  motor'.pwm = 0
    BY DEF IInv, TypeOK
  <2>1. Wake
    BY TickSteps, ControlTurns
  <2>2. EpochCovered(acknowledged) /\ motor \in Motors
    BY DEF IInv, EpochInvariant, TypeOK
  <2>3. motor' = MotorDisable(motor)
    BY <2>1, <2>2 DEF Wake, EpochCovered
  <2> QED
    BY <2>3, <2>2, MotorDisableType
<1>3. tick = "wake" /\ <<ControlStep>>_vars => ~(tick = "wake")'
  BY ControlMoves
<1> HIDE DEF Stopped
<1>4. (~authorised ~> Stopped) => (~authorised ~> (motor.pwm = 0 \/ authorised))
  BY PTL DEF Stopped
<1>5. authorised => Stopped
  BY DEF Stopped
<1> QED
  BY <1>1, <1>2, <1>3, <1>4, <1>5, TickComesRound, Inductive, PTL
  DEF RevocationStopsMotor, LiveSpec, Fairness, Spec, TasksCanRun


\* A dropped command or a failed save is on its way to the supervisor.
Failing == command_overflow \/ asynchronous_fault # NoFault

\* Only the control task takes the two flags, and what it takes it latches.
LEMMA FailureStays ==
    ASSUME TypeOK, Failing, [Next]_vars
    PROVE  \/ Failing' /\ (tick = "faults" => tick' = "faults")
           \/ safety'.state = "fault"
<1>1. CASE TakeFaults
  BY <1>1 DEF TakeFaults, Failing, LatchFaultIf, LatchFault
<1>2. CASE ~TakeFaults
  <2>1. Failing'
    BY <1>2 DEF TypeOK, Failing, NoFault, Next, ControlStep, Wake, DrainOne, DrainDone,
           CheckEpoch, ReadInputs, Arbitrate, DecideDrive, Output, Report, ReceiveSimple,
           ReceiveEnable, ReceiveDisable, ReceiveConfig, UsbStep, PushPending, PushCommand,
           RevokeAfterOverflow, UsbEvent, EventStep, ClearSuspended, RevokeAfterEvent, Save,
           SaveOne, LoopStep, RequestFault, RevokeAfterFault, RequestDisable, sharedVars, vars
  <2>2. tick = "faults" => tick' = "faults"
    BY <1>2, TickSteps, ControlTurns
  <2> QED
    BY <2>1, <2>2
<1> QED
  BY <1>1, <1>2

\* A dropped command and a failed save are latched: the flag and the fault code
\* stay up until the control task takes them, which latches one, and the tick
\* comes round to that (note_command_overflow, request_fault).
THEOREM FailureLatched == LiveSpec /\ []TasksCanRun => FailureIsLatched
<1> DEFINE Latched == safety.state = "fault"
<1>1. TypeOK /\ Failing /\ [Next]_vars => Failing' \/ Latched'
  BY FailureStays
<1>2. TypeOK /\ Failing /\ tick = "faults" /\ [Next]_vars
        => (Failing /\ tick = "faults")' \/ Latched'
  BY FailureStays
<1>3. tick = "faults" /\ <<ControlStep>>_vars => ~(tick = "faults")'
  BY ControlMoves
<1>4. Failing <=> command_overflow \/ asynchronous_fault # NoFault
  BY DEF Failing
<1> HIDE DEF Latched
<1>5. (Failing ~> Latched) => (Failing ~> safety.state = "fault")
  BY PTL DEF Latched
<1> QED
  BY <1>1, <1>2, <1>3, <1>4, <1>5, TickComesRound, TypeCorrect, PTL
  DEF FailureIsLatched, LiveSpec, Fairness, Spec, TasksCanRun

-----------------------------------------------------------------------------
(* An enable that stands gets through.                                     *)

\* Commands that take the enable back when they are drained.
Disabling(c) == c.type \in {"disable_actuators", "reset", "replace_config"}

CurrentEnable(c) == CarriesEpoch(c) /\ c.disable_epoch = disable_epoch

\* Draining c after a current enable leaves the enable in force.
Harmless(c) == ~Disabling(c) /\ (CarriesEpoch(c) => c.disable_epoch = disable_epoch)

HarmlessFrom(k) == \A i \in k .. Len(commands) : Harmless(commands[i])

EnableSent == usb.at = "push" /\ CarriesEpoch(usb.command)
EnableQueued == \E k \in 1 .. Len(commands) : CurrentEnable(commands[k]) /\ HarmlessFrom(k)
EnableInForce == acknowledged = disable_epoch /\ host_enabled /\ HarmlessFrom(1)

HandlerHarmless == usb.at \in {"push_pending", "push"} => Harmless(usb.command)

\* While the authorisation stands, its enable is somewhere on its way and
\* nothing behind it takes it back, or a push has failed, which is about to
\* end the authorisation.
EnableInvariant ==
    authorised =>
        /\ HandlerHarmless
        /\ usb.at = "overflowed" \/ EnableSent \/ EnableQueued \/ EnableInForce

\* A reading that succeeded has ended the run of failures, and the supervisor
\* has left boot.
ReadingInvariant == safety.state # "boot" /\ (sample.io_ok => io_failures = 0)

HostView == <<authorised, usb, commands, disable_epoch, acknowledged, host_enabled>>

\* Which steps concern the host's enable at all, while it stands.
LEMMA EnableSteps ==
    ASSUME TypeOK, [Next]_vars, ~PassiveWheelMode, authorised'
    PROVE  \/ UNCHANGED HostView
           \/ DrainOne
           \/ CheckEpoch
           \/ \E kind \in {"effect", "clear_fault"} : ReceiveSimple(kind)
           \/ ReceiveEnable
           \/ PushPending
           \/ PushCommand
<1> USE DEF sharedVars, hostVars, axisVars, controlVars, HostView
<1>1. CASE UNCHANGED vars
  BY <1>1 DEF vars
<1>2. CASE ControlStep
  BY <1>2 DEF ControlStep, Wake, TakeFaults, DrainDone, ReadInputs, Arbitrate, DecideDrive,
              Output, RequestDisable
<1>3. CASE Report
  BY <1>3 DEF Report, ReceiveSimple, ReceiveDisable, ReceiveConfig, RequestDisable
<1>4. CASE UsbStep
  BY <1>4 DEF UsbStep, RevokeAfterOverflow, RequestDisable
<1>5. CASE UsbEvent \/ EventStep
  BY <1>5 DEF UsbEvent, EventStep, ClearSuspended, RevokeAfterEvent, RequestDisable
<1>6. CASE Save \/ LoopStep
  BY <1>6 DEF Save, SaveOne, LoopStep, RequestFault, RevokeAfterFault, RequestDisable
<1> QED
  BY <1>1, <1>2, <1>3, <1>4, <1>5, <1>6 DEF Next

\* What draining one command does to the queue and to the host's enable.
LEMMA DrainedEnable ==
    ASSUME TypeOK, DrainOne
    PROVE  /\ 1 \in 1 .. Len(commands)
           /\ Len(commands') = Len(commands) - 1
           /\ \A i \in 1 .. Len(commands') : commands'[i] = commands[i + 1]
           /\ UNCHANGED <<authorised, usb, disable_epoch>>
           /\ CarriesEpoch(commands[1]) =>
                 acknowledged' = commands[1].disable_epoch /\ host_enabled'
           /\ ~CarriesEpoch(commands[1]) /\ ~Disabling(commands[1]) =>
                 UNCHANGED <<acknowledged, host_enabled>>
<1>1. /\ commands # <<>> /\ commands' = Tail(commands)
      /\ UNCHANGED <<disable_epoch, usb, authorised>>
  BY DEF DrainOne
<1>2. /\ 1 \in 1 .. Len(commands) /\ Head(commands) = commands[1]
      /\ Len(commands') = Len(commands) - 1
      /\ \A i \in 1 .. Len(commands') : commands'[i] = commands[i + 1]
  BY <1>1 DEF TypeOK
<1> DEFINE c == commands[1]
<1>3. Apply(c)
  BY <1>2 DEF DrainOne
<1> HIDE DEF c
<1>4. /\ CarriesEpoch(c) => acknowledged' = c.disable_epoch /\ host_enabled'
      /\ ~CarriesEpoch(c) /\ ~Disabling(c) => UNCHANGED <<acknowledged, host_enabled>>
  BY <1>3 DEF Apply, ApplyEffect, ApplyClearFault, ApplyEnable, ApplyDisable,
       ApplyReplaceConfig, CarriesEpoch, Disabling, hostVars
<1> QED
  BY <1>1, <1>2, <1>4 DEF c

\* What pushing a command does to the queue.
LEMMA PushedEnable ==
    ASSUME TypeOK, PushCommand
    PROVE  /\ usb.at = "push"
           /\ UNCHANGED <<authorised, disable_epoch, acknowledged, host_enabled>>
           /\ \/ usb'.at = "overflowed" /\ commands' = commands
              \/ /\ usb'.at = "idle"
                 /\ Len(commands') = Len(commands) + 1
                 /\ \A i \in 1 .. Len(commands) : commands'[i] = commands[i]
                 /\ commands'[Len(commands')] = usb.command
<1>1. commands \in Seq(CommandSet) /\ usb.command \in CommandSet
  BY DEF TypeOK
<1>2. usb' \in {IdleUsb, [usb EXCEPT !.at = "overflowed"]} /\ usb.at = "push"
  BY DEF PushCommand
<1>3. CASE Len(commands) = QueueCapacity
  BY <1>3 DEF PushCommand, TypeOK, controlVars, hostVars
<1>4. CASE Len(commands) # QueueCapacity
  <2>1. commands' = Append(commands, usb.command) /\ usb' = IdleUsb
    BY <1>4 DEF PushCommand
  <2> QED
    BY <1>1, <1>2, <2>1 DEF PushCommand, IdleUsb, controlVars, hostVars
<1> QED
  BY <1>3, <1>4

\* An enable in force stays in force while its authorisation stands.
LEMMA InForceStays ==
    ASSUME TypeOK, [Next]_vars, ~PassiveWheelMode, authorised', HandlerHarmless, EnableInForce
    PROVE  EnableInForce'
<1> USE DEF EnableInForce, HarmlessFrom, Harmless
<1>a. Len(commands) \in Nat
  BY DEF TypeOK
<1>1. CASE UNCHANGED HostView
  BY <1>1 DEF HostView
<1>2. CASE DrainOne
  <2>1. Harmless(commands[1])
    BY <1>2, DrainedEnable
  <2>2. acknowledged' = disable_epoch /\ host_enabled' /\ disable_epoch' = disable_epoch
    BY <1>2, <2>1, DrainedEnable
  <2>3. \A i \in 1 .. Len(commands') : Harmless(commands[i + 1])
    BY <1>2, <1>a, DrainedEnable
  <2> QED
    BY <1>2, <2>2, <2>3, DrainedEnable DEF Disabling, CarriesEpoch
<1>3. CASE CheckEpoch
  BY <1>3 DEF CheckEpoch, sharedVars
<1>4. ASSUME NEW kind \in {"effect", "clear_fault"}, ReceiveSimple(kind)
      PROVE  EnableInForce'
  BY <1>4 DEF ReceiveSimple, sharedVars, controlVars, Disabling, CarriesEpoch
<1>5. CASE ReceiveEnable
  BY <1>5 DEF ReceiveEnable, sharedVars, controlVars, Disabling, CarriesEpoch
<1>6. CASE PushPending
  BY <1>6 DEF PushPending, controlVars, Disabling, CarriesEpoch
<1>7. CASE PushCommand
  <2>1. Harmless(usb.command)
    BY <1>7, PushedEnable DEF HandlerHarmless
  <2>2. \A i \in 1 .. Len(commands') : Harmless(commands'[i])
    BY <1>7, <1>a, <2>1, PushedEnable
  <2> QED
    BY <1>7, <2>2, PushedEnable DEF Disabling, CarriesEpoch
<1> QED
  BY <1>1, <1>2, <1>3, <1>4, <1>5, <1>6, <1>7, EnableSteps

\* A queued enable stays queued until it is in force.
LEMMA QueuedStays ==
    ASSUME TypeOK, [Next]_vars, ~PassiveWheelMode, authorised', HandlerHarmless, EnableQueued
    PROVE  EnableQueued' \/ EnableInForce'
<1> USE DEF HarmlessFrom, Harmless
<1>a. Len(commands) \in Nat
  BY DEF TypeOK
<1>b. PICK k \in 1 .. Len(commands) : CurrentEnable(commands[k]) /\ HarmlessFrom(k)
  BY DEF EnableQueued
<1>1. CASE UNCHANGED HostView
  BY <1>1, <1>b DEF EnableQueued, CurrentEnable, CarriesEpoch, Disabling, HostView
<1>2. CASE DrainOne
  <2>a. \A i \in 1 .. Len(commands') : commands'[i] = commands[i + 1]
    BY <1>2, DrainedEnable
  <2>b. Len(commands') = Len(commands) - 1 /\ disable_epoch' = disable_epoch
    BY <1>2, DrainedEnable
  <2>1. CASE k = 1
    <3>1. acknowledged' = disable_epoch /\ host_enabled'
      BY <1>2, <1>b, <2>1, DrainedEnable DEF CurrentEnable
    <3>2. \A i \in 1 .. Len(commands') : Harmless(commands[i + 1])
      BY <1>a, <1>b, <2>1, <2>b
    <3> QED
      BY <2>a, <2>b, <3>1, <3>2 DEF EnableInForce, Disabling, CarriesEpoch
  <2>2. CASE k # 1
    <3>1. k - 1 \in 1 .. Len(commands') /\ (k - 1) + 1 = k
      BY <1>a, <1>b, <2>2, <2>b
    <3>2. \A i \in k - 1 .. Len(commands') : Harmless(commands[i + 1])
      BY <1>a, <1>b, <2>2, <2>b
    <3>3. \A i \in k - 1 .. Len(commands') : i \in 1 .. Len(commands')
      BY <1>a, <3>1, <2>b
    <3> QED
      BY <1>b, <2>a, <2>b, <3>1, <3>2, <3>3
      DEF EnableQueued, CurrentEnable, Disabling, CarriesEpoch
  <2> QED
    BY <2>1, <2>2
<1>3. CASE CheckEpoch
  BY <1>3, <1>b DEF CheckEpoch, sharedVars, EnableQueued, CurrentEnable, Disabling, CarriesEpoch
<1>4. ASSUME NEW kind \in {"effect", "clear_fault"}, ReceiveSimple(kind)
      PROVE  EnableQueued'
  BY <1>4, <1>b DEF ReceiveSimple, sharedVars, EnableQueued, CurrentEnable, Disabling,
                    CarriesEpoch
<1>5. CASE ReceiveEnable
  BY <1>5, <1>b DEF ReceiveEnable, sharedVars, EnableQueued, CurrentEnable, Disabling,
                    CarriesEpoch
<1>6. CASE PushPending
  BY <1>6, <1>b DEF PushPending, EnableQueued, CurrentEnable, Disabling, CarriesEpoch
<1>7. CASE PushCommand
  <2>1. Harmless(usb.command) /\ disable_epoch' = disable_epoch
    BY <1>7, PushedEnable DEF HandlerHarmless
  <2>2. k \in 1 .. Len(commands') /\ commands'[k] = commands[k]
    BY <1>7, <1>a, <1>b, PushedEnable
  <2>3. \A i \in k .. Len(commands') : Harmless(commands'[i])
    BY <1>7, <1>a, <1>b, <2>1, PushedEnable
  <2> QED
    BY <1>b, <2>1, <2>2, <2>3 DEF EnableQueued, CurrentEnable, Disabling, CarriesEpoch
<1> QED
  BY <1>1, <1>2, <1>3, <1>4, <1>5, <1>6, <1>7, EnableSteps

\* A handler that has an enable pushes it, unless the queue is full.
LEMMA SentStays ==
    ASSUME TypeOK, [Next]_vars, ~PassiveWheelMode, authorised', HandlerHarmless, EnableSent
    PROVE  EnableSent' \/ usb'.at = "overflowed" \/ EnableQueued'
<1>1. CASE UNCHANGED HostView
  BY <1>1 DEF HostView, EnableSent, CarriesEpoch
<1>2. CASE DrainOne
  BY <1>2, DrainedEnable DEF EnableSent, CarriesEpoch
<1>3. CASE CheckEpoch
  BY <1>3 DEF CheckEpoch, EnableSent, CarriesEpoch
<1>4. CASE PushCommand
  <2>1. Harmless(usb.command) /\ CarriesEpoch(usb.command) /\ disable_epoch' = disable_epoch
    BY <1>4, PushedEnable DEF HandlerHarmless, EnableSent
  <2>2. CASE usb'.at # "overflowed"
    <3>1. /\ Len(commands') \in 1 .. Len(commands') /\ Len(commands') \in Int
          /\ commands'[Len(commands')] = usb.command
      <4>1. Len(commands) \in Nat
        BY DEF TypeOK
      <4> QED
        BY <4>1, <1>4, <2>2, PushedEnable
    <3> QED
      BY <2>1, <3>1 DEF EnableQueued, HarmlessFrom, Harmless, CurrentEnable, CarriesEpoch,
                        Disabling
  <2> QED
    BY <2>2
<1>5. ~ReceiveEnable /\ ~PushPending /\ \A kind : ~ReceiveSimple(kind)
  BY DEF EnableSent, ReceiveEnable, PushPending, ReceiveSimple
<1> QED
  BY <1>1, <1>2, <1>3, <1>4, <1>5, EnableSteps

\* What a handler holds while the authorisation stands takes nothing back.
LEMMA HandlerStays ==
    ASSUME TypeOK, [Next]_vars, ~PassiveWheelMode, authorised', authorised => HandlerHarmless
    PROVE  HandlerHarmless'
<1> USE DEF HandlerHarmless, Harmless, Disabling, CarriesEpoch
<1>1. CASE UNCHANGED HostView
  BY <1>1 DEF HostView
<1>2. CASE DrainOne
  BY <1>2, DrainedEnable
<1>3. CASE CheckEpoch
  BY <1>3 DEF CheckEpoch, sharedVars
<1>4. ASSUME NEW kind \in {"effect", "clear_fault"}, ReceiveSimple(kind)
      PROVE  HandlerHarmless'
  BY <1>4 DEF ReceiveSimple, Command
<1>5. CASE ReceiveEnable
  BY <1>5 DEF ReceiveEnable, EnableCommand, Command, sharedVars
<1>6. CASE PushPending
  BY <1>6 DEF PushPending, IdleUsb, TypeOK
<1>7. CASE PushCommand
  BY <1>7, PushedEnable
<1> QED
  BY <1>1, <1>2, <1>3, <1>4, <1>5, <1>6, <1>7, EnableSteps

\* A failed push is followed by a revocation.
LEMMA OverflowedStays ==
    ASSUME TypeOK, [Next]_vars, ~PassiveWheelMode, authorised', usb.at = "overflowed"
    PROVE  usb'.at = "overflowed"
<1>1. /\ ~ReceiveEnable /\ ~PushPending /\ ~PushCommand
      /\ \A kind : ~ReceiveSimple(kind)
  BY DEF ReceiveEnable, PushPending, ReceiveSimple, PushCommand
<1> QED
  BY <1>1, EnableSteps, DrainedEnable DEF HostView, CheckEpoch

\* The three places an enable can be follow one another.
LEMMA StepEnable ==
    ASSUME ~PassiveWheelMode
    PROVE  TypeOK /\ EnableInvariant /\ [Next]_vars => EnableInvariant'
<1> SUFFICES ASSUME TypeOK, EnableInvariant, [Next]_vars, authorised' PROVE EnableInvariant'
  BY DEF EnableInvariant
<1>1. CASE authorised
  <2>1. HandlerHarmless'
    BY <1>1, HandlerStays DEF EnableInvariant
  <2> QED
    BY <1>1, <2>1, InForceStays, QueuedStays, SentStays, OverflowedStays DEF EnableInvariant
<1>2. CASE ~authorised
  <2>1. HandlerHarmless'
    BY <1>2, HandlerStays
  <2>2. ReceiveEnable
    BY <1>2, EnableSteps, DrainedEnable, PushedEnable
    DEF HostView, CheckEpoch, ReceiveSimple, PushPending
  <2>3. EnableSent'
    BY <2>2 DEF ReceiveEnable, EnableSent, EnableCommand, Command, CarriesEpoch
  <2> QED
    BY <2>1, <2>3 DEF EnableInvariant
<1> QED
  BY <1>1, <1>2

\* A reading that succeeds resets the count of failures, and nothing returns
\* the supervisor to boot.
LEMMA StepReading == TypeOK /\ ReadingInvariant /\ [Next]_vars => ReadingInvariant'
<1> SUFFICES ASSUME TypeOK, ReadingInvariant, [Next]_vars PROVE ReadingInvariant'
  OBVIOUS
<1> USE DEF ReadingInvariant, sharedVars, hostVars, axisVars, controlVars
<1>1. ASSUME UNCHANGED controlVars PROVE ReadingInvariant'
  BY <1>1
<1>2. \A s \in Supervisors : s.state # "boot" =>
         /\ HostDisable(s).state # "boot"
         /\ \A condition, code : LatchFaultIf(condition, s, code).state # "boot"
         /\ \A in : ClearFault(s, in).state # "boot" /\ SafetyUpdate(s, in).state # "boot"
  BY DEF Supervisors, HostDisable, LatchFaultIf, LatchFault, ClearFault, SafetyUpdate
<1>3. safety \in Supervisors
  BY DEF TypeOK
<1>4. CASE Wake \/ DrainDone \/ DecideDrive
  BY <1>4 DEF Wake, DrainDone, DecideDrive
<1>5. CASE TakeFaults
  <2>1. asynchronous_fault \in FaultCodes \cup {NoFault}
    BY DEF TypeOK
  <2>2. LatchFaultIf(command_overflow, safety, "usb_command_overflow").state # "boot"
    BY <1>2, <1>3
  <2>3. safety'.state # "boot"
    BY <1>5, <2>2 DEF TakeFaults, LatchFaultIf, LatchFault
  <2> QED
    BY <1>5, <2>3 DEF TakeFaults
<1>6. CASE DrainOne
  BY <1>2, <1>3, <1>6 DEF DrainOne, Apply, ApplyEffect, ApplyClearFault, ApplyEnable,
       ApplyDisable, ApplyReplaceConfig
<1>7. CASE CheckEpoch
  BY <1>2, <1>3, <1>7 DEF CheckEpoch
<1>8. ASSUME NEW s \in Samples, NEW held \in PaddleHolds, ReadInputs(s, held)
      PROVE  ReadingInvariant'
  BY <1>8 DEF ReadInputs, SampleSafety, LatchFaultIf, LatchFault
<1>9. CASE Arbitrate
  BY <1>9 DEF Arbitrate, ClearFault, SafetyUpdate, TypeOK, Supervisors
<1>10. ASSUME NEW force, NEW overrun, Output(force, overrun)
       PROVE  ReadingInvariant'
  BY <1>2, <1>3, <1>10 DEF Output
<1>11. CASE Report \/ UsbStep \/ UsbEvent \/ EventStep \/ Save \/ LoopStep \/ UNCHANGED vars
  <2>1. UNCHANGED controlVars
    BY <1>11 DEF Report, ReceiveSimple, ReceiveEnable, ReceiveDisable, ReceiveConfig, UsbStep,
         PushPending, PushCommand, RevokeAfterOverflow, UsbEvent, EventStep, ClearSuspended,
         RevokeAfterEvent, Save, SaveOne, LoopStep, RequestFault, RevokeAfterFault, vars
  <2> QED
    BY <2>1, <1>1
<1> QED
  BY <1>4, <1>5, <1>6, <1>7, <1>8, <1>9, <1>10, <1>11 DEF Next, ControlStep

\* A wheel boots unauthorised, and leaves boot before its tasks start.
LEMMA InitReading == Init => EnableInvariant /\ ReadingInvariant
BY BootSafetyType DEF Init, EnableInvariant, ReadingInvariant, NoSample

LiveIInv == TypeOK /\ EnableInvariant /\ ReadingInvariant

\* The invariant of the liveness proofs holds in every reachable state.
LEMMA LiveInductive ==
    ASSUME ~PassiveWheelMode
    PROVE  Spec => []LiveIInv
<1>1. Init => LiveIInv
  BY InitType, InitReading DEF LiveIInv
<1>2. LiveIInv /\ [Next]_vars => LiveIInv'
  BY StepType, StepEnable, StepReading DEF LiveIInv
<1> QED
  BY <1>1, <1>2, PTL DEF Spec

Armed == safety.state = "armed"

\* A healthy wheel whose enable is in force arms where the supervisor is
\* updated.
LEMMA Arms ==
    ASSUME TypeOK, ReadingInvariant, HealthyToArmForGood, EnableInForce, Arbitrate
    PROVE  Armed'
<1>1. /\ sample.io_ok /\ io_failures = 0 /\ ReferenceValid(sample)
      /\ usb_mounted /\ ~usb_suspended /\ host_enabled /\ ConfigurationReady
      /\ encoder # "fast"
  BY DEF HealthyToArmForGood, ReadingInvariant, EnableInForce, ReferenceValid
<1>2. safety.state \in {"disarmed", "armed"} /\ safety \in Supervisors
  BY DEF TypeOK, Supervisors, SafetyStates, ReadingInvariant, HealthyToArmForGood
<1>3. HealthyToArm(SafetyInputs)
  BY <1>1 DEF HealthyToArm, HealthyToStayArmed, SafetyInputs
<1>4. SafetyUpdate(safety, SafetyInputs).state = "armed"
  BY <1>2, <1>3 DEF SafetyUpdate, HealthyToArm, Supervisors
<1>5. ClearFault(safety, SafetyInputs) = safety
  BY <1>2 DEF ClearFault
<1> QED
  BY <1>4, <1>5 DEF Arbitrate, Armed

\* It stays armed.
LEMMA ArmedStays ==
    ASSUME TypeOK, ReadingInvariant, HealthyToArmForGood, HealthyToArmForGood',
           EnableInForce, Armed, [Next]_vars, ~PassiveWheelMode
    PROVE  Armed'
<1> USE DEF sharedVars, hostVars, axisVars, controlVars
<1>1. safety.state = "armed" /\ safety'.state # "fault"
  BY DEF Armed, HealthyToArmForGood
<1>2. CASE UNCHANGED safety
  BY <1>2 DEF Armed
<1>3. CASE TakeFaults
  BY <1>1, <1>3 DEF TakeFaults, LatchFaultIf, LatchFault, Armed
<1>4. CASE DrainOne
  <2>a. 1 \in 1 .. Len(commands)
    BY <1>4, DrainedEnable
  <2>1. Harmless(commands[1]) /\ Head(commands) = commands[1]
    BY <2>a DEF EnableInForce, HarmlessFrom, TypeOK
  <2>2. UNCHANGED safety
    BY <1>4, <2>1 DEF DrainOne, Apply, ApplyEffect, ApplyClearFault, ApplyEnable, ApplyDisable,
                      ApplyReplaceConfig, Harmless, Disabling
  <2> QED
    BY <2>2, <1>2
<1>5. CASE CheckEpoch
  BY <1>2, <1>5 DEF CheckEpoch, EnableInForce
<1>6. ASSUME NEW s \in Samples, NEW held \in PaddleHolds, ReadInputs(s, held)
      PROVE  Armed'
  BY <1>1, <1>6 DEF ReadInputs, SampleSafety, LatchFaultIf, LatchFault, Armed
<1>7. CASE Arbitrate
  BY <1>7, Arms
<1>8. ASSUME NEW force, NEW overrun, Output(force, overrun)
      PROVE  Armed'
  BY <1>1, <1>8 DEF Output, LatchFaultIf, LatchFault, Armed
<1>9. CASE Wake \/ DrainDone \/ DecideDrive
  BY <1>2, <1>9 DEF Wake, DrainDone, DecideDrive
<1>10. CASE Report \/ UsbStep \/ UsbEvent \/ EventStep \/ Save \/ LoopStep \/ UNCHANGED vars
  <2>1. UNCHANGED safety
    BY <1>10 DEF Report, ReceiveSimple, ReceiveEnable, ReceiveDisable, ReceiveConfig, UsbStep,
         PushPending, PushCommand, RevokeAfterOverflow, UsbEvent, EventStep, ClearSuspended,
         RevokeAfterEvent, Save, SaveOne, LoopStep, RequestFault, RevokeAfterFault, vars
  <2> QED
    BY <2>1, <1>2
<1> QED
  BY <1>3, <1>4, <1>5, <1>6, <1>7, <1>8, <1>9, <1>10 DEF Next, ControlStep

\* What a handler that has something in its hands does next.
LEMMA UsbMoves ==
    ASSUME TypeOK, UsbStep
    PROVE  /\ usb.at = "overflowed" => ~authorised'
           /\ usb.at = "push" => usb'.at # "push"
<1>1. CASE PushPending
  BY <1>1 DEF PushPending
<1>2. CASE PushCommand
  BY <1>2, PushedEnable
<1>3. CASE RevokeAfterOverflow
  BY <1>3 DEF RevokeAfterOverflow, RequestDisable
<1> QED
  BY <1>1, <1>2, <1>3 DEF UsbStep

\* The drain empties the queue again and again, as long as it ends.
LEMMA QueueEmpties ==
    LiveSpec /\ []TasksCanRun /\ DrainKeepsUp => []<>(commands = <<>>)
<1>1. tick = "drain" /\ [Next]_vars => (tick = "drain")' \/ commands = <<>>
  <2> SUFFICES ASSUME tick = "drain", [Next]_vars, tick' # "drain" PROVE commands = <<>>
    OBVIOUS
  <2>1. DrainOne \/ DrainDone
    BY TickSteps, ControlTurns
  <2> QED
    BY <2>1 DEF DrainOne, DrainDone
<1>2. tick # "drain" <=> ~(tick = "drain")
  OBVIOUS
<1> QED
  BY <1>1, <1>2, TickComesRound, PTL DEF DrainKeepsUp, LiveSpec, Spec

\* An enable whose authorisation stands for good comes into force for good.
LEMMA InForceForGood ==
    ASSUME ~PassiveWheelMode
    PROVE  LiveSpec /\ []TasksCanRun /\ DrainKeepsUp
              => (<>[]HealthyToArmForGood => <>[]EnableInForce)
<1> DEFINE H == HealthyToArmForGood
           Overflowed == usb.at = "overflowed"
           Empty == commands = <<>>
<1>1. LiveIInv /\ H => Overflowed \/ EnableSent \/ EnableQueued \/ EnableInForce
  BY DEF LiveIInv, EnableInvariant, HealthyToArmForGood
<1>2. LiveIInv /\ H /\ H' /\ Overflowed /\ [Next]_vars => Overflowed'
  BY OverflowedStays DEF LiveIInv, HealthyToArmForGood
<1>3. LiveIInv /\ H /\ H' /\ EnableSent /\ [Next]_vars
        => EnableSent' \/ Overflowed' \/ EnableQueued'
  BY SentStays DEF LiveIInv, HealthyToArmForGood, EnableInvariant
<1>4. LiveIInv /\ H /\ H' /\ EnableQueued /\ [Next]_vars => EnableQueued' \/ EnableInForce'
  BY QueuedStays DEF LiveIInv, HealthyToArmForGood, EnableInvariant
<1>5. LiveIInv /\ H /\ H' /\ EnableInForce /\ [Next]_vars => EnableInForce'
  BY InForceStays DEF LiveIInv, HealthyToArmForGood, EnableInvariant
<1>6. LiveIInv /\ Overflowed /\ <<UsbStep>>_vars => ~H'
  BY UsbMoves DEF LiveIInv, HealthyToArmForGood
<1>7. LiveIInv /\ EnableSent /\ <<UsbStep>>_vars => ~EnableSent'
  BY UsbMoves DEF EnableSent, LiveIInv
<1>8. Overflowed \/ EnableSent => usb.at # "idle"
  BY DEF EnableSent
<1>9. Empty => ~EnableQueued
  BY DEF EnableQueued
<1>10. Spec => []LiveIInv
  BY LiveInductive
<1>11. LiveSpec /\ []TasksCanRun /\ DrainKeepsUp => []<>Empty
  BY QueueEmpties
<1> HIDE DEF H, Overflowed, Empty
<1>12. LiveSpec /\ []TasksCanRun => (<>[]H => <>[](H /\ ~Overflowed))
  BY <1>2, <1>6, <1>8, <1>10, PTL DEF LiveSpec, Fairness, Spec, TasksCanRun
<1>13. LiveSpec /\ []TasksCanRun
         => (<>[]H => <>[](H /\ (EnableQueued \/ EnableInForce)))
  BY <1>1, <1>3, <1>4, <1>5, <1>7, <1>8, <1>10, <1>12, PTL
  DEF LiveSpec, Fairness, Spec, TasksCanRun
<1>14. LiveSpec /\ []TasksCanRun /\ DrainKeepsUp => (<>[]H => <>[]EnableInForce)
  BY <1>5, <1>9, <1>10, <1>11, <1>13, PTL DEF LiveSpec, Spec
<1> QED
  BY <1>14 DEF H

\* An enable whose authorisation stands for good ends in an armed wheel that
\* stays armed, if the wheel stays healthy: the command gets through the queue
\* in front of nothing that takes it back, the epoch it carries is the one the
\* control task acknowledges, and the supervisor arms at the next update.
THEOREM EnabledArms ==
    ASSUME ~PassiveWheelMode
    PROVE  LiveSpec /\ []TasksCanRun => EnabledWheelArms
<1> DEFINE H == HealthyToArmForGood
           Update == tick = "arbitrate"
<1>1. LiveIInv /\ H /\ EnableInForce /\ Update /\ <<ControlStep>>_vars => Armed'
  BY Arms, ControlTurns DEF LiveIInv
<1>2. Update /\ [Next]_vars => Update' \/ <<ControlStep>>_vars
  <2> SUFFICES ASSUME Update, [Next]_vars, ~Update' PROVE <<ControlStep>>_vars
    OBVIOUS
  <2>1. ControlStep /\ tick' # tick
    BY TickSteps
  <2> QED
    BY <2>1 DEF vars, controlVars
<1>3. LiveIInv /\ H /\ H' /\ EnableInForce /\ Armed /\ [Next]_vars => Armed'
  BY ArmedStays DEF LiveIInv
<1>4. Spec => []LiveIInv
  BY LiveInductive
<1>5. LiveSpec /\ []TasksCanRun /\ DrainKeepsUp => (<>[]H => <>[]EnableInForce)
  BY InForceForGood
<1>6. LiveSpec /\ []TasksCanRun /\ DrainKeepsUp => []<>Update /\ []<>(tick = "wake")
  BY TickComesRound, PTL
<1>7. Update => ~(tick = "wake")
  OBVIOUS
<1> HIDE DEF H, Update
<1>8. LiveSpec /\ []TasksCanRun /\ DrainKeepsUp => (<>[]H => <>[]Armed)
  BY <1>1, <1>2, <1>3, <1>4, <1>5, <1>6, <1>7, PTL DEF LiveSpec, Spec
<1> QED
  BY <1>8, PTL DEF H, Armed, EnabledWheelArms

=============================================================================
