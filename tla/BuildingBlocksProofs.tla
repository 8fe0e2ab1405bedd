------------------------ MODULE BuildingBlocksProofs ------------------------
(***************************************************************************)
(* The four components that stand on their own: the motor's output, the    *)
(* lock-free queue, the sequence lock and the reports to the host. Each    *)
(* has an inductive invariant of its own, a theorem per property and, where*)
(* it promises an abstract object, a refinement.                           *)
(***************************************************************************)
EXTENDS MotorOutput, SpscQueue, Seqlock, InputReports, ArithmeticProofs,
        SequenceTheorems

-----------------------------------------------------------------------------
(***************************************************************************)
(* The motor's output keeps its types and the agreement between            *)
(* MotorControlMath and the pins, and implements HBridge, for every        *)
(* resolution of the duty, set of configurations and sequence of forces.   *)
(***************************************************************************)

MotorIInv == MotorTypeOK /\ BridgeInvariant

\* Whatever is asked for, it is within the range set_force accepts.
LEMMA AskedInRange ==
    ASSUME MotorTypeOK
    PROVE  force \in SignedFractions /\ config \in DriveLimits
BY MotorOutputAssumption, FullScaleAssumption DEF MotorTypeOK, SignedFractions

\* A bridge starts at rest with its pins low.
LEMMA MotorInitIInv == MotorInit => MotorIInv
<1> SUFFICES ASSUME MotorInit PROVE MotorIInv
  OBVIOUS
<1>1. PICK succeeds \in BOOLEAN : motor = MotorInitialize(succeeds)
  BY DEF MotorInit
<1>2. motor \in Motors
  BY <1>1, FullScaleAssumption DEF MotorInitialize, Motors, Directions, Phases, Fractions
<1>3. /\ motor.pins = 0 /\ motor.direction = 0 /\ motor.phase = "driving"
      /\ motor.pwm = 0 /\ motor.applied_duty = 0
  BY <1>1 DEF MotorInitialize
<1>4. allowed \in BOOLEAN
  BY Zenon DEF MotorInit
<1>5. MotorTypeOK
  BY <1>2, <1>4 DEF MotorInit, MotorTypeOK
<1> QED
  BY <1>3, <1>5 DEF MotorIInv, BridgeInvariant

\* One call of set_force on an initialised bridge is one of the five things
\* MotorControlMath::update can do.
LEMMA DriveStepCases ==
    ASSUME NEW m \in Motors, NEW f, NEW c
    PROVE  \/ m.phase = "disabled_period_one" /\ DriveStep(m, f, c) = EndPeriodOne(m)
           \/ m.phase = "disabled_period_two" /\ DriveStep(m, f, c) = EndPeriodTwo(m)
           \/ /\ m.phase = "driving" /\ MustReverse(m, f, c)
              /\ DriveStep(m, f, c) = BeginReversal(m, f, c)
           \/ /\ m.phase = "driving"
              /\ DriveStep(m, f, c) = [m EXCEPT !.applied_duty = 0, !.pwm = 0]
           \/ /\ m.phase = "driving" /\ ~MustReverse(m, f, c)
              /\ RequestedDirection(f, c) # 0 /\ TargetDuty(f, c) # 0
              /\ DriveStep(m, f, c) =
                   Drive(m, IF m.direction = 0 THEN RequestedDirection(f, c) ELSE m.direction,
                         SlewedDuty(m, f, c))
BY DEF DriveStep, Motors, Phases

\* Every call keeps the bridge's types, its invariant, and is a step the
\* abstract bridge allows.
LEMMA CallStep ==
    ASSUME MotorIInv, Call
    PROVE  MotorIInv' /\ [Bridge!Next]_<<motor.pins, motor.pwm > 0, rest>>
<1> USE DEF Directions, Fractions
<1>1. /\ motor \in Motors /\ rest \in 0 .. 2
      /\ force \in SignedFractions /\ config \in DriveLimits
      /\ FullScale \in Nat
  BY AskedInRange, FullScaleAssumption DEF MotorIInv, MotorTypeOK
<1>2. motor' \in Motors
  BY <1>1, SetForceType, MotorDisableType DEF Call
<1>3. /\ motor.direction \in Directions /\ motor'.direction \in Directions
      /\ motor.pins \in Directions /\ motor'.pins \in Directions
      /\ motor.pwm \in 0 .. FullScale /\ motor'.pwm \in 0 .. FullScale
  BY <1>1, <1>2 DEF Motors
<1>4. rest' = IF motor'.pwm > 0 THEN 0 ELSE IF rest < 2 THEN rest + 1 ELSE rest
  BY DEF Call, RestAfter
<1>5. MotorTypeOK'
  <2>1. rest' \in 0 .. 2
    BY <1>1, <1>4
  <2>2. UNCHANGED <<allowed, force, config>>
    BY DEF Call
  <2> QED
    BY <1>2, <2>1, <2>2 DEF MotorIInv, MotorTypeOK
<1>6. CASE ~allowed
  <2>1. /\ motor'.pins = 0 /\ motor'.direction = 0 /\ motor'.pwm = 0
        /\ motor'.phase = "driving" /\ motor'.applied_duty = 0
    BY <1>6 DEF Call, MotorDisable
  <2>2. BridgeInvariant'
    BY <2>1 DEF BridgeInvariant
  <2>3. Bridge!Release
    BY <1>1, <1>3, <1>4, <2>1 DEF Bridge!Release, Bridge!RestedOnce
  <2> QED
    BY <1>5, <2>2, <2>3 DEF MotorIInv, Bridge!Next
<1>7. CASE allowed /\ ~motor.initialized
  <2>1. motor' = motor
    BY <1>7 DEF Call, SetForce
  <2>2. motor.pwm = 0
    BY <1>3, <1>7 DEF MotorIInv, BridgeInvariant
  <2>3. rest' >= rest
    BY <1>1, <1>4, <2>1, <2>2
  <2>4. BridgeInvariant'
    BY <1>1, <1>5, <2>1, <2>2, <2>3 DEF MotorIInv, BridgeInvariant, MotorTypeOK
  <2>5. Bridge!Idle
    BY <1>4, <2>1, <2>2 DEF Bridge!Idle, Bridge!RestedOnce
  <2> QED
    BY <1>5, <2>4, <2>5 DEF MotorIInv, Bridge!Next
<1>8. CASE allowed /\ motor.initialized
  <2>1. motor' = DriveStep(motor, force, config)
    BY <1>8 DEF Call, SetForce
  <2>2. CASE motor.phase = "disabled_period_one" /\ motor' = EndPeriodOne(motor)
    <3>1. /\ motor'.pins = motor.pins /\ motor'.pwm = 0
          /\ motor'.phase = "disabled_period_two"
          /\ motor'.direction = motor.direction
          /\ motor'.pending_direction = motor.pending_direction
          /\ motor'.applied_duty = motor.applied_duty
      BY <1>1, <2>2 DEF EndPeriodOne, Motors
    <3>2. motor.pwm = 0 /\ motor.applied_duty = 0 /\ rest >= 1 /\ rest' = 2
      BY <1>1, <1>4, <2>2, <3>1 DEF MotorIInv, BridgeInvariant
    <3>3. BridgeInvariant'
      BY <2>2, <3>1, <3>2 DEF MotorIInv, BridgeInvariant
    <3>4. Bridge!Idle
      BY <1>1, <1>4, <3>1 DEF Bridge!Idle, Bridge!RestedOnce
    <3> QED
      BY <1>5, <3>3, <3>4 DEF MotorIInv, Bridge!Next
  <2>3. CASE motor.phase = "disabled_period_two" /\ motor' = EndPeriodTwo(motor)
    <3>1. /\ motor'.pins = motor.pending_direction /\ motor'.pwm = 0
          /\ motor'.phase = "driving"
          /\ motor'.direction = motor.pending_direction
          /\ motor'.applied_duty = motor.applied_duty
      BY <1>1, <2>3 DEF EndPeriodTwo, Motors
    <3>2. /\ motor.pwm = 0 /\ motor.applied_duty = 0 /\ rest >= 2 /\ motor.direction # 0
          /\ motor.pending_direction = -motor.direction
      BY <2>3 DEF MotorIInv, BridgeInvariant
    <3>3. BridgeInvariant'
      BY <3>1, <3>2 DEF BridgeInvariant
    <3>4. motor'.pins \in {-1, 1}
      BY <1>3, <3>1, <3>2
    <3>5. Bridge!Turn
      BY <1>1, <1>4, <3>1, <3>2, <3>4 DEF Bridge!Turn, Bridge!RestedOnce, Bridge!Sides
    <3> QED
      BY <1>5, <3>3, <3>5 DEF MotorIInv, Bridge!Next
  <2>4. CASE /\ motor.phase = "driving" /\ MustReverse(motor, force, config)
             /\ motor' = BeginReversal(motor, force, config)
    <3>1. /\ motor'.pins = motor.pins /\ motor'.pwm = 0
          /\ motor'.phase = "disabled_period_one"
          /\ motor'.direction = motor.direction
          /\ motor'.pending_direction = RequestedDirection(force, config)
          /\ motor'.applied_duty = 0
      BY <1>1, <2>4 DEF BeginReversal, Motors
    <3>2. RequestedDirection(force, config) \in {-1, 0, 1}
      BY DEF RequestedDirection, SignOf
    <3>3. /\ motor.direction # 0
          /\ RequestedDirection(force, config) = -motor.direction
      BY <1>3, <2>4, <3>2 DEF MustReverse
    <3>4. rest' >= 1
      BY <1>1, <1>4, <3>1
    <3>5. BridgeInvariant'
      BY <3>1, <3>3, <3>4 DEF MotorIInv, BridgeInvariant
    <3>6. Bridge!Idle
      BY <1>1, <1>4, <3>1 DEF Bridge!Idle, Bridge!RestedOnce
    <3> QED
      BY <1>5, <3>5, <3>6 DEF MotorIInv, Bridge!Next
  <2>5. CASE /\ motor.phase = "driving"
             /\ motor' = [motor EXCEPT !.applied_duty = 0, !.pwm = 0]
    <3>1. /\ motor'.pins = motor.pins /\ motor'.pwm = 0
          /\ motor'.phase = "driving" /\ motor'.direction = motor.direction
          /\ motor'.applied_duty = 0
      BY <1>1, <2>5 DEF Motors
    <3>2. BridgeInvariant'
      BY <3>1 DEF MotorIInv, BridgeInvariant
    <3>3. Bridge!Idle
      BY <1>1, <1>4, <3>1 DEF Bridge!Idle, Bridge!RestedOnce
    <3> QED
      BY <1>5, <3>2, <3>3 DEF MotorIInv, Bridge!Next
  <2>6. CASE /\ motor.phase = "driving" /\ ~MustReverse(motor, force, config)
             /\ RequestedDirection(force, config) # 0 /\ TargetDuty(force, config) # 0
             /\ motor' = Drive(motor, IF motor.direction = 0
                                      THEN RequestedDirection(force, config)
                                      ELSE motor.direction,
                               SlewedDuty(motor, force, config))
    <3> DEFINE d == IF motor.direction = 0 THEN RequestedDirection(force, config)
                                           ELSE motor.direction
    <3>1. d \in {-1, 1}
      BY <1>3, <2>6 DEF RequestedDirection, SignOf
    <3>2. SlewedDuty(motor, force, config) > 0
      BY <1>1, <2>6, TargetDutyRange, SlewedDutyRange
    <3>3. /\ motor'.pins = d /\ motor'.direction = d /\ motor'.phase = "driving"
          /\ motor'.pwm > 0 /\ motor'.initialized = motor.initialized
          /\ motor'.applied_duty = motor'.pwm
      BY <1>1, <2>6, <3>2 DEF Drive, Motors
    <3>4. motor.pins = motor.direction
      BY DEF MotorIInv, BridgeInvariant
    <3> HIDE DEF d
    <3>5. BridgeInvariant'
      BY <1>4, <1>8, <3>1, <3>3 DEF BridgeInvariant
    <3>6. motor.pins # 0 => motor'.pins = motor.pins
      BY <3>3, <3>4 DEF d
    <3>7. Bridge!Power
      BY <1>4, <3>1, <3>3, <3>6 DEF Bridge!Power, Bridge!Sides
    <3> QED
      BY <1>5, <3>5, <3>7 DEF MotorIInv, Bridge!Next
  <2> QED
    BY <1>1, <2>1, <2>2, <2>3, <2>4, <2>5, <2>6, DriveStepCases
<1> QED
  BY <1>6, <1>7, <1>8 DEF MotorIInv, MotorTypeOK

\* A decision leaves the bridge alone.
LEMMA DecideStep ==
    ASSUME MotorIInv, Decide \/ UNCHANGED motorVars
    PROVE  MotorIInv' /\ UNCHANGED <<motor, rest>>
<1>1. UNCHANGED <<motor, rest>>
  BY DEF Decide, motorVars
<1>2. MotorTypeOK'
  BY <1>1 DEF MotorIInv, MotorTypeOK, Decide, motorVars
<1> QED
  BY <1>1, <1>2 DEF MotorIInv, BridgeInvariant

\* The inductive invariant holds in every reachable state.
LEMMA MotorInductive == MotorSpec => []MotorIInv
<1>1. MotorIInv /\ [MotorNext]_motorVars => MotorIInv'
  BY CallStep, DecideStep DEF MotorNext
<1> QED
  BY <1>1, MotorInitIInv, PTL DEF MotorSpec

\* MotorOutput keeps its types.
THEOREM MotorTypeCorrect == MotorSpec => []MotorTypeOK
<1>1. MotorIInv => MotorTypeOK
  BY DEF MotorIInv
<1> QED
  BY <1>1, MotorInductive, PTL

\* The pins always select direction_, and a reversal under way is unpowered,
\* rested, and headed for the other side.
THEOREM BridgeAgrees == MotorSpec => []BridgeInvariant
<1>1. MotorIInv => BridgeInvariant
  BY DEF MotorIInv
<1> QED
  BY <1>1, MotorInductive, PTL

\* MotorControlMath with MotorOutput::apply implements the abstract bridge:
\* no turn of the pins under power or without the dead time, for every
\* sequence of forces, limits and disables.
THEOREM MotorRefinement == MotorSpec => ImplementsHBridge
<1>1. MotorInit => Bridge!Init
  BY DEF MotorInit, Bridge!Init, MotorInitialize
<1>2. MotorIInv /\ [MotorNext]_motorVars => [Bridge!Next]_<<motor.pins, motor.pwm > 0, rest>>
  BY CallStep, DecideStep DEF MotorNext
<1> QED
  BY <1>1, <1>2, MotorInductive, PTL DEF MotorSpec, ImplementsHBridge, Bridge!Spec

\* A call that changes the bridge never exceeds the limits it is given by
\* more than an earlier, higher limit explains, less a slew step.
THEOREM DutyConverges == MotorSpec => DutyConvergesToLimit
<1> DEFINE Converges == \/ motor'.pwm <= TargetDuty(force, config)
                        \/ motor'.pwm <= motor.pwm - config.duty_slew_per_tick
<1>1. MotorIInv /\ [MotorNext]_motorVars => [motor' # motor => Converges]_motorVars
  <2> SUFFICES ASSUME MotorIInv, Call, motor' # motor PROVE Converges
    BY DEF MotorNext, Decide
  <2>1. /\ motor \in Motors /\ force \in SignedFractions /\ config \in DriveLimits
        /\ motor.pwm = motor.applied_duty
    BY AskedInRange DEF MotorIInv, MotorTypeOK, BridgeInvariant
  <2>2. /\ TargetDuty(force, config) \in 0 .. FullScale
        /\ motor.pwm \in 0 .. FullScale
        /\ config.duty_slew_per_tick \in 1 .. FullScale
        /\ FullScale \in Nat
    BY <2>1, TargetDutyRange, FullScaleAssumption DEF Motors, DriveLimits, Fractions
  <2>3. motor'.pwm \in {0, SlewedDuty(motor, force, config)}
    <3>1. MotorDisable(motor).pwm = 0
      BY DEF MotorDisable
    <3>2. CASE motor' = DriveStep(motor, force, config)
      <4>1. /\ EndPeriodOne(motor).pwm = 0 /\ EndPeriodTwo(motor).pwm = 0
            /\ BeginReversal(motor, force, config).pwm = 0
            /\ [motor EXCEPT !.applied_duty = 0, !.pwm = 0].pwm = 0
        BY <2>1 DEF EndPeriodOne, EndPeriodTwo, BeginReversal, Motors
      <4>2. \A d, duty : Drive(motor, d, duty).pwm = duty
        BY <2>1 DEF Drive, Motors
      <4>3. \/ motor' = EndPeriodOne(motor)
            \/ motor' = EndPeriodTwo(motor)
            \/ motor' = BeginReversal(motor, force, config)
            \/ motor' = [motor EXCEPT !.applied_duty = 0, !.pwm = 0]
            \/ \E d : motor' = Drive(motor, d, SlewedDuty(motor, force, config))
        BY <2>1, <3>2, DriveStepCases
      <4>4. CASE \E d : motor' = Drive(motor, d, SlewedDuty(motor, force, config))
        BY <4>2, <4>4
      <4>5. CASE motor' = [motor EXCEPT !.applied_duty = 0, !.pwm = 0]
        BY <4>1, <4>5
      <4> QED
        BY <4>1, <4>3, <4>4, <4>5
    <3> QED
      BY <3>1, <3>2 DEF Call, SetForce
  <2> QED
    BY <2>1, <2>2, <2>3 DEF SlewedDuty, ClampTo
<1> QED
  BY <1>1, MotorInductive, PTL DEF MotorSpec, DutyConvergesToLimit

\* How far a motor asked steadily for one force, under one configuration, is
\* from what was asked: the duty still missing, and above every such distance
\* the calls a reversal takes before the first duty in the new direction.
Gap(x, y) == IF x < y THEN y - x ELSE x - y

CallsToGo ==
    LET target == TargetDuty(force, config)
        side == RequestedDirection(force, config)
    IN  CASE target = 0 -> motor.pwm
          [] target > 0 /\ motor.phase = "driving" ->
               IF motor.direction = -side THEN FullScale + 3 ELSE Gap(motor.pwm, target)
          [] target > 0 /\ motor.phase = "disabled_period_one" ->
               FullScale + IF motor.pending_direction = side THEN 2 ELSE 5
          [] target > 0 /\ motor.phase = "disabled_period_two" ->
               FullScale + IF motor.pending_direction = side THEN 1 ELSE 4

ForceReached ==
    /\ motor.pwm = TargetDuty(force, config)
    /\ motor.pwm > 0 => motor.pins = RequestedDirection(force, config)

\* set_force brings the motor nearer to the force with every call, and keeps
\* it there.
CallsToGoFall ==
    [][Call /\ allowed /\ motor.initialized =>
         IF CallsToGo = 0 THEN CallsToGo' = 0 ELSE CallsToGo' < CallsToGo]_motorVars

\* A duty above zero is asked for on one side.
LEMMA TargetNeedsSide ==
    ASSUME NEW f \in SignedFractions, NEW c \in DriveLimits, TargetDuty(f, c) > 0
    PROVE  RequestedDirection(f, c) # 0
<1>1. LimitedForce(f, c) \in Int
  BY LimitedForceRange, FullScaleAssumption DEF SignedFractions
<1>2. c.maximum_duty \in Nat
  BY FullScaleAssumption DEF DriveLimits, Fractions
<1> QED
  BY <1>1, <1>2 DEF TargetDuty, RequestedDirection, SignOf, Magnitude, ClampTo

\* Only a motor that has reached the force has no way to go.
LEMMA CallsToGoRange ==
    ASSUME MotorIInv
    PROVE  /\ CallsToGo \in Nat
           /\ CallsToGo = 0 => ForceReached
<1>1. /\ motor \in Motors /\ force \in SignedFractions /\ config \in DriveLimits
      /\ motor.pins = motor.direction /\ FullScale \in Nat \ {0}
  BY AskedInRange, FullScaleAssumption DEF MotorIInv, MotorTypeOK, BridgeInvariant
<1>2. TargetDuty(force, config) \in 0 .. FullScale /\ motor.pwm \in 0 .. FullScale
  BY <1>1, TargetDutyRange DEF Motors, Fractions
<1>3. motor.direction \in {-1, 0, 1} /\ RequestedDirection(force, config) \in {-1, 0, 1}
  BY <1>1 DEF RequestedDirection, SignOf, Motors, Directions
<1>4. motor.phase \in Phases
  BY <1>1 DEF Motors
<1>5. motor.pwm > 0 => motor.direction # 0
  BY DEF MotorIInv, BridgeInvariant
<1>6. motor.phase # "driving" => motor.pwm = 0
  BY DEF MotorIInv, BridgeInvariant
<1>7. CASE TargetDuty(force, config) = 0
  BY <1>2, <1>7 DEF CallsToGo, ForceReached
<1>8. CASE TargetDuty(force, config) > 0
  <2>1. RequestedDirection(force, config) # 0
    BY <1>1, <1>8, TargetNeedsSide
  <2>2. CASE motor.phase = "driving"
    <3>1. CallsToGo = IF motor.direction = -RequestedDirection(force, config)
                        THEN FullScale + 3 ELSE Gap(motor.pwm, TargetDuty(force, config))
      BY <1>8, <2>2 DEF CallsToGo
    <3> QED
      BY <1>1, <1>2, <1>3, <1>5, <1>8, <2>1, <3>1 DEF Gap, ForceReached
  <2>3. CASE motor.phase # "driving"
    <3>1. CallsToGo \in FullScale + 1 .. FullScale + 5
      BY <1>1, <1>4, <1>8, <2>3 DEF CallsToGo, Phases
    <3> QED
      BY <1>1, <3>1
  <2> QED
    BY <2>2, <2>3
<1> QED
  BY <1>2, <1>7, <1>8

\* Every call of set_force that finds a way to go leaves less of it, and one
\* that finds none leaves none.
LEMMA CallsToGoStep ==
    ASSUME MotorIInv, Call, allowed, motor.initialized
    PROVE  IF CallsToGo = 0 THEN CallsToGo' = 0 ELSE CallsToGo' < CallsToGo
<1> DEFINE target == TargetDuty(force, config)
           side == RequestedDirection(force, config)
<1>1. /\ motor \in Motors /\ force \in SignedFractions /\ config \in DriveLimits
      /\ motor.pwm = motor.applied_duty /\ FullScale \in Nat \ {0}
      /\ config.duty_slew_per_tick \in 1 .. FullScale
      /\ motor.phase \in Phases
  BY AskedInRange, FullScaleAssumption
  DEF MotorIInv, MotorTypeOK, BridgeInvariant, DriveLimits, Fractions, Motors
<1>2. target \in 0 .. FullScale /\ motor.pwm \in 0 .. FullScale
  BY <1>1, TargetDutyRange DEF Motors, Fractions
<1>3. motor.direction \in {-1, 0, 1} /\ side \in {-1, 0, 1}
  BY <1>1 DEF RequestedDirection, SignOf, Motors, Directions
<1>4. motor' = DriveStep(motor, force, config) /\ UNCHANGED <<force, config>>
  BY DEF Call, SetForce
<1>5. motor.phase # "driving" => /\ motor.pwm = 0 /\ motor.direction # 0
                                 /\ motor.pending_direction = -motor.direction
  BY DEF MotorIInv, BridgeInvariant
<1>6. target' = target /\ side' = side
  BY <1>4
<1>7. target > 0 => side # 0
  BY <1>1, TargetNeedsSide
<1>8. /\ target = 0 => CallsToGo = motor.pwm /\ CallsToGo' = motor'.pwm
      /\ target > 0 /\ motor.phase = "driving" =>
           CallsToGo = IF motor.direction = -side THEN FullScale + 3 ELSE Gap(motor.pwm, target)
      /\ target > 0 /\ motor'.phase = "driving" =>
           CallsToGo' = IF motor'.direction = -side THEN FullScale + 3
                                                    ELSE Gap(motor'.pwm, target)
      /\ target > 0 /\ motor.phase = "disabled_period_one" =>
           CallsToGo = FullScale + IF motor.pending_direction = side THEN 2 ELSE 5
      /\ target > 0 /\ motor'.phase = "disabled_period_one" =>
           CallsToGo' = FullScale + IF motor'.pending_direction = side THEN 2 ELSE 5
      /\ target > 0 /\ motor.phase = "disabled_period_two" =>
           CallsToGo = FullScale + IF motor.pending_direction = side THEN 1 ELSE 4
      /\ target > 0 /\ motor'.phase = "disabled_period_two" =>
           CallsToGo' = FullScale + IF motor'.pending_direction = side THEN 1 ELSE 4
  BY <1>6 DEF CallsToGo
<1> HIDE DEF target, side
<1>10. CASE motor.phase = "disabled_period_one" /\ motor' = EndPeriodOne(motor)
  <2>1. /\ motor'.phase = "disabled_period_two" /\ motor'.pwm = 0
        /\ motor'.pending_direction = motor.pending_direction
    BY <1>1, <1>10 DEF EndPeriodOne, Motors
  <2> QED
    BY <1>1, <1>2, <1>5, <1>8, <1>10, <2>1
<1>11. CASE motor.phase = "disabled_period_two" /\ motor' = EndPeriodTwo(motor)
  <2>1. /\ motor'.phase = "driving" /\ motor'.pwm = 0
        /\ motor'.direction = motor.pending_direction
    BY <1>1, <1>11 DEF EndPeriodTwo, Motors
  <2> QED
    BY <1>1, <1>2, <1>3, <1>5, <1>7, <1>8, <1>11, <2>1 DEF Gap
<1>12. CASE /\ motor.phase = "driving" /\ MustReverse(motor, force, config)
            /\ motor' = BeginReversal(motor, force, config)
  <2>1. /\ motor'.phase = "disabled_period_one" /\ motor'.pwm = 0
        /\ motor'.pending_direction = side
    BY <1>1, <1>12 DEF BeginReversal, Motors, side
  <2>2. motor.direction = -side
    BY <1>3, <1>12 DEF MustReverse, side
  <2> QED
    BY <1>1, <1>2, <1>8, <1>12, <2>1, <2>2
<1>13. CASE /\ motor.phase = "driving" /\ ~MustReverse(motor, force, config)
            /\ side = 0 \/ target = 0
            /\ motor' = [motor EXCEPT !.applied_duty = 0, !.pwm = 0]
  <2>1. motor'.pwm = 0
    BY <1>1, <1>13 DEF Motors
  <2> QED
    BY <1>2, <1>7, <1>8, <1>13, <2>1
<1>14. CASE /\ motor.phase = "driving" /\ ~MustReverse(motor, force, config)
            /\ side # 0 /\ target # 0
            /\ motor' = Drive(motor, IF motor.direction = 0 THEN side ELSE motor.direction,
                              SlewedDuty(motor, force, config))
  <2>1. /\ motor'.phase = "driving" /\ motor'.pwm = SlewedDuty(motor, force, config)
        /\ motor'.direction = IF motor.direction = 0 THEN side ELSE motor.direction
    BY <1>1, <1>14 DEF Drive, Motors
  <2>2. motor'.direction = side /\ motor.direction # -side
    BY <1>3, <1>14, <2>1 DEF MustReverse, side
  <2>3. IF Gap(motor.pwm, target) = 0 THEN Gap(motor'.pwm, target) = 0
                                      ELSE Gap(motor'.pwm, target) < Gap(motor.pwm, target)
    BY <1>1, <1>2, <2>1 DEF SlewedDuty, ClampTo, Gap, target
  <2> QED
    BY <1>2, <1>3, <1>8, <1>14, <2>1, <2>2, <2>3
<1> QED
  BY <1>1, <1>4, <1>10, <1>11, <1>12, <1>13, <1>14 DEF DriveStep, Phases, target, side

\* A force asked for steadily comes closer with every call until it is reached,
\* for every resolution, configuration and force: with every call of set_force
\* a natural number falls that is 0 only when the force is reached, through
\* both periods without power and the slew steps after them.
THEOREM ForceComesCloser ==
    MotorSpec => [](CallsToGo \in Nat /\ (CallsToGo = 0 => ForceReached)) /\ CallsToGoFall
<1>1. MotorIInv => CallsToGo \in Nat /\ (CallsToGo = 0 => ForceReached)
  BY CallsToGoRange
<1>2. MotorIInv /\ [MotorNext]_motorVars =>
        [Call /\ allowed /\ motor.initialized =>
           IF CallsToGo = 0 THEN CallsToGo' = 0 ELSE CallsToGo' < CallsToGo]_motorVars
  BY CallsToGoStep
<1> QED
  BY <1>1, <1>2, MotorInductive, PTL DEF MotorSpec, CallsToGoFall

-----------------------------------------------------------------------------
(***************************************************************************)
(* The ring keeps the producer and the consumer apart and hands out whole  *)
(* entries in order, for every capacity and every set of values.           *)
(***************************************************************************)

QueueIInv == QueueTypeOK /\ RingInvariant /\ ReceivedWhole

\* Stepping an index keeps it an index, and no two indices step to one.
LEMMA IncrementIndex ==
    /\ \A i \in Indices : Increment(i) \in Indices /\ Increment(i) # i
    /\ \A i, j \in Indices : Increment(i) = Increment(j) => i = j
BY SpscAssumption DEF Indices, Increment

\* Overwriting one half of an entry leaves an entry.
LEMMA HalfWritten ==
    ASSUME NEW entry \in Halves \X Halves, NEW half \in Halves
    PROVE  /\ [entry EXCEPT ![1] = half] \in Halves \X Halves
           /\ [entry EXCEPT ![2] = half] \in Halves \X Halves
OBVIOUS

\* A new ring is empty.
LEMMA QueueInitIInv == QueueInit => QueueIInv
<1> SUFFICES ASSUME QueueInit PROVE QueueIInv
  OBVIOUS
<1>1. 0 \in Indices /\ answer \in BOOLEAN
  BY SpscAssumption DEF QueueInit, Indices
<1>2. QueueTypeOK
  BY <1>1 DEF QueueInit, QueueTypeOK, NoEntry, Halves, ProducerPoints, ConsumerPoints
<1>3. \A i \in Indices : ~Between(i)
  BY <1>1 DEF QueueInit, Between, Indices
<1> QED
  BY <1>2, <1>3 DEF QueueIInv, RingInvariant, ReceivedWhole, QueueInit, NoEntry, Writing, Reading

\* Publishing adds the entry at head to what is queued, and nothing else.
LEMMA BetweenPublish ==
    ASSUME QueueTypeOK, ~Full, head' = Increment(head), tail' = tail, NEW i \in Indices
    PROVE  Between(i)' => Between(i) \/ i = head
BY SpscAssumption DEF QueueTypeOK, Full, Increment, Between, Indices

\* Releasing takes the entry at tail off, and adds nothing.
LEMMA BetweenRelease ==
    ASSUME QueueTypeOK, head # tail, tail' = Increment(tail), head' = head, NEW i \in Indices
    PROVE  Between(i)' => Between(i)
BY SpscAssumption DEF QueueTypeOK, Increment, Between, Indices

\* The entry at tail is queued unless the ring is empty; the one at head never is.
LEMMA BetweenEnds ==
    ASSUME QueueTypeOK
    PROVE  (head # tail => Between(tail)) /\ ~Between(head)
BY SpscAssumption DEF QueueTypeOK, Between, Indices

\* One step per action of push and pop.
LEMMA QueueStepIInv == QueueIInv /\ [QueueNext]_queueVars => QueueIInv'
<1> SUFFICES ASSUME QueueIInv, [QueueNext]_queueVars PROVE QueueIInv'
  OBVIOUS
<1> USE DEF QueueIInv
<1>a. /\ head \in Indices /\ tail \in Indices
      /\ entries \in [Indices -> Halves \X Halves]
      /\ producer \in [at : ProducerPoints, index : Indices, value : Halves]
      /\ consumer \in [at : ConsumerPoints, index : Indices, copy : Halves \X Halves]
  BY DEF QueueTypeOK
<1>b. /\ Increment(head) \in Indices /\ Increment(tail) \in Indices
  BY <1>a, IncrementIndex
<1>1. ASSUME NEW v \in Values, PushCheck(v) PROVE QueueIInv'
  <2>1. CASE Full
    <3>1. answer' \in BOOLEAN
      BY <1>1, <2>1 DEF PushCheck
    <3> QED
      BY <1>1, <2>1, <3>1
      DEF PushCheck, QueueTypeOK, RingInvariant, ReceivedWhole, Between, Writing, Reading, Full
  <2>2. CASE ~Full
    <3>1. QueueTypeOK'
      BY <1>1, <2>2, <1>a DEF PushCheck, QueueTypeOK, Halves, ProducerPoints
    <3> QED
      BY <1>1, <2>2, <3>1
      DEF PushCheck, RingInvariant, ReceivedWhole, Between, Writing, Reading, Full
  <2> QED
    BY <2>1, <2>2
<1>2. CASE WriteFirstHalf
  <2>1. producer.index = head /\ producer.value \in Values /\ ~Full
    BY <1>2 DEF WriteFirstHalf, RingInvariant, Writing
  <2>2. /\ entries' = [entries EXCEPT ![head][1] = producer.value]
        /\ producer' = [producer EXCEPT !.at = "writing"]
        /\ UNCHANGED <<head, tail, consumer, answer, received>>
    BY <1>2, <2>1 DEF WriteFirstHalf
  <2>3. /\ entries'[head][1] = producer.value
        /\ \A i \in Indices : i # head => entries'[i] = entries[i]
    BY <1>a, <2>2
  <2>4. QueueTypeOK'
    BY <1>a, <2>2 DEF QueueTypeOK, ProducerPoints
  <2>5. consumer.at # "idle" => tail # head
    BY DEF RingInvariant, Reading
  <2> QED
    BY <1>a, <2>1, <2>2, <2>3, <2>4, <2>5, BetweenEnds
    DEF RingInvariant, ReceivedWhole, Between, Writing, Reading, Full
<1>3. CASE WriteSecondHalf
  <2>1. producer.index = head /\ producer.value \in Values /\ ~Full
    BY <1>3 DEF WriteSecondHalf, RingInvariant, Writing
  <2>2. /\ entries' = [entries EXCEPT ![head][2] = producer.value]
        /\ producer' = [producer EXCEPT !.at = "publish"]
        /\ UNCHANGED <<head, tail, consumer, answer, received>>
        /\ producer.at = "writing"
    BY <1>3, <2>1 DEF WriteSecondHalf
  <2>3. /\ entries'[head][2] = producer.value
        /\ entries'[head][1] = entries[head][1]
        /\ \A i \in Indices : i # head => entries'[i] = entries[i]
    BY <1>a, <2>2
  <2>4. QueueTypeOK'
    BY <1>a, <2>2 DEF QueueTypeOK, ProducerPoints
  <2>5. consumer.at # "idle" => tail # head
    BY DEF RingInvariant, Reading
  <2> QED
    BY <1>a, <2>1, <2>2, <2>3, <2>4, <2>5, BetweenEnds
    DEF RingInvariant, ReceivedWhole, Between, Writing, Reading, Full
<1>4. CASE Publish
  <2>1. producer.index = head /\ producer.value \in Values /\ ~Full
    BY <1>4 DEF Publish, RingInvariant, Writing
  <2>2. /\ head' = Increment(head)
        /\ producer' = [producer EXCEPT !.at = "idle"]
        /\ UNCHANGED <<entries, tail, consumer, received>>
        /\ producer.at = "publish"
    BY <1>4, <2>1 DEF Publish
  <2>3. entries[head][1] = producer.value /\ entries[head][2] = producer.value
    BY <2>2 DEF RingInvariant
  <2>4. answer' \in BOOLEAN
    BY <1>4 DEF Publish
  <2>5. QueueTypeOK'
    BY <1>a, <1>b, <2>2, <2>4 DEF QueueTypeOK, ProducerPoints
  <2>6. \A i \in Indices : Between(i)' => Between(i) \/ i = head
    BY <2>1, <2>2, BetweenPublish
  <2>7. head' # tail'
    BY <2>1, <2>2 DEF Full
  <2>8. producer'.at = "idle"
    BY <1>a, <2>2
  <2> QED
    BY <1>a, <2>1, <2>2, <2>3, <2>5, <2>6, <2>7, <2>8
    DEF RingInvariant, ReceivedWhole, Writing, Reading
<1>5. CASE PopCheck
  <2>1. CASE tail = head
    BY <1>5, <2>1
    DEF PopCheck, QueueTypeOK, RingInvariant, ReceivedWhole, Between, Writing, Reading, Full,
        NoEntry, Halves
  <2>2. CASE tail # head
    <3>1. QueueTypeOK'
      BY <1>5, <2>2, <1>a DEF PopCheck, QueueTypeOK, ConsumerPoints
    <3> QED
      BY <1>5, <1>a, <2>2, <3>1
      DEF PopCheck, RingInvariant, ReceivedWhole, Between, Writing, Reading, Full
  <2> QED
    BY <2>1, <2>2
<1>6. CASE ReadFirstHalf
  <2>1. consumer.index = tail /\ head # tail
    BY <1>6 DEF ReadFirstHalf, RingInvariant, Reading
  <2>2. /\ consumer' = [consumer EXCEPT !.at = "reading", !.copy[1] = entries[tail][1]]
        /\ UNCHANGED <<entries, head, tail, producer, answer, received>>
    BY <1>6, <2>1 DEF ReadFirstHalf
  <2>3. QueueTypeOK'
    <3>1. entries[tail][1] \in Halves /\ consumer.copy \in Halves \X Halves
      BY <1>a
    <3>2. [consumer.copy EXCEPT ![1] = entries[tail][1]] \in Halves \X Halves
      BY <3>1, HalfWritten
    <3>3. consumer' = [consumer EXCEPT !.at = "reading",
                         !.copy = [consumer.copy EXCEPT ![1] = entries[tail][1]]]
      BY <1>a, <2>2
    <3>4. consumer' \in [at : ConsumerPoints, index : Indices, copy : Halves \X Halves]
      BY <1>a, <3>2, <3>3 DEF ConsumerPoints
    <3> QED
      BY <2>2, <3>4 DEF QueueTypeOK
  <2>4. consumer'.at = "reading" /\ consumer'.index = tail
        /\ consumer'.copy[1] = entries[tail][1]
    BY <1>a, <2>1, <2>2
  <2> QED
    BY <2>1, <2>2, <2>3, <2>4
    DEF RingInvariant, ReceivedWhole, Between, Writing, Reading, Full
<1>7. CASE ReadSecondHalf
  <2>1. consumer.index = tail /\ head # tail /\ consumer.copy[1] = entries[tail][1]
    BY <1>7 DEF ReadSecondHalf, RingInvariant, Reading
  <2>2. /\ consumer' = [consumer EXCEPT !.at = "release", !.copy[2] = entries[tail][2]]
        /\ UNCHANGED <<entries, head, tail, producer, answer, received>>
    BY <1>7, <2>1 DEF ReadSecondHalf
  <2>3. QueueTypeOK'
    <3>1. entries[tail][2] \in Halves /\ consumer.copy \in Halves \X Halves
      BY <1>a
    <3>2. [consumer.copy EXCEPT ![2] = entries[tail][2]] \in Halves \X Halves
      BY <3>1, HalfWritten
    <3>3. consumer' = [consumer EXCEPT !.at = "release",
                         !.copy = [consumer.copy EXCEPT ![2] = entries[tail][2]]]
      BY <1>a, <2>2
    <3>4. consumer' \in [at : ConsumerPoints, index : Indices, copy : Halves \X Halves]
      BY <1>a, <3>2, <3>3 DEF ConsumerPoints
    <3> QED
      BY <2>2, <3>4 DEF QueueTypeOK
  <2>4. /\ consumer'.at = "release" /\ consumer'.index = tail
        /\ consumer'.copy[1] = entries[tail][1]
        /\ consumer'.copy[2] = entries[tail][2]
    BY <1>a, <2>1, <2>2
  <2> QED
    BY <2>1, <2>2, <2>3, <2>4
    DEF RingInvariant, ReceivedWhole, Between, Writing, Reading, Full
<1>8. CASE Release
  <2>1. /\ consumer.index = tail /\ head # tail
        /\ consumer.copy[1] = entries[tail][1] /\ consumer.copy[2] = entries[tail][2]
    BY <1>8 DEF Release, RingInvariant, Reading
  <2>2. /\ tail' = Increment(tail) /\ received' = consumer.copy
        /\ consumer' = [consumer EXCEPT !.at = "idle"]
        /\ UNCHANGED <<entries, head, producer, answer>>
    BY <1>8, <2>1 DEF Release
  <2>3. QueueTypeOK'
    BY <1>a, <1>b, <2>2 DEF QueueTypeOK, ConsumerPoints
  <2>4. ReceivedWhole'
    BY <2>1, <2>2, BetweenEnds, <1>a DEF RingInvariant, ReceivedWhole
  <2>5. \A i \in Indices : Between(i)' => Between(i)
    BY <2>1, <2>2, BetweenRelease
  <2>6. ~Full => ~Full'
    BY <1>a, <1>b, <2>1, <2>2, IncrementIndex DEF Full
  <2>7. consumer'.at = "idle"
    BY <1>a, <2>2
  <2> QED
    BY <2>2, <2>3, <2>4, <2>5, <2>6, <2>7
    DEF RingInvariant, Writing, Reading
<1>9. CASE UNCHANGED queueVars
  BY <1>9 DEF queueVars, QueueTypeOK, RingInvariant, ReceivedWhole, Between, Writing, Reading, Full
<1> QED
  BY <1>1, <1>2, <1>3, <1>4, <1>5, <1>6, <1>7, <1>8, <1>9 DEF QueueNext, PushStep, PopStep

\* The inductive invariant holds in every reachable state.
LEMMA QueueInductive == QueueSpec => []QueueIInv
BY QueueInitIInv, QueueStepIInv, PTL DEF QueueSpec

\* The indices, the entries and both tasks' locals keep to their ranges.
THEOREM QueueTypeCorrect == QueueSpec => []QueueTypeOK
<1>1. QueueIInv => QueueTypeOK
  BY DEF QueueIInv
<1> QED
  BY <1>1, QueueInductive, PTL

\* The producer and the consumer never hold the same entry, and every queued
\* entry is whole, whatever the interleaving of push and pop.
THEOREM RingSafe == QueueSpec => []RingInvariant
<1>1. QueueIInv => RingInvariant
  BY DEF QueueIInv
<1> QED
  BY <1>1, QueueInductive, PTL

\* pop hands out whole entries only.
THEOREM PopWhole == QueueSpec => []ReceivedWhole
<1>1. QueueIInv => ReceivedWhole
  BY DEF QueueIInv
<1> QED
  BY <1>1, QueueInductive, PTL

-----------------------------------------------------------------------------
(* The ring is a queue.                                                    *)

\* How many entries are queued.
LEMMA DistanceRange ==
    ASSUME QueueTypeOK
    PROVE  /\ Distance \in 0 .. Capacity - 1
           /\ Distance = 0 <=> tail = head
           /\ Distance = Capacity - 1 <=> Full
BY SpscAssumption DEF QueueTypeOK, Distance, Indices, Full, Increment

\* They lie from tail on.
LEMMA PositionQueued ==
    ASSUME QueueTypeOK, NEW k \in 1 .. Distance
    PROVE  /\ Position(k) \in Indices
           /\ Between(Position(k))
           /\ Position(k) # head
BY SpscAssumption DEF QueueTypeOK, Distance, Indices, Position, Between

\* A sequence is as long as its domain says.
LEMMA LengthOfDomain ==
    ASSUME NEW S, NEW n \in Nat, NEW s \in [1 .. n -> S]
    PROVE  s \in Seq(S) /\ Len(s) = n
<1>1. s \in Seq(S)
  BY SeqDef
<1>2. Len(s) \in Nat /\ DOMAIN s = 1 .. Len(s)
  BY <1>1, LenProperties
<1>3. 1 .. Len(s) = 1 .. n
  BY <1>2
<1>4. Len(s) = n
  BY <1>2, <1>3
<1> QED
  BY <1>1, <1>4

\* What is queued is a sequence of whole entries.
LEMMA QueuedIsSeq ==
    QueueIInv => /\ Queued \in Seq(WholeEntries)
            /\ Len(Queued) = Distance
            /\ \A k \in 1 .. Distance : Queued[k] = entries[Position(k)]
<1> SUFFICES ASSUME QueueIInv
             PROVE  /\ Queued \in Seq(WholeEntries)
                    /\ Len(Queued) = Distance
                    /\ \A k \in 1 .. Distance : Queued[k] = entries[Position(k)]
  OBVIOUS
<1>1. QueueTypeOK /\ RingInvariant
  BY DEF QueueIInv
<1>2. Distance \in Nat
  BY <1>1, DistanceRange
<1>3. ASSUME NEW k \in 1 .. Distance PROVE entries[Position(k)] \in WholeEntries
  <2> DEFINE entry == entries[Position(k)]
  <2>1. Position(k) \in Indices /\ Between(Position(k))
    BY <1>1, PositionQueued
  <2>2. entry \in Halves \X Halves
    BY <1>1, <2>1 DEF QueueTypeOK
  <2>3. entry[1] = entry[2] /\ entry[1] \in Values
    BY <1>1, <2>1 DEF RingInvariant
  <2> HIDE DEF entry
  <2>4. entry = <<entry[1], entry[2]>>
    BY <2>2
  <2>5. entry = <<entry[1], entry[1]>>
    BY <2>3, <2>4
  <2>6. entry \in WholeEntries
    BY <2>3, <2>5 DEF WholeEntries
  <2> QED
    BY <2>6 DEF entry
<1>4. Queued \in [1 .. Distance -> WholeEntries]
  BY <1>3 DEF Queued
<1>5. \A k \in 1 .. Distance : Queued[k] = entries[Position(k)]
  BY DEF Queued
<1> QED
  BY <1>2, <1>4, <1>5, LengthOfDomain

\* The queue stays what it is while the indices and the entries between them do.
LEMMA SameQueue ==
    ASSUME QueueIInv, QueueIInv', UNCHANGED <<head, tail>>,
           \A i \in Indices : i # head => entries'[i] = entries[i]
    PROVE  Queued' = Queued
<1>1. QueueTypeOK
  BY DEF QueueIInv
<1>2. Distance' = Distance /\ \A k \in 1 .. Distance : Position(k)' = Position(k)
  BY DEF Distance, Position
<1>3. \A k \in 1 .. Distance : Position(k) \in Indices /\ Position(k) # head
  BY <1>1, PositionQueued
<1> QED
  BY <1>2, <1>3 DEF Queued

\* Publishing appends the entry at head.
LEMMA PublishAppends ==
    ASSUME QueueIInv, QueueIInv', ~Full, head' = Increment(head), UNCHANGED <<entries, tail>>
    PROVE  /\ entries[head] \in WholeEntries
           /\ Queued' = Append(Queued, entries[head])
<1>1. /\ QueueTypeOK /\ Distance \in Nat
      /\ head \in Indices /\ tail \in Indices
  BY DistanceRange DEF QueueIInv, QueueTypeOK
<1>2. Distance' = Distance + 1
  BY <1>1, SpscAssumption DEF Distance, Indices, Full, Increment
<1>0. PICK n \in Nat : n = Distance
  BY <1>1
<1>3. Position(n + 1)' = head
  BY <1>0, <1>1, SpscAssumption DEF Distance, Indices, Position, Full
<1>4. \A k \in 1 .. Distance : Position(k)' = Position(k)
  BY DEF Position
<1>5. /\ Queued \in Seq(WholeEntries) /\ Len(Queued) = Distance
      /\ \A k \in 1 .. Distance : Queued[k] = entries[Position(k)]
  BY QueuedIsSeq
<1>6. /\ Queued' \in Seq(WholeEntries) /\ Len(Queued') = Distance + 1
      /\ \A k \in 1 .. Distance + 1 : Queued'[k] = entries[Position(k)']
  <2>1. QueueIInv' => (/\ Queued \in Seq(WholeEntries)
                  /\ Len(Queued) = Distance
                  /\ \A k \in 1 .. Distance : Queued[k] = entries[Position(k)])'
    BY QueuedIsSeq, PTL
  <2> QED
    BY <1>2, <2>1 DEF WholeEntries
<1> DEFINE old == Queued
           new == Queued'
           last == entries[head]
<1> HIDE DEF old, new, last
<1>7. new[Distance + 1] = last
  BY <1>0, <1>1, <1>3, <1>6 DEF new, last
<1>8. last \in WholeEntries
  BY <1>1, <1>6, <1>7, ElementOfSeq DEF new
<1>9. \A k \in 1 .. Distance : new[k] = old[k]
  BY <1>1, <1>4, <1>5, <1>6 DEF new, old
<1>10. /\ Append(old, last) \in Seq(WholeEntries) /\ Len(Append(old, last)) = Distance + 1
       /\ \A k \in 1 .. Distance : Append(old, last)[k] = old[k]
       /\ Append(old, last)[Distance + 1] = last
  BY <1>5, <1>8, AppendProperties DEF old
<1>11. \A k \in 1 .. Distance + 1 : new[k] = Append(old, last)[k]
  BY <1>1, <1>7, <1>9, <1>10
<1>12. new = Append(old, last)
  BY <1>6, <1>10, <1>11, SeqEqual DEF new
<1> QED
  BY <1>8, <1>12 DEF new, old, last

\* Releasing takes the first entry away.
LEMMA ReleaseRemoves ==
    ASSUME QueueIInv, QueueIInv', head # tail, tail' = Increment(tail), UNCHANGED <<entries, head>>
    PROVE  /\ Queued # <<>>
           /\ Head(Queued) = entries[tail]
           /\ Queued' = Tail(Queued)
<1>1. /\ QueueTypeOK /\ Distance \in Nat \ {0}
      /\ head \in Indices /\ tail \in Indices
  BY DistanceRange DEF QueueIInv, QueueTypeOK
<1>2. Distance' = Distance - 1
  BY <1>1, SpscAssumption DEF Distance, Indices, Increment
<1>3. \A k \in 1 .. Distance - 1 : Position(k)' = Position(k + 1)
  BY <1>1, SpscAssumption DEF Indices, Position, Increment, Distance
<1>4. Position(1) = tail
  BY <1>1, SpscAssumption DEF Indices, Position
<1>5. /\ Queued \in Seq(WholeEntries) /\ Len(Queued) = Distance
      /\ \A k \in 1 .. Distance : Queued[k] = entries[Position(k)]
  BY QueuedIsSeq
<1>6. /\ Queued' \in Seq(WholeEntries) /\ Len(Queued') = Distance - 1
      /\ \A k \in 1 .. Distance - 1 : Queued'[k] = entries[Position(k)']
  <2>1. QueueIInv' => (/\ Queued \in Seq(WholeEntries)
                  /\ Len(Queued) = Distance
                  /\ \A k \in 1 .. Distance : Queued[k] = entries[Position(k)])'
    BY QueuedIsSeq, PTL
  <2> QED
    BY <1>2, <2>1 DEF WholeEntries
<1> DEFINE old == Queued
           new == Queued'
<1> HIDE DEF old, new
<1>7. old # <<>>
  BY <1>1, <1>5, EmptySeq DEF old
<1>8. Head(old) = entries[tail]
  BY <1>1, <1>4, <1>5, <1>7 DEF old
<1>9. /\ Tail(old) \in Seq(WholeEntries) /\ Len(Tail(old)) = Distance - 1
      /\ \A k \in 1 .. Distance - 1 : Tail(old)[k] = old[k + 1]
  BY <1>1, <1>5, <1>7, HeadTailProperties DEF old
<1>10. \A k \in 1 .. Distance - 1 : new[k] = Tail(old)[k]
  BY <1>1, <1>3, <1>5, <1>6, <1>9 DEF new, old
<1>11. new = Tail(old)
  BY <1>6, <1>9, <1>10, SeqEqual DEF new
<1> QED
  BY <1>7, <1>8, <1>11 DEF new, old

\* Each step of push and pop is a step of the queue, or none.
LEMMA StepFifo ==
    QueueIInv /\ QueueIInv' /\ [QueueNext]_queueVars => [Fifo!Next]_<<Queued, answer, received>>
<1> SUFFICES ASSUME QueueIInv, QueueIInv', [QueueNext]_queueVars
             PROVE  [Fifo!Next]_<<Queued, answer, received>>
  OBVIOUS
<1>a. /\ QueueTypeOK /\ RingInvariant
      /\ Queued \in Seq(WholeEntries) /\ Len(Queued) = Distance
      /\ head \in Indices /\ tail \in Indices
  BY QueuedIsSeq DEF QueueIInv, QueueTypeOK
<1>1. ASSUME NEW v \in Values, PushCheck(v) PROVE [Fifo!Next]_<<Queued, answer, received>>
  <2>1. UNCHANGED <<entries, head, tail, received>>
    BY <1>1 DEF PushCheck
  <2>2. Queued' = Queued
    BY <2>1, SameQueue
  <2>3. CASE Full
    <3>1. answer' = FALSE
      BY <1>1, <2>3 DEF PushCheck
    <3>2. Len(Queued) = Capacity - 1
      BY <1>a, <2>3, DistanceRange
    <3> QED
      BY <2>1, <2>2, <3>1, <3>2 DEF Fifo!Next, Fifo!TurnDown
  <2>4. CASE ~Full
    BY <1>1, <2>1, <2>2, <2>4 DEF PushCheck
  <2> QED
    BY <2>3, <2>4
<1>2. CASE WriteFirstHalf \/ WriteSecondHalf
  <2>1. producer.index = head
    BY <1>2, <1>a DEF WriteFirstHalf, WriteSecondHalf, RingInvariant, Writing
  <2>2. /\ UNCHANGED <<head, tail, answer, received>>
        /\ \A i \in Indices : i # head => entries'[i] = entries[i]
    BY <1>2, <1>a, <2>1 DEF WriteFirstHalf, WriteSecondHalf, QueueTypeOK
  <2> QED
    BY <2>2, SameQueue
<1>3. CASE Publish
  <2>1. producer.index = head /\ ~Full
    BY <1>3, <1>a DEF Publish, RingInvariant, Writing
  <2>2. /\ head' = Increment(head) /\ UNCHANGED <<entries, tail, received>>
        /\ answer' = TRUE
    BY <1>3, <2>1 DEF Publish
  <2>3. /\ entries[head] \in WholeEntries
        /\ Queued' = Append(Queued, entries[head])
    BY <2>1, <2>2, PublishAppends
  <2>4. Len(Queued) < Capacity - 1
    BY <1>a, <2>1, DistanceRange, SpscAssumption
  <2>5. Fifo!Accept(entries[head])
    BY <2>2, <2>3, <2>4 DEF Fifo!Accept
  <2> QED
    BY <2>3, <2>5 DEF Fifo!Next
<1>4. CASE PopCheck
  <2>1. UNCHANGED <<entries, head, tail, answer>>
    BY <1>4 DEF PopCheck
  <2>2. Queued' = Queued
    BY <2>1, SameQueue
  <2>3. CASE tail = head
    <3>1. received' = NoEntry
      BY <1>4, <2>3 DEF PopCheck
    <3>2. Queued = <<>>
      BY <1>a, <2>3, DistanceRange, EmptySeq
    <3> QED
      BY <2>1, <2>2, <3>1, <3>2 DEF Fifo!Next, Fifo!FindNone
  <2>4. CASE tail # head
    BY <1>4, <2>1, <2>2, <2>4 DEF PopCheck
  <2> QED
    BY <2>3, <2>4
<1>5. CASE ReadFirstHalf \/ ReadSecondHalf
  <2>1. UNCHANGED <<entries, head, tail, answer, received>>
    BY <1>5 DEF ReadFirstHalf, ReadSecondHalf
  <2> QED
    BY <2>1, SameQueue
<1>6. CASE Release
  <2>1. /\ consumer.index = tail /\ head # tail
        /\ consumer.copy[1] = entries[tail][1] /\ consumer.copy[2] = entries[tail][2]
    BY <1>6, <1>a DEF Release, RingInvariant, Reading
  <2>2. /\ tail' = Increment(tail) /\ received' = consumer.copy
        /\ UNCHANGED <<entries, head, answer>>
    BY <1>6, <2>1 DEF Release
  <2>3. received' = entries[tail]
    <3>1. consumer.copy \in Halves \X Halves /\ entries[tail] \in Halves \X Halves
      BY <1>a DEF QueueTypeOK
    <3> QED
      BY <2>1, <2>2, <3>1
  <2>4. Queued # <<>> /\ Head(Queued) = entries[tail] /\ Queued' = Tail(Queued)
    BY <2>1, <2>2, ReleaseRemoves
  <2> QED
    BY <2>2, <2>3, <2>4 DEF Fifo!Next, Fifo!Receive
<1>7. CASE UNCHANGED queueVars
  <2>1. UNCHANGED <<entries, head, tail, answer, received>>
    BY <1>7 DEF queueVars
  <2> QED
    BY <2>1, SameQueue
<1> QED
  BY <1>1, <1>2, <1>3, <1>4, <1>5, <1>6, <1>7 DEF QueueNext, PushStep, PopStep

\* The ring is a bounded queue: push and pop take effect when they store their
\* index, in order and without a loss, and a push is refused because all but
\* one of the entries are taken (SpscQueue::push and pop).
THEOREM QueueRefinement == QueueSpec => ImplementsFifo
<1>1. QueueInit => Fifo!Init
  <2> SUFFICES ASSUME QueueInit PROVE Fifo!Init
    OBVIOUS
  <2>1. QueueIInv
    BY QueueInitIInv
  <2>2. Len(Queued) = 0 /\ Queued \in Seq(WholeEntries)
    BY <2>1, QueuedIsSeq, DistanceRange DEF QueueInit, QueueIInv
  <2>3. Queued = <<>>
    BY <2>2, EmptySeq
  <2> QED
    BY <2>3 DEF QueueInit, Fifo!Init
<1> QED
  BY <1>1, QueueInductive, StepFifo, PTL DEF QueueSpec, ImplementsFifo, Fifo!Spec

\* While entry i is the next to be received, pop goes from one of its points
\* to the next, and takes it at the last.
LEMMA PopTurns ==
    ASSUME QueueIInv, [QueueNext]_queueVars, NEW i \in Indices, tail = i, head # tail
    PROVE  \/ tail' # i
           \/ /\ tail' = i /\ head' # tail'
              /\ consumer.at = "idle" => consumer'.at \in {"idle", "read"}
              /\ consumer.at = "read" => consumer'.at \in {"read", "reading"}
              /\ consumer.at = "reading" => consumer'.at \in {"reading", "release"}
              /\ consumer.at = "release" => consumer'.at = "release"
<1>a. /\ head \in Indices /\ tail \in Indices /\ Capacity \in Nat \ {0, 1}
      /\ consumer \in [at : ConsumerPoints, index : Indices, copy : Halves \X Halves]
  BY SpscAssumption DEF QueueIInv, QueueTypeOK
<1>1. CASE UNCHANGED queueVars
  BY <1>1 DEF queueVars
<1>2. ASSUME NEW v \in Values, PushCheck(v)
      PROVE  UNCHANGED <<head, tail, consumer>>
  BY <1>2 DEF PushCheck
<1>3. CASE WriteFirstHalf \/ WriteSecondHalf
  BY <1>3 DEF WriteFirstHalf, WriteSecondHalf
<1>4. CASE Publish
  <2>1. producer.index = head /\ ~Full
    BY <1>4 DEF Publish, QueueIInv, RingInvariant, Writing
  <2> QED
    BY <1>4, <2>1 DEF Publish, Full
<1>5. CASE PopCheck
  BY <1>5, <1>a DEF PopCheck
<1>6. CASE ReadFirstHalf \/ ReadSecondHalf
  BY <1>6, <1>a DEF ReadFirstHalf, ReadSecondHalf
<1>7. CASE Release
  <2>1. consumer.index = tail
    BY <1>7 DEF Release, QueueIInv, RingInvariant, Reading
  <2> QED
    BY <1>7, <1>a, <2>1 DEF Release, Increment, Indices
<1> QED
  BY <1>1, <1>2, <1>3, <1>4, <1>5, <1>6, <1>7 DEF QueueNext, PushStep, PopStep

\* Each step pop takes then moves it on.
LEMMA PopMoves ==
    ASSUME QueueIInv, PopStep, NEW i \in Indices, tail = i, head # tail
    PROVE  consumer'.at # consumer.at
<1>1. consumer \in [at : ConsumerPoints, index : Indices, copy : Halves \X Halves]
  BY DEF QueueIInv, QueueTypeOK
<1> QED
  BY <1>1 DEF PopStep, PopCheck, ReadFirstHalf, ReadSecondHalf, Release

\* What is queued is received, for every capacity, by a consumer that polls.
THEOREM EntryReceived == QueueLiveSpec /\ []PopCanRun => EntryIsReceived
<1> SUFFICES ASSUME NEW i \in Indices
             PROVE  QueueLiveSpec /\ []PopCanRun => ((tail = i /\ head # tail) ~> (tail # i))
  BY DEF EntryIsReceived
<1> DEFINE Next_i == tail = i /\ head # tail
           At(point) == consumer.at = point
           Taken == tail # i
<1>1. QueueIInv => At("idle") \/ At("read") \/ At("reading") \/ At("release")
  BY DEF QueueIInv, QueueTypeOK, ConsumerPoints
<1>2. QueueIInv /\ Next_i /\ At("idle") /\ [QueueNext]_queueVars
        => Taken' \/ (Next_i' /\ (At("idle")' \/ At("read")'))
  BY PopTurns
<1>3. QueueIInv /\ Next_i /\ At("read") /\ [QueueNext]_queueVars
        => Taken' \/ (Next_i' /\ (At("read")' \/ At("reading")'))
  BY PopTurns
<1>4. QueueIInv /\ Next_i /\ At("reading") /\ [QueueNext]_queueVars
        => Taken' \/ (Next_i' /\ (At("reading")' \/ At("release")'))
  BY PopTurns
<1>5. QueueIInv /\ Next_i /\ At("release") /\ [QueueNext]_queueVars
        => Taken' \/ (Next_i' /\ At("release")')
  BY PopTurns
<1>6. /\ QueueIInv /\ Next_i /\ At("idle") /\ <<PopStep>>_queueVars => ~At("idle")'
      /\ QueueIInv /\ Next_i /\ At("read") /\ <<PopStep>>_queueVars => ~At("read")'
      /\ QueueIInv /\ Next_i /\ At("reading") /\ <<PopStep>>_queueVars => ~At("reading")'
      /\ QueueIInv /\ Next_i /\ At("release") /\ <<PopStep>>_queueVars => ~At("release")'
  BY PopMoves
<1>7. Next_i => head # tail
  OBVIOUS
<1>8. (Next_i ~> Taken) => ((tail = i /\ head # tail) ~> (tail # i))
  BY PTL
<1> HIDE DEF Next_i, At, Taken
<1> QED
  BY <1>1, <1>2, <1>3, <1>4, <1>5, <1>6, <1>7, <1>8, QueueInductive, PTL
  DEF QueueLiveSpec, QueueSpec, PopCanRun

-----------------------------------------------------------------------------
(***************************************************************************)
(* A snapshot taken under the sequence lock is the version current when    *)
(* it returns, for every number of fields and publications.                *)
(***************************************************************************)

SeqlockIInv == SeqlockTypeOK /\ SeqlockInvariant /\ SnapshotWhole

\* The first increment of publish makes an even number odd, the second an odd
\* one even.
LEMMA Parity == \A n \in Nat : Even(n + 1) <=> ~Even(n)
BY DEF Even

\* Before the first publication every copy is of version 0.
LEMMA SeqlockInitIInv == SeqlockInit => SeqlockIInv
<1> SUFFICES ASSUME SeqlockInit PROVE SeqlockIInv
  OBVIOUS
<1>1. Record(0) \in [Fields -> Nat] /\ \A f \in Fields : Record(0)[f] = 0
  BY DEF Record
<1>2. 1 \in Fields /\ 1 \in 1 .. FieldCount + 1
  BY SeqlockAssumption DEF Fields
<1>3. SeqlockTypeOK
  BY <1>1, <1>2 DEF SeqlockInit, SeqlockTypeOK
<1>4. Even(0)
  BY DEF Even
<1> QED
  BY <1>1, <1>2, <1>3, <1>4 DEF SeqlockInit, SeqlockIInv, SeqlockInvariant, SnapshotWhole

\* One step per action of publish and snapshot.
LEMMA SeqlockStepIInv == SeqlockIInv /\ [SeqlockNext]_seqlockVars => SeqlockIInv'
<1> SUFFICES ASSUME SeqlockIInv, [SeqlockNext]_seqlockVars PROVE SeqlockIInv'
  OBVIOUS
<1> USE DEF SeqlockIInv, Fields
<1>a. /\ sequence \in Nat /\ published \in Nat /\ FieldCount \in Nat \ {0}
      /\ fields \in [Fields -> Nat] /\ returned \in [Fields -> Nat]
      /\ writer \in [at : {"idle", "store"}, next : 1 .. FieldCount + 1]
      /\ reader \in [at : {"idle", "load", "copy"}, before : Nat,
                     next : 1 .. FieldCount + 1, copy : [Fields -> Nat]]
  BY SeqlockAssumption DEF SeqlockTypeOK
<1>1. CASE BeginPublish
  <2>1. /\ writer.at = "idle" /\ sequence' = sequence + 1
        /\ writer' = [at |-> "store", next |-> 1]
        /\ UNCHANGED <<fields, reader, callback, published, returned>>
    BY <1>1 DEF BeginPublish
  <2>2. SeqlockTypeOK'
    BY <1>a, <2>1 DEF SeqlockTypeOK
  <2>3. ~Even(sequence')
    BY <1>a, <2>1, Parity DEF SeqlockInvariant
  <2>4. reader.at = "copy" => reader.before < sequence'
    BY <1>a, <2>1 DEF SeqlockInvariant
  <2> QED
    BY <1>a, <2>1, <2>2, <2>3, <2>4 DEF SeqlockInvariant, SnapshotWhole
<1>2. CASE StoreField
  <2>1. /\ writer.at = "store" /\ writer.next \in Fields
        /\ fields' = [fields EXCEPT ![writer.next] = published + 1]
        /\ writer' = [writer EXCEPT !.next = writer.next + 1]
        /\ UNCHANGED <<sequence, reader, callback, published, returned>>
    BY <1>2, <1>a DEF StoreField
  <2>2. SeqlockTypeOK'
    <3>1. writer' \in [at : {"idle", "store"}, next : 1 .. FieldCount + 1]
      BY <1>a, <2>1
    <3>2. fields' \in [Fields -> Nat]
      BY <1>a, <2>1
    <3> QED
      BY <1>a, <2>1, <3>1, <3>2 DEF SeqlockTypeOK
  <2>3. ~Even(sequence)
    BY <2>1 DEF SeqlockInvariant
  <2>4. \A f \in Fields : fields'[f] = IF f < writer'.next THEN published + 1 ELSE published
    BY <1>a, <2>1 DEF SeqlockInvariant
  <2>5. reader.at = "copy" => reader.before # sequence
    BY <2>3 DEF SeqlockInvariant
  <2>6. writer'.at = "store"
    BY <1>a, <2>1
  <2> QED
    BY <2>1, <2>2, <2>3, <2>4, <2>5, <2>6 DEF SeqlockInvariant, SnapshotWhole
<1>3. CASE EndPublish
  <2>1. /\ writer.at = "store" /\ writer.next > FieldCount
        /\ sequence' = sequence + 1 /\ published' = published + 1
        /\ writer' = [at |-> "idle", next |-> 1]
        /\ UNCHANGED <<fields, reader, callback, returned>>
    BY <1>3 DEF EndPublish
  <2>2. SeqlockTypeOK'
    BY <1>a, <2>1 DEF SeqlockTypeOK
  <2>3. Even(sequence')
    BY <1>a, <2>1, Parity DEF SeqlockInvariant
  <2>4. \A f \in Fields : fields[f] = published + 1
    BY <1>a, <2>1 DEF SeqlockInvariant
  <2>5. reader.at = "copy" => reader.before < sequence'
    BY <1>a, <2>1 DEF SeqlockInvariant
  <2> QED
    BY <1>a, <2>1, <2>2, <2>3, <2>4, <2>5 DEF SeqlockInvariant, SnapshotWhole
<1>4. CASE BeginSnapshot
  BY <1>4, <1>a DEF BeginSnapshot, SeqlockTypeOK, SeqlockInvariant, SnapshotWhole
<1>5. CASE LoadBefore
  <2>1. /\ Even(sequence)
        /\ reader' = [reader EXCEPT !.at = "copy", !.before = sequence, !.next = 1]
        /\ UNCHANGED <<sequence, fields, writer, callback, published, returned>>
    BY <1>5 DEF LoadBefore
  <2>2. SeqlockTypeOK'
    <3>1. 1 \in 1 .. FieldCount + 1
      BY <1>a
    <3>2. reader' = [at |-> "copy", before |-> sequence, next |-> 1, copy |-> reader.copy]
      BY <1>a, <2>1
    <3>3. reader' \in [at : {"idle", "load", "copy"}, before : Nat,
                       next : 1 .. FieldCount + 1, copy : [Fields -> Nat]]
      BY <1>a, <3>1, <3>2
    <3> QED
      BY <2>1, <3>3 DEF SeqlockTypeOK
  <2>3. reader'.before = sequence /\ reader'.next = 1 /\ reader'.at = "copy"
    BY <1>a, <2>1
  <2> QED
    BY <1>a, <2>1, <2>2, <2>3 DEF SeqlockInvariant, SnapshotWhole
<1>6. CASE CopyField
  <2>1. /\ reader.at = "copy" /\ reader.next \in Fields
        /\ reader' = [reader EXCEPT !.copy = [reader.copy EXCEPT ![reader.next] = fields[reader.next]],
                                    !.next = reader.next + 1]
        /\ UNCHANGED <<sequence, fields, writer, callback, published, returned>>
    BY <1>6, <1>a DEF CopyField
  <2>2. /\ reader'.at = "copy" /\ reader'.before = reader.before
        /\ reader'.next = reader.next + 1
        /\ reader'.copy = [reader.copy EXCEPT ![reader.next] = fields[reader.next]]
    BY <1>a, <2>1
  <2>3. SeqlockTypeOK'
    <3>1. reader.next + 1 \in 1 .. FieldCount + 1
      BY <1>a, <2>1
    <3>2. reader'.copy \in [Fields -> Nat]
      BY <1>a, <2>1, <2>2
    <3>3. reader' = [at |-> "copy", before |-> reader.before, next |-> reader.next + 1,
                     copy |-> reader'.copy]
      BY <1>a, <2>1
    <3>4. reader' \in [at : {"idle", "load", "copy"}, before : Nat,
                       next : 1 .. FieldCount + 1, copy : [Fields -> Nat]]
      BY <1>a, <3>1, <3>2, <3>3
    <3> QED
      BY <2>1, <3>4 DEF SeqlockTypeOK
  <2>4. reader.before = sequence => fields[reader.next] = published
    BY <2>1 DEF SeqlockInvariant
  <2>5. ASSUME reader.before = sequence, NEW f \in Fields, f < reader.next + 1
        PROVE  reader'.copy[f] = published
    BY <1>a, <2>1, <2>2, <2>4, <2>5 DEF SeqlockInvariant
  <2> QED
    BY <2>1, <2>2, <2>3, <2>5 DEF SeqlockInvariant, SnapshotWhole
<1>7. CASE CheckAfter
  <2>1. CASE reader.before = sequence
    <3>1. /\ returned' = reader.copy /\ reader' = [reader EXCEPT !.at = "idle"]
          /\ reader.at = "copy" /\ reader.next > FieldCount
          /\ UNCHANGED <<sequence, fields, writer, callback, published>>
      BY <1>7, <2>1 DEF CheckAfter
    <3>2. \A f \in Fields : returned'[f] = published
      BY <1>a, <2>1, <3>1 DEF SeqlockInvariant
    <3>3. 1 \in Fields
      BY <1>a
    <3>4. SeqlockTypeOK'
      BY <1>a, <3>1 DEF SeqlockTypeOK
    <3> QED
      BY <1>a, <3>1, <3>2, <3>3, <3>4 DEF SeqlockInvariant, SnapshotWhole
  <2>2. CASE reader.before # sequence
    BY <1>7, <1>a, <2>2 DEF CheckAfter, SeqlockTypeOK, SeqlockInvariant, SnapshotWhole
  <2> QED
    BY <2>1, <2>2
<1>8. CASE BeginCallback
  BY <1>8 DEF BeginCallback, SeqlockTypeOK, SeqlockInvariant, SnapshotWhole
<1>9. CASE FinishCallback
  <2>1. /\ writer.at = "idle" /\ returned' = fields /\ callback' = FALSE
        /\ UNCHANGED <<sequence, fields, writer, reader, published>>
    BY <1>9 DEF FinishCallback, SeqlockInvariant
  <2>2. \A f \in Fields : returned'[f] = published
    BY <2>1 DEF SeqlockInvariant
  <2>3. 1 \in Fields
    BY <1>a
  <2>4. SeqlockTypeOK'
    BY <1>a, <2>1 DEF SeqlockTypeOK
  <2> QED
    BY <2>1, <2>2, <2>3, <2>4 DEF SeqlockInvariant, SnapshotWhole
<1>10. CASE UNCHANGED seqlockVars
  BY <1>10 DEF seqlockVars, SeqlockTypeOK, SeqlockInvariant, SnapshotWhole
<1> QED
  BY <1>1, <1>2, <1>3, <1>4, <1>5, <1>6, <1>7, <1>8, <1>9, <1>10
  DEF SeqlockNext, WriterStep, ReaderStep

\* The inductive invariant holds in every reachable state.
LEMMA SeqlockInductive == SeqlockSpec => []SeqlockIInv
BY SeqlockInitIInv, SeqlockStepIInv, PTL DEF SeqlockSpec

\* The sequence lock's variables keep to their ranges.
THEOREM SeqlockTypeCorrect == SeqlockSpec => []SeqlockTypeOK
<1>1. SeqlockIInv => SeqlockTypeOK
  BY DEF SeqlockIInv
<1> QED
  BY <1>1, SeqlockInductive, PTL

\* An even number means the fields hold one version, and a copy under an
\* unchanged even number is of that version.
THEOREM SeqlockSafe == SeqlockSpec => []SeqlockInvariant
<1>1. SeqlockIInv => SeqlockInvariant
  BY DEF SeqlockIInv
<1> QED
  BY <1>1, SeqlockInductive, PTL

\* configuration_snapshot and snapshot never return a mixture of versions.
THEOREM NeverTorn == SeqlockSpec => []SnapshotWhole
<1>1. SeqlockIInv => SnapshotWhole
  BY DEF SeqlockIInv
<1> QED
  BY <1>1, SeqlockInductive, PTL

\* The sequence lock implements a register written and read atomically: every
\* step writes a record, reads the current one whole, or shows nothing.
THEOREM SeqlockRefinement == SeqlockSpec => ImplementsRegister
<1>1. SeqlockInit => Register!Init
  BY DEF SeqlockInit, Register!Init
<1>2. SeqlockIInv /\ [SeqlockNext]_seqlockVars => [Register!Next]_<<Record(published), returned>>
  <2> SUFFICES ASSUME SeqlockIInv, SeqlockNext
               PROVE  Register!Next \/ UNCHANGED <<Record(published), returned>>
    BY DEF seqlockVars, Record
  <2>1. CASE EndPublish
    BY <2>1 DEF EndPublish, Record, Register!Next, Register!Write
  <2>2. CASE CheckAfter /\ reader.before = sequence
    <3>1. /\ returned' = reader.copy /\ reader.at = "copy" /\ reader.next > FieldCount
          /\ published' = published
      BY <2>2 DEF CheckAfter
    <3>2. reader.copy \in [Fields -> Nat] /\ \A f \in Fields : f < reader.next
      BY <3>1, SeqlockAssumption DEF Fields, SeqlockIInv, SeqlockTypeOK
    <3>3. \A f \in Fields : reader.copy[f] = published
      BY <2>2, <3>1, <3>2 DEF SeqlockIInv, SeqlockInvariant
    <3>4. returned' = Record(published)
      BY <3>1, <3>2, <3>3 DEF Record
    <3> QED
      BY <3>1, <3>4 DEF Record, Register!Next, Register!Read
  <2>3. CASE FinishCallback
    <3>1. returned' = fields /\ published' = published /\ writer.at = "idle"
      BY <2>3 DEF FinishCallback, SeqlockIInv, SeqlockInvariant
    <3>2. fields \in [Fields -> Nat] /\ \A f \in Fields : fields[f] = published
      BY <3>1 DEF SeqlockIInv, SeqlockTypeOK, SeqlockInvariant
    <3>3. returned' = Record(published)
      BY <3>1, <3>2 DEF Record
    <3> QED
      BY <3>1, <3>3 DEF Record, Register!Next, Register!Read
  <2>4. CASE \/ BeginPublish \/ StoreField \/ BeginSnapshot \/ LoadBefore \/ CopyField
             \/ BeginCallback
             \/ CheckAfter /\ reader.before # sequence
    BY <2>4 DEF BeginPublish, StoreField, BeginSnapshot, LoadBefore, CopyField, BeginCallback,
                CheckAfter, Record
  <2> QED
    BY <2>1, <2>2, <2>3, <2>4 DEF SeqlockNext, WriterStep, ReaderStep
<1> QED
  BY <1>1, <1>2, SeqlockInductive, PTL DEF SeqlockSpec, ImplementsRegister, Register!Spec

\* How many steps a publication under way still takes.
WriterToGo == IF writer.at = "store" THEN FieldCount + 2 - writer.next ELSE 0

\* How many steps a snapshot under way can still take if no publication
\* begins: those of the attempt it is in, those of another one when that is
\* bound to fail, and the writer's until the number is even again.
SnapshotToGo ==
    LET again == FieldCount + 3
        attempt == FieldCount + 2 - reader.next
    IN  (CASE reader.at = "idle" -> 0
           [] reader.at = "load" -> again
           [] reader.at = "copy" ->
                IF reader.before = sequence THEN attempt ELSE attempt + again)
        + WriterToGo

\* Every step of publish or snapshot, once begun, leaves fewer of them.
SnapshotToGoFalls == [][WriterStep \/ ReaderStep => SnapshotToGo' < SnapshotToGo]_seqlockVars

\* The same, by where the reader is.
ToGoByPlace ==
    /\ WriterToGo \in 0 .. FieldCount + 1
    /\ reader.at = "idle" => SnapshotToGo = WriterToGo
    /\ reader.at = "load" => SnapshotToGo = FieldCount + 3 + WriterToGo
    /\ reader.at = "copy" /\ reader.before = sequence
         => SnapshotToGo = FieldCount + 2 - reader.next + WriterToGo
    /\ reader.at = "copy" /\ reader.before # sequence
         => SnapshotToGo = FieldCount + 2 - reader.next + FieldCount + 3 + WriterToGo

\* A case per place.
LEMMA SnapshotToGoValue == SeqlockTypeOK => ToGoByPlace
BY SeqlockAssumption DEF SnapshotToGo, SeqlockTypeOK, ToGoByPlace, WriterToGo

\* One step of either task; the writer's make no attempt fail that was not
\* bound to, since its number is odd until the last of them.
LEMMA SnapshotToGoStep ==
    ASSUME SeqlockIInv, SeqlockIInv', WriterStep \/ ReaderStep
    PROVE  SnapshotToGo' < SnapshotToGo
<1> USE DEF SeqlockIInv
<1>a. /\ sequence \in Nat /\ FieldCount \in Nat \ {0}
      /\ writer \in [at : {"idle", "store"}, next : 1 .. FieldCount + 1]
      /\ reader \in [at : {"idle", "load", "copy"}, before : Nat,
                     next : 1 .. FieldCount + 1, copy : [Fields -> Nat]]
  BY SeqlockAssumption DEF SeqlockTypeOK
<1>b. ToGoByPlace /\ ToGoByPlace'
  BY SnapshotToGoValue, PTL
<1>1. CASE WriterStep
  <2>1. /\ writer.at = "store" /\ UNCHANGED reader
        /\ WriterToGo' < WriterToGo
    BY <1>1, <1>a DEF WriterToGo, WriterStep, StoreField, EndPublish
  <2>2. reader.at = "copy" => reader.before < sequence
    BY <1>a, <2>1 DEF SeqlockInvariant
  <2>3. sequence' \in {sequence, sequence + 1}
    BY <1>1 DEF WriterStep, StoreField, EndPublish
  <2>4. reader.at = "copy" => reader.before # sequence /\ reader.before # sequence'
    BY <1>a, <2>2, <2>3
  <2> QED
    BY <1>a, <1>b, <2>1, <2>4 DEF ToGoByPlace
<1>2. CASE ReaderStep
  <2>1. UNCHANGED <<sequence, writer>>
    BY <1>2 DEF ReaderStep, LoadBefore, CopyField, CheckAfter
  <2>2. WriterToGo' = WriterToGo
    BY <2>1 DEF WriterToGo
  <2>3. CASE LoadBefore
    <3>1. reader.at = "load" /\ reader'.at = "copy" /\ reader'.before = sequence' /\ reader'.next = 1
      BY <1>a, <2>1, <2>3 DEF LoadBefore
    <3> QED
      BY <1>a, <1>b, <2>2, <3>1 DEF ToGoByPlace
  <2>4. CASE CopyField
    <3>1. /\ reader.at = "copy" /\ reader'.at = "copy" /\ reader'.before = reader.before
          /\ reader'.next = reader.next + 1
      BY <1>a, <2>4 DEF CopyField
    <3> QED
      BY <1>a, <1>b, <2>1, <2>2, <3>1 DEF ToGoByPlace
  <2>5. CASE CheckAfter
    <3>1. /\ reader.at = "copy" /\ reader.next = FieldCount + 1
          /\ reader'.at = IF reader.before = sequence THEN "idle" ELSE "load"
      BY <1>a, <2>5 DEF CheckAfter
    <3> QED
      BY <1>a, <1>b, <2>2, <3>1 DEF ToGoByPlace
  <2> QED
    BY <1>2, <2>3, <2>4, <2>5 DEF ReaderStep
<1> QED
  BY <1>1, <1>2

\* snapshot() and configuration_snapshot() retry without a bound, but in vain
\* only as often as a publication begins: each step the two tasks take in
\* between brings the snapshot nearer to its return, which is never more than
\* 3 * FieldCount + 5 of them away, for every number of fields.  That the tasks
\* take their steps is not claimed: a callback may have taken the writer's core.
THEOREM SnapshotComesCloser ==
    SeqlockSpec => /\ [](/\ SnapshotToGo \in 0 .. 3 * FieldCount + 5
                         /\ SnapshotToGo = 0 => reader.at = "idle")
                   /\ SnapshotToGoFalls
<1>1. SeqlockIInv => /\ SnapshotToGo \in 0 .. 3 * FieldCount + 5
                     /\ SnapshotToGo = 0 => reader.at = "idle"
  <2> SUFFICES ASSUME SeqlockIInv
               PROVE  /\ SnapshotToGo \in 0 .. 3 * FieldCount + 5
                      /\ SnapshotToGo = 0 => reader.at = "idle"
    OBVIOUS
  <2>1. /\ FieldCount \in Nat \ {0} /\ reader.next \in 1 .. FieldCount + 1
        /\ reader.at \in {"idle", "load", "copy"} /\ SeqlockTypeOK
    BY SeqlockAssumption DEF SeqlockIInv, SeqlockTypeOK
  <2> QED
    BY <2>1, SnapshotToGoValue DEF ToGoByPlace
<1>2. SeqlockIInv /\ SeqlockIInv' /\ [SeqlockNext]_seqlockVars
        => [WriterStep \/ ReaderStep => SnapshotToGo' < SnapshotToGo]_seqlockVars
  BY SnapshotToGoStep
<1> QED
  BY <1>1, <1>2, SeqlockInductive, PTL DEF SeqlockSpec, SnapshotToGoFalls

-----------------------------------------------------------------------------
(***************************************************************************)
(* The host is told of every change of the device's state, and of the wheel*)
(* at its pace, for every pace, refresh time, duration of a pass and modulus*)
(* of the clock.                                                           *)
(***************************************************************************)

-----------------------------------------------------------------------------
(* The input reports, for every pace, refresh time, duration of a pass and *)
(* modulus of the clock.                                                   *)

ReportsClock == 0 .. ClockWrap - 1

\* Milliseconds since the last wheel report, as the clock tells them.
SinceWheel == (clock - last_wheel_ms) % ClockWrap

ReportsTypeOK ==
    /\ state \in StateBytes
    /\ {last_state, told} \subseteq StateBytes \cup {NeverSent}
    /\ clock \in ReportsClock /\ last_state_ms \in ReportsClock
    /\ last_wheel_ms \in ReportsClock
    /\ pass \in 0 .. MaxPass
    /\ connected \in BOOLEAN /\ steered \in BOOLEAN
    /\ late \in Nat /\ silent \in Nat /\ stale \in Nat

\* Only a connected host waits for anything, and only what it was told last
\* is what service believes to have been told.
ToldInvariant ==
    /\ ~connected => told = NeverSent /\ silent = 0 /\ ~steered
    /\ told \in {NeverSent, last_state}
    /\ told \in {NeverSent, state} => late = 0
    /\ ~steered => stale = 0

\* A state that was due at the last pass of the loop is not waited for since
\* before that pass.  Where the clock has come round since the last state
\* report, that was within a pass, too.
StateInvariant ==
    /\ late <= pass \/ SinceState < Pace + pass
    /\ late <= SinceState + MaxPass
    /\ silent <= pass \/ SinceState < Refresh + pass
    /\ silent <= SinceState + MaxPass

\* The wheel has been waiting since the last pass, or that pass has told the
\* state instead.
WheelInvariant ==
    steered => /\ SinceWheel = stale
               /\ \/ stale <= pass
                  \/ SinceState = pass /\ stale <= MaxPass + pass

ReportsInvariant ==
    ReportsTypeOK /\ ToldInvariant /\ StateInvariant /\ WheelInvariant

LEMMA ReportsNumbers ==
    /\ Refresh \in Int /\ Pace \in Int /\ ClockWrap \in Int /\ MaxPass \in Int
    /\ 0 < MaxPass /\ MaxPass < Pace /\ Pace <= Refresh /\ Refresh + MaxPass < ClockWrap
BY InputReportsAssumption

\* The clock tells the time since a reading, short of whole turns.
LEMMA SinceOnClock ==
    ASSUME NEW t \in ReportsClock, NEW since \in ReportsClock
    PROVE  /\ (t - since) % ClockWrap
                = IF t >= since THEN t - since ELSE t - since + ClockWrap
           /\ (t - since) % ClockWrap \in ReportsClock
<1>1. t - since \in Int /\ -ClockWrap < t - since /\ t - since < ClockWrap
  BY ReportsNumbers DEF ReportsClock
<1>2. \A x \in Int : 0 <= x /\ x < ClockWrap => x % ClockWrap = x
  BY ReportsNumbers
<1>3. \A x \in Int : -ClockWrap < x /\ x < 0 => x % ClockWrap = x + ClockWrap
  BY ReportsNumbers
<1> QED
  BY <1>1, <1>2, <1>3, ReportsNumbers DEF ReportsClock

\* A millisecond later it tells one more, until it has come round.
LEMMA SinceTicks ==
    ASSUME NEW t \in ReportsClock, NEW since \in ReportsClock
    PROVE  LET later == (t + 1) % ClockWrap
               before == (t - since) % ClockWrap
           IN  /\ later \in ReportsClock
               /\ (later - since) % ClockWrap
                    = IF before = ClockWrap - 1 THEN 0 ELSE before + 1
<1> DEFINE later == (t + 1) % ClockWrap
           before == (t - since) % ClockWrap
           after == (later - since) % ClockWrap
<1>1. later = IF t = ClockWrap - 1 THEN 0 ELSE t + 1
  <2>1. \A x \in Int : 0 <= x /\ x < ClockWrap => x % ClockWrap = x
    BY ReportsNumbers
  <2>2. ClockWrap % ClockWrap = 0
    BY ReportsNumbers
  <2>3. t \in Int /\ 0 <= t /\ t < ClockWrap
    BY ReportsNumbers DEF ReportsClock
  <2>4. CASE t = ClockWrap - 1
    <3>1. t + 1 = ClockWrap
      BY <2>4, ReportsNumbers
    <3> QED
      BY <2>2, <2>4, <3>1
  <2>5. CASE t # ClockWrap - 1
    BY <2>1, <2>3, <2>5, ReportsNumbers
  <2> QED
    BY <2>4, <2>5
<1>2. before = IF t >= since THEN t - since ELSE t - since + ClockWrap
  BY SinceOnClock
<1> HIDE DEF later, before
<1>3. later \in ReportsClock
  BY <1>1, ReportsNumbers DEF ReportsClock
<1>4. after = IF later >= since THEN later - since ELSE later - since + ClockWrap
  BY <1>3, SinceOnClock
<1> HIDE DEF after
<1>5. after = IF before = ClockWrap - 1 THEN 0 ELSE before + 1
  BY <1>1, <1>2, <1>4, ReportsNumbers DEF ReportsClock
<1> QED
  BY <1>3, <1>5 DEF later, before, after

LEMMA SinceNow == \A t \in ReportsClock : (t - t) % ClockWrap = 0
BY SinceOnClock, ReportsNumbers DEF ReportsClock

LEMMA ReportsInvariantInit == ReportsInit => ReportsInvariant
<1> SUFFICES ASSUME ReportsInit PROVE ReportsInvariant
  OBVIOUS
<1>1. 0 \in ReportsClock
  BY ReportsNumbers DEF ReportsClock
<1>2. SinceState = 0
  BY <1>1, SinceNow DEF ReportsInit, SinceState
<1>3. ReportsTypeOK
  <2>1. connected \in BOOLEAN /\ steered \in BOOLEAN
    BY Zenon DEF ReportsInit
  <2>2. /\ state \in StateBytes /\ last_state = NeverSent /\ told = NeverSent
        /\ clock = 0 /\ last_state_ms = 0 /\ last_wheel_ms = 0 /\ pass = 0
        /\ late = 0 /\ silent = 0 /\ stale = 0
    BY DEF ReportsInit
  <2> QED
    BY <1>1, <2>1, <2>2, ReportsNumbers DEF ReportsTypeOK
<1>4. ToldInvariant /\ WheelInvariant
  BY DEF ReportsInit, ToldInvariant, WheelInvariant
<1>5. StateInvariant
  BY <1>2, ReportsNumbers DEF ReportsInit, StateInvariant
<1> QED
  BY <1>3, <1>4, <1>5 DEF ReportsInvariant

\* The numbers of the invariant.
LEMMA ReportsSince ==
    ReportsTypeOK => /\ SinceState \in Int /\ 0 <= SinceState /\ SinceState < ClockWrap
                     /\ SinceWheel \in Int /\ 0 <= SinceWheel /\ SinceWheel < ClockWrap
<1> SUFFICES ASSUME ReportsTypeOK
             PROVE  /\ SinceState \in Int /\ 0 <= SinceState /\ SinceState < ClockWrap
                    /\ SinceWheel \in Int /\ 0 <= SinceWheel /\ SinceWheel < ClockWrap
  OBVIOUS
<1>1. clock \in ReportsClock /\ last_state_ms \in ReportsClock /\ last_wheel_ms \in ReportsClock
  BY DEF ReportsTypeOK
<1>2. SinceState \in ReportsClock /\ SinceWheel \in ReportsClock
  BY <1>1, SinceOnClock DEF SinceState, SinceWheel
<1> QED
  BY <1>2, ReportsNumbers DEF ReportsClock

\* A pass of the loop reports, fails to, or finds nothing due.
LEMMA ServiceStep == ReportsInvariant /\ Service => ReportsInvariant'
<1> SUFFICES ASSUME ReportsInvariant, Service PROVE ReportsInvariant'
  OBVIOUS
<1>1. /\ pass' = 0 /\ state' = state /\ connected' = connected /\ clock' = clock
      /\ ReportsTypeOK /\ clock \in ReportsClock
  BY DEF Service, ReportsInvariant, ReportsTypeOK
<1>2. /\ SinceState \in Int /\ 0 <= SinceState
      /\ late \in Nat /\ silent \in Nat /\ stale \in Nat /\ pass \in 0 .. MaxPass
  BY <1>1, ReportsSince DEF ReportsTypeOK
<1>3. (clock - clock) % ClockWrap = 0
  BY <1>1, SinceNow
<1>4. ReportsTypeOK'
  <2>1. /\ late' \in {0, late} /\ silent' \in {0, silent} /\ stale' \in {0, stale}
        /\ steered' \in {TRUE, FALSE, steered}
        /\ last_state' \in {state, last_state} /\ told' \in {state, told}
        /\ last_state_ms' \in {clock, last_state_ms}
        /\ last_wheel_ms' \in {clock, last_wheel_ms}
    BY <1>1, Zenon DEF Service, StateReport, WheelReport, ReportFails, NoReport
  <2>2. connected' \in BOOLEAN /\ steered' \in BOOLEAN
    BY <1>1, <2>1, Zenon DEF ReportsTypeOK
  <2>3. /\ state' \in StateBytes /\ {last_state', told'} \subseteq StateBytes \cup {NeverSent}
        /\ clock' \in ReportsClock /\ last_state_ms' \in ReportsClock
        /\ last_wheel_ms' \in ReportsClock
    BY <1>1, <2>1 DEF ReportsTypeOK
  <2>4. late' \in Nat /\ silent' \in Nat /\ stale' \in Nat /\ pass' \in 0 .. MaxPass
    BY <1>1, <1>2, <2>1, ReportsNumbers
  <2> QED
    BY <2>2, <2>3, <2>4 DEF ReportsTypeOK
<1>5. ToldInvariant'
  BY <1>1
  DEF Service, StateReport, WheelReport, ReportFails, NoReport, ToldInvariant, ReportsInvariant
\* What is not due has not been waited for.
<1>6. ~StateDue => SinceState < Refresh /\ (late > 0 => SinceState < Pace)
  <2>1. late > 0 => state # last_state
    BY <1>2 DEF ReportsInvariant, ToldInvariant
  <2> QED
    BY <1>2, <2>1, ReportsNumbers DEF StateDue
<1>7. StateInvariant'
  <2>1. CASE StateReport \/ ReportFails
    <3>1. ReportsTypeOK' => (SinceState \in Int /\ 0 <= SinceState)'
      BY ReportsSince, PTL
    <3>2. late' = 0 /\ silent' = 0
      BY <2>1 DEF StateReport, ReportFails
    <3> QED
      BY <1>1, <1>4, <3>1, <3>2, ReportsNumbers DEF StateInvariant
  <2>2. CASE WheelReport \/ (NoReport /\ connected)
    <3>1. /\ ~StateDue /\ late' = late /\ silent' = silent /\ last_state_ms' = last_state_ms
      BY <2>2 DEF WheelReport, WheelDue, NoReport
    <3>2. SinceState' = SinceState
      BY <1>1, <3>1 DEF SinceState
    <3> QED
      BY <1>1, <1>2, <1>6, <3>1, <3>2, ReportsNumbers DEF StateInvariant, ReportsInvariant
  <2>3. CASE NoReport /\ ~connected
    <3>1. late' = 0 /\ silent' = 0 /\ SinceState' = SinceState
      BY <1>1, <2>3 DEF NoReport, SinceState, ReportsInvariant, ToldInvariant
    <3> QED
      BY <1>1, <1>2, <3>1, ReportsNumbers DEF StateInvariant
  <2> QED
    BY <2>1, <2>2, <2>3 DEF Service
<1>8. WheelInvariant'
  <2> SUFFICES ASSUME steered' PROVE WheelInvariant'
    BY DEF WheelInvariant
  <2>1. CASE StateReport
    <3>1. SinceState' = 0 /\ SinceWheel' = SinceWheel /\ stale' = stale /\ steered' = steered
      BY <1>1, <1>3, <2>1 DEF StateReport, SinceState, SinceWheel
    \* The state is not told in two passes on end.
    <3>2. SinceState # pass
      BY <1>2, <2>1, ReportsNumbers DEF StateReport, StateDue
    <3>3. SinceWheel = stale /\ stale <= MaxPass
      BY <1>2, <3>1, <3>2, ReportsNumbers DEF WheelInvariant, ReportsInvariant
    <3> QED
      BY <1>1, <1>2, <3>1, <3>3, ReportsNumbers DEF WheelInvariant
  <2>2. CASE WheelReport
    <3>1. stale' = 0 /\ SinceWheel' = 0
      BY <1>1, <1>3, <2>2 DEF WheelReport, SinceWheel
    <3> QED
      BY <1>1, <3>1 DEF WheelInvariant
  <2>3. CASE ReportFails
    BY <2>3 DEF ReportFails
  <2>4. CASE NoReport
    <3>1. steered /\ SinceWheel' = SinceWheel /\ stale' = stale
      BY <1>1, <2>4 DEF NoReport, SinceWheel
    <3>2. clock = last_wheel_ms
      BY <2>4, <3>1 DEF NoReport, WheelDue, ReportsInvariant, ToldInvariant
    <3>3. SinceWheel = 0
      BY <1>3, <3>2 DEF SinceWheel
    <3>4. stale = SinceWheel
      BY <3>1 DEF ReportsInvariant, WheelInvariant
    <3> QED
      BY <1>1, <3>1, <3>3, <3>4 DEF WheelInvariant
  <2> QED
    BY <2>1, <2>2, <2>3, <2>4 DEF Service
<1> QED
  BY <1>4, <1>5, <1>7, <1>8 DEF ReportsInvariant

LEMMA PassingStep == ReportsInvariant /\ MillisecondPasses => ReportsInvariant'
<1> SUFFICES ASSUME ReportsInvariant, MillisecondPasses PROVE ReportsInvariant'
  OBVIOUS
<1> DEFINE s == SinceState
           w == SinceWheel
<1>1. /\ pass < MaxPass /\ pass' = pass + 1 /\ clock' = (clock + 1) % ClockWrap
      /\ state' = state /\ connected' = connected /\ last_state' = last_state
      /\ last_state_ms' = last_state_ms /\ last_wheel_ms' = last_wheel_ms
      /\ told' = told /\ steered' = steered
  BY DEF MillisecondPasses
<1>2. /\ late' = IF told \notin {NeverSent, state} THEN late + 1 ELSE 0
      /\ silent' = IF connected THEN silent + 1 ELSE 0
      /\ stale' = IF steered THEN stale + 1 ELSE 0
  BY DEF MillisecondPasses
<1>3. /\ late \in Nat /\ silent \in Nat /\ stale \in Nat /\ pass \in 0 .. MaxPass
      /\ ReportsTypeOK
  BY DEF ReportsInvariant, ReportsTypeOK
<1>4. /\ clock' \in ReportsClock
      /\ SinceState' = IF s = ClockWrap - 1 THEN 0 ELSE s + 1
      /\ SinceWheel' = IF w = ClockWrap - 1 THEN 0 ELSE w + 1
  BY <1>1, <1>3, SinceTicks DEF ReportsTypeOK, SinceState, SinceWheel
<1>5. s \in Int /\ 0 <= s /\ s < ClockWrap /\ w \in Int /\ 0 <= w /\ w < ClockWrap
  BY <1>3, ReportsSince
<1>6. late' \in Nat /\ silent' \in Nat /\ stale' \in Nat /\ pass' \in 0 .. MaxPass
  BY <1>1, <1>2, <1>3, ReportsNumbers
<1>7. ReportsTypeOK'
  BY <1>1, <1>3, <1>4, <1>6, Zenon DEF ReportsTypeOK
<1>8. ToldInvariant'
  BY <1>1, <1>2 DEF ReportsInvariant, ToldInvariant
<1>9. /\ late <= pass \/ s < Pace + pass
      /\ late <= s + MaxPass
      /\ silent <= pass \/ s < Refresh + pass
      /\ silent <= s + MaxPass
      /\ steered => w = stale /\ (stale <= pass \/ (s = pass /\ stale <= MaxPass + pass))
  BY DEF ReportsInvariant, StateInvariant, WheelInvariant
<1> HIDE DEF s, w
<1>10. StateInvariant'
  <2>1. late' \in {0, late + 1} /\ silent' \in {0, silent + 1}
    BY <1>2
  <2> QED
    BY <1>1, <1>3, <1>4, <1>5, <1>9, <2>1, ReportsNumbers DEF StateInvariant
<1>11. WheelInvariant'
  <2> SUFFICES ASSUME steered PROVE WheelInvariant'
    BY <1>1 DEF WheelInvariant
  <2>1. stale' = stale + 1 /\ w = stale
    BY <1>2, <1>9
  <2> QED
    BY <1>1, <1>3, <1>4, <1>5, <1>9, <2>1, ReportsNumbers DEF WheelInvariant
<1> QED
  BY <1>7, <1>8, <1>10, <1>11 DEF ReportsInvariant

LEMMA ReportsInvariantStep == ReportsInvariant /\ [ReportsNext]_reportVars => ReportsInvariant'
<1> SUFFICES ASSUME ReportsInvariant, [ReportsNext]_reportVars PROVE ReportsInvariant'
  OBVIOUS
<1>1. CASE Service
  BY <1>1, ServiceStep
<1>2. CASE WheelChanges
  <2>1. /\ connected' = connected /\ clock' = clock /\ pass' = pass
        /\ last_state' = last_state /\ last_state_ms' = last_state_ms
        /\ last_wheel_ms' = last_wheel_ms /\ told' = told /\ silent' = silent
        /\ steered' = steered /\ stale' = stale
        /\ state' \in StateBytes /\ late' = IF state' = told THEN 0 ELSE late
    BY <1>2 DEF WheelChanges, clockVars
  <2>2. late' \in {0, late} /\ late \in Nat /\ pass \in 0 .. MaxPass
    BY <2>1 DEF ReportsInvariant, ReportsTypeOK
  <2>3. SinceState' = SinceState /\ SinceWheel' = SinceWheel
    BY <2>1 DEF SinceState, SinceWheel
  <2>4. ReportsTypeOK'
    BY <2>1, <2>2, Zenon DEF ReportsInvariant, ReportsTypeOK
  <2>5. ToldInvariant' /\ WheelInvariant'
    BY <2>1, <2>3 DEF ReportsInvariant, ToldInvariant, WheelInvariant
  <2>6. StateInvariant'
    <3>1. SinceState \in Int /\ 0 <= SinceState
      BY ReportsSince DEF ReportsInvariant
    <3> QED
      BY <2>1, <2>2, <2>3, <3>1, ReportsNumbers DEF ReportsInvariant, StateInvariant
  <2> QED
    BY <2>4, <2>5, <2>6 DEF ReportsInvariant
<1>3. CASE Connection
  <2>1. /\ clock' = clock /\ pass' = pass /\ state' = state
        /\ last_state' = last_state /\ last_state_ms' = last_state_ms
        /\ last_wheel_ms' = last_wheel_ms /\ told' = NeverSent /\ late' = 0 /\ silent' = 0
        /\ ~steered' /\ stale' = 0
    BY <1>3 DEF Connection, clockVars
  <2>2. ReportsTypeOK'
    <3>1. connected' \in BOOLEAN /\ steered' \in BOOLEAN
      BY <1>3, Zenon DEF Connection
    <3> QED
      BY <2>1, <3>1, Zenon, 0 \in Nat DEF ReportsInvariant, ReportsTypeOK
  <2>3. ToldInvariant' /\ WheelInvariant'
    BY <2>1 DEF ToldInvariant, WheelInvariant
  <2>4. StateInvariant'
    <3>1. SinceState' = SinceState /\ SinceState \in Int /\ 0 <= SinceState
      BY <2>1, ReportsSince DEF ReportsInvariant, SinceState
    <3>2. pass \in Int /\ 0 <= pass
      BY ReportsNumbers DEF ReportsInvariant, ReportsTypeOK
    <3> QED
      BY <2>1, <3>1, <3>2, ReportsNumbers DEF StateInvariant
  <2> QED
    BY <2>2, <2>3, <2>4 DEF ReportsInvariant
<1>4. CASE MillisecondPasses
  BY <1>4, PassingStep
<1>5. CASE UNCHANGED reportVars
  BY <1>5
  DEF reportVars, clockVars, ReportsInvariant, ReportsTypeOK, ToldInvariant, StateInvariant,
      WheelInvariant, SinceState, SinceWheel
<1> QED
  BY <1>1, <1>2, <1>3, <1>4, <1>5 DEF ReportsNext

LEMMA ReportsInductive == ReportsSpec => []ReportsInvariant
BY ReportsInvariantInit, ReportsInvariantStep, PTL DEF ReportsSpec

\* A connected host is told of every state that lasts, and hears of the state
\* regularly, for every pace of the reports and however often it reconnects.
THEOREM HostTold == ReportsSpec => []HostIsTold
<1>1. ReportsInvariant => HostIsTold
  <2> SUFFICES ASSUME ReportsInvariant PROVE HostIsTold
    OBVIOUS
  <2>1. SinceState \in Int
    BY ReportsSince DEF ReportsInvariant
  <2> QED
    BY <2>1, ReportsNumbers DEF ReportsInvariant, ReportsTypeOK, StateInvariant, HostIsTold
<1> QED
  BY <1>1, ReportsInductive, PTL

\* The steering is not held up for more than two passes of the loop, however
\* often the state changes.
THEOREM SteeringKept == ReportsSpec => []SteeringKeepsUp
<1>1. ReportsInvariant => SteeringKeepsUp
  BY ReportsNumbers
  DEF ReportsInvariant, ReportsTypeOK, ToldInvariant, WheelInvariant, SteeringKeepsUp
<1> QED
  BY <1>1, ReportsInductive, PTL

=============================================================================
