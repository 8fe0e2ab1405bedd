--------------------------- MODULE MCBuildingBlocks ---------------------------
(***************************************************************************)
(* Small instances, for TLC, of the components that share no state with    *)
(* each other and that ControlCore and ConfigFlow take as atomic: the      *)
(* queue, the sequence locks, the motor output, the input reports, and the *)
(* force of one effect.  Interleaving them would show nothing, so each     *)
(* behaviour is one of its `subject`, and the others stay where they       *)
(* began.                                                                  *)
(***************************************************************************)
EXTENDS MCEffectShape, MotorOutput, SpscQueue, Seqlock, InputReports

VARIABLE subject

blockVars == <<shapeVars, motorVars, queueVars, seqlockVars, reportVars, subject>>

Subjects == {"shape", "motor", "queue", "seqlock", "reports"}

Limits(gain, strongest, duty, slew) ==
    [global_gain |-> gain, maximum_force |-> strongest, maximum_duty |-> duty,
     duty_slew_per_tick |-> slew]

\* Full drive in uneven slew steps, a low duty, and half gain.
ThreeConfigs == {Limits(4, 4, 4, 3), Limits(4, 3, 1, 1), Limits(2, 4, 4, 2)}
SomeForces == {-4, -1, 0, 2, 4}

IdleEffect == CHOOSE e \in ShapedEffects : TRUE
IdleState == CHOOSE b \in StateBytes : TRUE

BlockInit ==
    /\ subject \in Subjects
    /\ ShapeInit /\ MotorInit /\ QueueInit /\ SeqlockInit /\ ReportsInit
    /\ subject # "shape" => effect = IdleEffect /\ motion = 0
    /\ subject # "motor" => motor.initialized /\ config = Limits(4, 4, 4, 3)
    /\ subject # "reports" => state = IdleState

BlockNext ==
    /\ UNCHANGED subject
    /\ CASE subject = "shape"   ->
              Evaluate    /\ UNCHANGED <<motorVars, queueVars, seqlockVars, reportVars>>
         [] subject = "motor"   ->
              MotorNext   /\ UNCHANGED <<shapeVars, queueVars, seqlockVars, reportVars>>
         [] subject = "queue"   ->
              QueueNext   /\ UNCHANGED <<shapeVars, motorVars, seqlockVars, reportVars>>
         [] subject = "seqlock" ->
              SeqlockNext /\ UNCHANGED <<shapeVars, motorVars, queueVars, reportVars>>
         [] subject = "reports" ->
              ReportsNext /\ UNCHANGED <<shapeVars, motorVars, queueVars, seqlockVars>>

BlockSpec ==
    /\ BlockInit /\ [][BlockNext]_blockVars
    /\ WF_motorVars(subject = "motor" /\ Call)
    /\ WF_queueVars(subject = "queue" /\ PushStep)
    /\ WF_queueVars(subject = "queue" /\ PopStep)
    /\ WF_seqlockVars(subject = "seqlock" /\ WriterStep)
    /\ WF_seqlockVars(subject = "seqlock" /\ ReaderStep)
    /\ WF_seqlockVars(subject = "seqlock" /\ FinishCallback)
=============================================================================
