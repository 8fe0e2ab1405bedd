----------------------------- MODULE ConfigFlow ------------------------------
(***************************************************************************)
(* The four copies of the configuration and the ways between them:         *)
(*                                                                         *)
(*   nvs        the record in flash, written by the loop task only;        *)
(*   running    the control task's config, what the wheel works with;      *)
(*   published  what configuration_snapshot returns, to the host and to    *)
(*              capture-zero;                                              *)
(*   in flight  pending_configs and the replace_config commands of a host  *)
(*              update, paddle_configs_to_save of a centering gesture.     *)
(*                                                                         *)
(* A host update is queued twice, once to be saved and once to be applied; *)
(* a gesture is applied at once and queued to be saved.  Power may fail at *)
(* any time.  The snapshot is atomic (module Seqlock) and so are the       *)
(* queues (module SpscQueue).                                              *)
(***************************************************************************)
EXTENDS Naturals, Sequences

CONSTANTS
    Limits,             \* gains and limits, as one value each
    Angles,             \* raw angles the wheel may be at
    DefaultRecord,      \* safe_default_config()
    NoRecord,           \* no valid record in flash
    PassiveWheelMode,
    QueueCapacity, PendingCapacity, PaddleCapacity,
    SaveOutcomes,       \* whether a save may succeed, may fail
    MaxUpdates,         \* bound: host updates
    MaxGestures,        \* bound: centering gestures
    MaxReboots          \* bound: power failures

Records == [limits : Limits, zero : Angles]

ASSUME ConfigFlowAssumption ==
    /\ DefaultRecord \in Records
    /\ NoRecord \notin Records
    /\ PassiveWheelMode \in BOOLEAN
    /\ {QueueCapacity, PendingCapacity, PaddleCapacity} \subseteq Nat \ {0}
    /\ SaveOutcomes \subseteq BOOLEAN
    /\ {MaxUpdates, MaxGestures, MaxReboots} \subseteq Nat

VARIABLES
    nvs,
    running,
    published,
    changed,        \* configuration_changed, while the queue is drained
    auto_center,    \* auto_center_on_first_sample
    commands,       \* the records of the replace_config commands queued
    pending,        \* pending_configs
    paddle,         \* paddle_configs_to_save
    host,           \* what queue_config_update still has to do
    loop,           \* what the loop task still has to do
    lost,           \* history: a save failed or a queue was full, and reported
    sources,        \* history: what set the running record since boot, in order
    spent           \* how much of each bound is used

vars == <<nvs, running, published, changed, auto_center, commands, pending,
          paddle, host, loop, lost, sources, spent>>
controlVars == <<running, published, changed, auto_center>>
queueVars == <<commands, pending, paddle>>

IdleHost == [at |-> "idle", record |-> DefaultRecord]
IdleLoop == [at |-> "pending", saving |-> FALSE, record |-> DefaultRecord]

\* Configuration::load and the start of control_task.
Load(record) == IF record = NoRecord THEN DefaultRecord ELSE record

Boot(record) ==
    /\ running' = Load(record)
    /\ published' = Load(record)
    /\ changed' = FALSE
    /\ auto_center' = (record = NoRecord /\ PassiveWheelMode)
    /\ commands' = <<>>
    /\ pending' = <<>>
    /\ paddle' = <<>>
    /\ host' = IdleHost
    /\ loop' = IdleLoop
    /\ lost' = FALSE
    /\ sources' = <<>>

Init ==
    /\ nvs \in Records \cup {NoRecord}
    /\ running = Load(nvs)
    /\ published = Load(nvs)
    /\ changed = FALSE
    /\ auto_center = (nvs = NoRecord /\ PassiveWheelMode)
    /\ commands = <<>>
    /\ pending = <<>>
    /\ paddle = <<>>
    /\ host = IdleHost
    /\ loop = IdleLoop
    /\ lost = FALSE
    /\ sources = <<>>
    /\ spent = [updates |-> 0, gestures |-> 0, reboots |-> 0]

-----------------------------------------------------------------------------
(* The USB task.                                                           *)

\* parse_vendor: a full update, or capture-zero on top of a snapshot.
ReceiveUpdate(record) ==
    /\ host.at = "idle"
    /\ spent.updates < MaxUpdates
    /\ spent' = [spent EXCEPT !.updates = @ + 1]
    /\ host' = [at |-> "push_pending", record |-> record]
    /\ UNCHANGED <<nvs, controlVars, queueVars, loop, lost, sources>>

CaptureZero(angle) == ReceiveUpdate([published EXCEPT !.zero = angle])

\* Mutant: a copy that does not fit is dropped and the update carried on.
PushPendingUnchecked ==
    /\ host.at = "push_pending"
    /\ pending' = IF Len(pending) = PendingCapacity THEN pending
                  ELSE Append(pending, host.record)
    /\ host' = [host EXCEPT !.at = "push_command"]
    /\ UNCHANGED <<nvs, controlVars, commands, paddle, loop, lost, sources, spent>>

PushPending ==
    /\ host.at = "push_pending"
    /\ IF Len(pending) = PendingCapacity
         THEN host' = IdleHost /\ lost' = TRUE /\ UNCHANGED pending
         ELSE /\ pending' = Append(pending, host.record)
              /\ host' = [host EXCEPT !.at = "push_command"]
              /\ UNCHANGED lost
    /\ UNCHANGED <<nvs, controlVars, commands, paddle, loop, sources, spent>>

\* When the command does not fit, its record is saved and never applied.
PushCommand ==
    /\ host.at = "push_command"
    /\ IF Len(commands) = QueueCapacity
         THEN lost' = TRUE /\ UNCHANGED commands
         ELSE commands' = Append(commands, host.record) /\ UNCHANGED lost
    /\ host' = IdleHost
    /\ UNCHANGED <<nvs, controlVars, pending, paddle, loop, sources, spent>>

-----------------------------------------------------------------------------
(* The control task.                                                       *)

ApplyUpdate ==
    /\ commands # <<>>
    /\ running' = Head(commands)
    /\ commands' = Tail(commands)
    /\ changed' = TRUE
    /\ sources' = Append(sources, "host")
    /\ UNCHANGED <<nvs, published, auto_center, pending, paddle, host, loop, lost, spent>>

\* The queue is drained: publish once for all updates.
FinishDrain ==
    /\ changed
    /\ commands = <<>>
    /\ published' = running
    /\ changed' = FALSE
    /\ UNCHANGED <<nvs, running, auto_center, queueVars, host, loop, lost, sources, spent>>

\* Without a saved record a passive wheel centers on its first healthy
\* sample, for this boot only.
FirstSample(angle) ==
    /\ ~changed
    /\ auto_center
    /\ running' = [running EXCEPT !.zero = angle]
    /\ published' = running'
    /\ auto_center' = FALSE
    /\ sources' = Append(sources, "sample")
    /\ UNCHANGED <<nvs, changed, queueVars, host, loop, lost, spent>>

\* Mutant: the snapshot keeps the former center.
GestureUnpublished(angle) ==
    /\ ~changed
    /\ spent.gestures < MaxGestures
    /\ spent' = [spent EXCEPT !.gestures = @ + 1]
    /\ running' = [running EXCEPT !.zero = angle]
    /\ auto_center' = FALSE
    /\ sources' = Append(sources, "gesture")
    /\ IF Len(paddle) = PaddleCapacity
         THEN lost' = TRUE /\ UNCHANGED paddle
         ELSE paddle' = Append(paddle, running') /\ UNCHANGED lost
    /\ UNCHANGED <<nvs, published, changed, commands, pending, host, loop>>

\* Both paddles were held for two seconds.
Gesture(angle) ==
    /\ ~changed
    /\ spent.gestures < MaxGestures
    /\ spent' = [spent EXCEPT !.gestures = @ + 1]
    /\ running' = [running EXCEPT !.zero = angle]
    /\ published' = running'
    /\ auto_center' = FALSE
    /\ sources' = Append(sources, "gesture")
    /\ IF Len(paddle) = PaddleCapacity
         THEN lost' = TRUE /\ UNCHANGED paddle
         ELSE paddle' = Append(paddle, running') /\ UNCHANGED lost
    /\ UNCHANGED <<nvs, changed, commands, pending, host, loop>>

-----------------------------------------------------------------------------
(* The loop task: empty one queue, then the other, saving what it pops.    *)

\* Mutant: the second queue is only looked at while the first has entries.
PopOrMoveOnNested ==
    /\ ~loop.saving
    /\ \/ /\ loop.at = "pending" /\ pending # <<>>
          /\ loop' = [at |-> "paddle", saving |-> TRUE, record |-> Head(pending)]
          /\ pending' = Tail(pending)
          /\ UNCHANGED paddle
       \/ /\ loop.at = "paddle" /\ paddle # <<>>
          /\ loop' = [loop EXCEPT !.saving = TRUE, !.record = Head(paddle)]
          /\ paddle' = Tail(paddle)
          /\ UNCHANGED pending
       \/ /\ loop.at = "paddle" /\ paddle = <<>>
          /\ loop' = [loop EXCEPT !.at = "pending"]
          /\ UNCHANGED <<pending, paddle>>
    /\ UNCHANGED <<nvs, controlVars, commands, host, lost, sources, spent>>

PopOrMoveOn ==
    /\ ~loop.saving
    /\ \/ /\ loop.at = "pending" /\ pending # <<>>
          /\ loop' = [loop EXCEPT !.saving = TRUE, !.record = Head(pending)]
          /\ pending' = Tail(pending)
          /\ UNCHANGED paddle
       \/ /\ loop.at = "paddle" /\ paddle # <<>>
          /\ loop' = [loop EXCEPT !.saving = TRUE, !.record = Head(paddle)]
          /\ paddle' = Tail(paddle)
          /\ UNCHANGED pending
       \/ /\ loop.at = "pending" /\ pending = <<>>
          /\ loop' = [loop EXCEPT !.at = "paddle"]
          /\ UNCHANGED <<pending, paddle>>
       \/ /\ loop.at = "paddle" /\ paddle = <<>>
          /\ loop' = [loop EXCEPT !.at = "pending"]
          /\ UNCHANGED <<pending, paddle>>
    /\ UNCHANGED <<nvs, controlVars, commands, host, lost, sources, spent>>

\* Configuration::save.  One that fails may have written the blob already
\* (nvs_commit fails after nvs_set_blob); either way a fault is requested.
Save(succeeds) ==
    /\ loop.saving
    /\ IF succeeds
         THEN nvs' = loop.record /\ UNCHANGED lost
         ELSE nvs' \in {nvs, loop.record} /\ lost' = TRUE
    /\ loop' = [loop EXCEPT !.saving = FALSE]
    /\ UNCHANGED <<controlVars, queueVars, host, sources, spent>>

\* Power fails, and comes back.
Reboot ==
    /\ spent.reboots < MaxReboots
    /\ spent' = [spent EXCEPT !.reboots = @ + 1]
    /\ Boot(nvs)
    /\ UNCHANGED nvs

-----------------------------------------------------------------------------

HostStep == PushPending \/ PushCommand
DrainStep == ApplyUpdate \/ FinishDrain
LoopStep == PopOrMoveOn \/ \E succeeds \in SaveOutcomes : Save(succeeds)

Next ==
    \/ \E record \in Records : ReceiveUpdate(record)
    \/ \E angle \in Angles : CaptureZero(angle) \/ FirstSample(angle) \/ Gesture(angle)
    \/ HostStep
    \/ DrainStep
    \/ LoopStep
    \/ Reboot

Spec == Init /\ [][Next]_vars

\* Every task gets to run; hosts, drivers and power supplies owe us nothing.
LiveSpec == Spec /\ WF_vars(HostStep) /\ WF_vars(DrainStep) /\ WF_vars(LoopStep)

-----------------------------------------------------------------------------

TypeOK ==
    /\ nvs \in Records \cup {NoRecord}
    /\ running \in Records
    /\ published \in Records
    /\ changed \in BOOLEAN
    /\ auto_center \in BOOLEAN
    /\ commands \in Seq(Records) /\ Len(commands) <= QueueCapacity
    /\ pending \in Seq(Records) /\ Len(pending) <= PendingCapacity
    /\ paddle \in Seq(Records) /\ Len(paddle) <= PaddleCapacity
    /\ host \in [at : {"idle", "push_pending", "push_command"}, record : Records]
    /\ loop \in [at : {"pending", "paddle"}, saving : BOOLEAN, record : Records]
    /\ lost \in BOOLEAN
    /\ sources \in Seq({"host", "sample", "gesture"})

Settled ==
    /\ commands = <<>> /\ pending = <<>> /\ paddle = <<>>
    /\ host.at = "idle"
    /\ ~changed
    /\ ~loop.saving

From(source) == \E i \in 1 .. Len(sources) : sources[i] = source

\* Updates of one kind, from the host or by gesture, end up in flash as the
\* wheel runs with them, unless a failure was reported.  Without either the
\* wheel runs with what it loaded, or with a center it never saves.
StorageFollows ==
    Settled /\ ~lost =>
        /\ sources = <<>> => running = Load(nvs)
        /\ From("host") /\ ~From("gesture") /\ ~From("sample") => running = nvs
        /\ From("gesture") /\ ~From("host") => running = nvs

\* What a host reads, and builds its next update on, is what the wheel runs
\* with, except while the control task drains its queue.
PublishedFollows == ~changed => published = running

\* Whatever is under way comes to rest.
AlwaysSettles == []<>Settled

\* src/arduino-port/README.md:11 "The axis immediately snaps to zero and the
\* AS5600 angle is saved to NVS": once all is at rest after a gesture and
\* nothing failed, the flash holds the center the wheel runs with.  It does
\* not when a host update, queued and applied just before the gesture, is
\* saved after it.
GestureIsSaved ==
    Settled /\ ~lost /\ sources # <<>> /\ sources[Len(sources)] = "gesture"
      => nvs # NoRecord /\ nvs.zero = running.zero

=============================================================================
