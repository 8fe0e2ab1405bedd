---------------------------- MODULE EffectPlayback ----------------------------
(***************************************************************************)
(* Effects from the host to the motor: the USB task keeps its own table of *)
(* effects (g_effects) and queues every change of it; the control task     *)
(* applies the queue to its engine, then ticks it.  The two tables are     *)
(* never compared, and a command that does not fit the queue is dropped.   *)
(*                                                                         *)
(* A build that drives, with effects only: who may enable the actuators is *)
(* the subject of ControlCore, and a revocation between two ticks is a     *)
(* choice of TickEngine here.  The dropped command's latched fault is      *)
(* there, too.                                                             *)
(***************************************************************************)
EXTENDS EffectEngine, Sequences, FiniteSets

CONSTANTS
    Downloads,          \* the tables a host may have downloaded so far
    QueueCapacity,      \* usable entries of commands
    Revocations,        \* whether a tick may find its enable revoked
    MaxLag,             \* bound: milliseconds from one tick to the next
    MaxReports          \* bound: reports of the host

ASSUME EffectPlaybackAssumption ==
    /\ {QueueCapacity, MaxLag} \subseteq Nat \ {0}
    /\ Downloads \subseteq [Slots -> Definitions \cup {NoDefinition}]
    /\ Revocations \subseteq BOOLEAN
    /\ MaxReports \in Nat

VARIABLES
    table,      \* g_effects: the definition of each slot
    block_load, \* g_block_load: the answer to the last creation
    commands,   \* those that concern the engine
    engine,
    now,        \* esp_timer_get_time in milliseconds
    lag,        \* milliseconds since the last tick
    stale,      \* history: slots whose last definition was dropped
    age,        \* history: for how long an effect has been playing, unpaused
    reports     \* reports of the host so far

vars == <<table, block_load, commands, engine, now, lag, stale, age, reports>>
hostVars == <<table, block_load, stale, reports>>
controlVars == <<engine, now, lag, age>>

SlotKinds == {"set_effect", "free_effect", "start_effect", "stop_effect"}
EngineKinds == {"stop_all", "reset", "enable_actuators", "disable_actuators", "pause", "resume"}

CommandSet ==
    [type : SlotKinds \cup EngineKinds, index : Slots, loops : Loops \cup {1},
     solo : BOOLEAN, effect : Definitions \cup {NoDefinition}]

EngineCommand(kind) ==
    [type |-> kind, index |-> 1, loops |-> 1, solo |-> FALSE, effect |-> NoDefinition]
SlotCommand(kind, i) == [EngineCommand(kind) EXCEPT !.index = i]

BlockLoads ==
    [index : 0 .. SlotCount, status : {"success", "full", "error"}, available : 0 .. SlotCount]
Refusal(status, available) == [index |-> 0, status |-> status, available |-> available]

\* Some time after boot: the engine has what was downloaded, and its
\* actuators may have been enabled; the last request of a block was one of
\* an unknown type.
Init ==
    /\ table \in Downloads
    /\ block_load = Refusal("error", 0)
    /\ commands = <<>>
    /\ \E enabled \in BOOLEAN :
          engine = [InitialEngine EXCEPT
                      !.enabled = enabled,
                      !.effects = [i \in Slots |->
                                     [BlankEffect EXCEPT !.definition = table[i]]]]
    /\ now = 0
    /\ lag = 0
    /\ stale = {}
    /\ age = [i \in Slots |-> 0]
    /\ reports = 0

-----------------------------------------------------------------------------
(* The USB task.                                                           *)

Fits == Len(commands) < QueueCapacity

Queue(command) == commands' = IF Fits THEN Append(commands, command) ELSE commands

Report == reports < MaxReports /\ reports' = reports + 1 /\ UNCHANGED controlVars

\* Reports that change nothing in the table.
Control(kind) ==
    /\ Report
    /\ Queue(EngineCommand(kind))
    /\ UNCHANGED <<table, block_load, stale>>

\* Effect operation, of a slot the table knows.
Operate(i, kind, loops, solo) ==
    /\ Report
    /\ table[i].type # None
    /\ Queue([SlotCommand(kind, i) EXCEPT !.loops = loops, !.solo = solo])
    /\ UNCHANGED <<table, block_load, stale>>

FreeSlots(definitions) == {i \in Slots : definitions[i].type = None}

\* Mutant: the answer to a creation that was given up is the one prepared.
CreateEffectAnsweredFirst(type) ==
    /\ Report
    /\ \E i \in FreeSlots(table) :
          LET created == [table EXCEPT ![i] = NewDefinition(type)]
          IN  /\ \A j \in FreeSlots(table) : i <= j
              /\ Queue([SlotCommand("set_effect", i) EXCEPT !.effect = NewDefinition(type)])
              /\ table' = IF Fits THEN created ELSE table
              /\ block_load' = [index |-> i, status |-> "success",
                                available |-> Cardinality(FreeSlots(created))]
              /\ stale' = IF Fits THEN stale \ {i} ELSE stale

\* create_effect takes the first free slot, and gives it up again when the
\* definition cannot be queued.
CreateEffect(type) ==
    /\ Report
    /\ \E i \in FreeSlots(table) :
          LET created == [table EXCEPT ![i] = NewDefinition(type)]
          IN  /\ \A j \in FreeSlots(table) : i <= j
              /\ Queue([SlotCommand("set_effect", i) EXCEPT !.effect = NewDefinition(type)])
              /\ table' = IF Fits THEN created ELSE table
              /\ block_load' =
                    IF Fits THEN [index |-> i, status |-> "success",
                                  available |-> Cardinality(FreeSlots(created))]
                    ELSE Refusal("full", Cardinality(FreeSlots(table)))
              /\ stale' = IF Fits THEN stale \ {i} ELSE stale

\* Of an unknown type, or with every slot taken.
CreateNothing(status) ==
    /\ Report
    /\ status = "full" => FreeSlots(table) = {}
    /\ block_load' = Refusal(status, 0)
    /\ UNCHANGED <<table, commands, stale>>

\* The reports that set parameters change the table and then queue a copy;
\* when it does not fit the change stays in the table only.
SetParameters(i, definition) ==
    /\ Report
    /\ table[i].type = definition.type
    /\ table' = [table EXCEPT ![i] = definition]
    /\ Queue([SlotCommand("set_effect", i) EXCEPT !.effect = definition])
    /\ stale' = IF Fits THEN stale \ {i} ELSE stale \cup {i}
    /\ UNCHANGED block_load

\* Mutant: the slot is given up before it is known whether the command fits.
FreeBlockFirst(i) ==
    /\ Report
    /\ table[i].type # None
    /\ Queue(SlotCommand("free_effect", i))
    /\ table' = [table EXCEPT ![i] = NoDefinition]
    /\ stale' = IF Fits THEN stale \ {i} ELSE stale
    /\ UNCHANGED block_load

FreeBlock(i) ==
    /\ Report
    /\ table[i].type # None
    /\ Queue(SlotCommand("free_effect", i))
    /\ table' = IF Fits THEN [table EXCEPT ![i] = NoDefinition] ELSE table
    /\ stale' = IF Fits THEN stale \ {i} ELSE stale
    /\ UNCHANGED block_load

DeviceReset ==
    /\ Report
    /\ Queue(EngineCommand("reset"))
    /\ table' = IF Fits THEN [i \in Slots |-> NoDefinition] ELSE table
    /\ stale' = IF Fits THEN {} ELSE stale
    /\ UNCHANGED block_load

HostReport ==
    \/ \E kind \in EngineKinds \ {"reset"} : Control(kind)
    \/ \E i \in Slots, loops \in Loops, solo \in BOOLEAN :
          Operate(i, "start_effect", loops, solo)
    \/ \E i \in Slots : Operate(i, "stop_effect", 1, FALSE)
    \/ \E type \in Types : CreateEffect(type)
    \/ \E status \in {"full", "error"} : CreateNothing(status)
    \/ \E i \in Slots, definition \in Definitions : SetParameters(i, definition)
    \/ \E i \in Slots : FreeBlock(i)
    \/ DeviceReset

-----------------------------------------------------------------------------
(* The control task.                                                       *)

TimePasses ==
    /\ lag < MaxLag
    /\ now' = (now + 1) % Wrap
    /\ lag' = lag + 1
    /\ UNCHANGED <<hostVars, commands, engine, age>>

\* apply_command, as far as it concerns the engine.
Applied(command) ==
    LET i == command.index
    IN  CASE command.type = "set_effect"        -> UpdateDefinition(engine, i, command.effect)
          [] command.type = "free_effect"       -> FreeEffect(engine, i)
          [] command.type = "start_effect"      ->
                Start(engine, i, command.loops, command.solo, now)
          [] command.type = "stop_effect"       -> Stop(engine, i)
          [] command.type = "stop_all"          -> StopAll(engine)
          [] command.type = "reset"             -> InitialEngine
          [] command.type = "enable_actuators"  -> SetActuatorsEnabled(engine, TRUE)
          [] command.type = "disable_actuators" -> SetActuatorsEnabled(engine, FALSE)
          [] command.type = "pause"             -> SetPaused(engine, TRUE)
          [] command.type = "resume"            -> SetPaused(engine, FALSE)

\* Of what the engine will count for an effect that starts now, the time from
\* the last tick until now does not belong to it.
AgeAtStart ==
    IF engine.time_valid /\ ~engine.paused /\ ~engine.resume_pending
    THEN - Elapsed(now, engine.last_tick) ELSE 0

ApplyCommand ==
    /\ commands # <<>>
    /\ commands' = Tail(commands)
    /\ engine' = Applied(Head(commands))
    /\ age' = IF Head(commands).type = "start_effect"
                 /\ Allocated(engine.effects[Head(commands).index])
              THEN [age EXCEPT ![Head(commands).index] = AgeAtStart]
              ELSE age
    /\ UNCHANGED <<hostVars, now, lag>>

\* What a tick adds to the age of an effect; kept below 2 * Wrap.
Counted == IF engine.time_valid /\ ~engine.paused /\ ~engine.resume_pending
           THEN Elapsed(now, engine.last_tick) ELSE 0
Older(a) == IF a + Counted >= 2 * Wrap THEN a + Counted - Wrap ELSE a + Counted

\* The queue is empty; the epoch may have moved on, which disables the
\* engine before it is ticked.
TickEngine(revoked) ==
    LET checked == IF revoked THEN SetActuatorsEnabled(engine, FALSE) ELSE engine
    IN  /\ commands = <<>>
        /\ engine' = Tick(checked, now)
        /\ age' = [i \in Slots |-> IF checked.effects[i].playing THEN Older(age[i]) ELSE 0]
        /\ lag' = 0
        /\ UNCHANGED <<hostVars, commands, now>>

ControlStep == ApplyCommand \/ \E revoked \in Revocations : TickEngine(revoked)

-----------------------------------------------------------------------------

Next == HostReport \/ TimePasses \/ ControlStep

Spec == Init /\ [][Next]_vars

\* The control task runs, and so does the clock.
LiveSpec == Spec /\ WF_vars(ControlStep) /\ WF_vars(TimePasses)

-----------------------------------------------------------------------------

TypeOK ==
    /\ table \in [Slots -> Definitions \cup {NoDefinition}]
    /\ block_load \in BlockLoads
    /\ commands \in Seq(CommandSet) /\ Len(commands) <= QueueCapacity
    /\ engine \in Engines
    /\ now \in Clock
    /\ lag \in 0 .. MaxLag
    /\ stale \subseteq Slots
    /\ age \in [Slots -> Int]
    /\ reports \in 0 .. MaxReports

\* The definition slot i has once the queue is drained: that of the last
\* command that changes it, or else the engine's.
Changes(command, i) ==
    \/ command.type \in {"set_effect", "free_effect"} /\ command.index = i
    \/ command.type = "reset"

FinalDefinition(i) ==
    LET changing == {n \in 1 .. Len(commands) : Changes(commands[n], i)}
    IN  IF changing = {} THEN engine.effects[i].definition
        ELSE LET last == CHOOSE n \in changing : \A m \in changing : m <= n
             IN  IF commands[last].type = "set_effect"
                 THEN commands[last].effect ELSE NoDefinition

\* The engine, once it has caught up with the queue, has the effects the
\* host was told it has, whatever was dropped in between; with the
\* parameters it was given, too, unless their last change was dropped.
TablesAgree ==
    \A i \in Slots :
        /\ FinalDefinition(i).type = table[i].type
        /\ i \notin stale => FinalDefinition(i) = table[i]

BlockLoadHolds ==
    LET free == {i \in Slots : FinalDefinition(i).type = None}
    IN  /\ block_load.available = Cardinality(free)
        /\ block_load.status = "success" =>
              /\ block_load.index \notin free
              /\ FinalDefinition(block_load.index) = table[block_load.index]

\* What a host is told of a block it asked for is what the engine will have
\* once it has caught up with the queue: that block, and as many more free
\* ones as it is told.  (Of an unknown type it is told nothing more.)
AnswersAgree ==
    [][block_load' # block_load /\ block_load'.status # "error" => BlockLoadHolds']_vars

\* Where started_at_ms stands to the other clock readings while an effect
\* plays: its age before the last tick, or before the pause.  An effect that
\* is paused before the first tick after its start is younger than nothing.
ClockInvariant ==
    \A i \in Slots :
        LET effect == engine.effects[i]
            since == IF engine.paused \/ engine.resume_pending
                     THEN engine.pause_started ELSE engine.last_tick
        IN  effect.playing =>
                /\ Allocated(effect)
                /\ engine.time_valid
                /\ effect.started = (since - age[i]) % Wrap

\* For how long an effect plays in all.
Length(effect) == effect.definition.delay + effect.definition.duration * effect.loops

\* A tick evaluated the effects: it was neither revoked nor paused.
TickedRunning == TickEngine(FALSE) /\ engine.enabled /\ ~engine.paused

\* A tick ends an effect when the time it has been playing, not counting
\* pauses, reaches its length, and neither before nor after.  Exempt are an
\* effect paused before the first tick after its start (see below) and one
\* that has been playing, unevaluated, for a full turn of the clock.
PlaysItsTime ==
    [][\A i \in Slots :
         /\ TickedRunning
         /\ engine.effects[i].playing
         /\ age'[i] \in 0 .. Wrap - 1
         => (engine'.effects[i].playing
               <=> ~Finite(engine.effects[i]) \/ age'[i] < Length(engine.effects[i]))]_vars

\* src/arduino-port/README.md:24 "It keeps the standard DirectInput/PID effect
\* model", in which continuing resumes what the pause interrupted: no tick
\* ends an effect that has not reached its length.  One started and paused
\* between the same two ticks is ended by the tick after the resume.
PauseEndsNothing ==
    [][\A i \in Slots :
         TickedRunning /\ engine.effects[i].playing /\ age'[i] < Length(engine.effects[i])
           => engine'.effects[i].playing]_vars

\* Once the host falls silent on an enabled, unpaused engine, what is finite
\* comes to an end.
FiniteEffectsEnd ==
    <>[](engine.enabled /\ ~engine.paused)
      => <>[](\A i \in Slots : engine.effects[i].playing => ~Finite(engine.effects[i]))

=============================================================================
