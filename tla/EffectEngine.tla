----------------------------- MODULE EffectEngine -----------------------------
(***************************************************************************)
(* EffectEngine (effect_engine.cpp): slots of effects and the clock their  *)
(* playback runs on, as operators from one engine to the next.             *)
(*                                                                         *)
(* Kept: which slots are allocated and as what, which effects play, when   *)
(* they started, and how pausing moves that.  The force of an effect that  *)
(* plays is left out with the parameters it is computed from, as is the    *)
(* device gain.  The clock counts milliseconds in an unsigned integer; it  *)
(* wraps at Wrap here, at 2^32 in the code.                                *)
(***************************************************************************)
EXTENDS Integers

CONSTANTS
    SlotCount,          \* kEffectSlotCount
    Types,              \* the members of EffectType but none
    None,               \* EffectType::none
    Durations,          \* duration_ms
    Delays,             \* start_delay_ms
    Loops,              \* the loop counts of start commands
    Infinite,           \* kInfiniteDuration
    Wrap                \* the clock's modulus

ASSUME EffectEngineAssumption ==
    /\ {SlotCount, Wrap} \subseteq Nat \ {0}
    /\ Loops \subseteq Nat
    /\ None \notin Types
    /\ Infinite \in Nat
    /\ Durations \subseteq Nat
    /\ Delays \subseteq Nat

Slots == 1 .. SlotCount
Clock == 0 .. Wrap - 1

\* elapsed_since
Elapsed(now, since) == (now - since) % Wrap

\* What the host defines of an effect.
Definitions == [type : Types, duration : Durations \cup {Infinite}, delay : Delays \cup {0}]
NoDefinition == [type |-> None, duration |-> Infinite, delay |-> 0]
NewDefinition(type) == [NoDefinition EXCEPT !.type = type]

Effects ==
    [definition : Definitions \cup {NoDefinition}, playing : BOOLEAN,
     loops : (Loops \ {0}) \cup {1}, started : Clock]
BlankEffect == [definition |-> NoDefinition, playing |-> FALSE, loops |-> 1, started |-> 0]

Engines ==
    [effects : [Slots -> Effects], paused : BOOLEAN, resume_pending : BOOLEAN,
     time_valid : BOOLEAN, enabled : BOOLEAN, pause_started : Clock, last_tick : Clock]

InitialEngine ==
    [effects |-> [i \in Slots |-> BlankEffect], paused |-> FALSE,
     resume_pending |-> FALSE, time_valid |-> FALSE, enabled |-> FALSE,
     pause_started |-> 0, last_tick |-> 0]

Allocated(effect) == effect.definition.type # None
Finite(effect) == effect.definition.duration \notin {0, Infinite}

-----------------------------------------------------------------------------

\* A definition of another type starts over; one of the same type leaves the
\* playback alone.
UpdateDefinition(engine, i, definition) ==
    [engine EXCEPT !.effects[i] =
        IF @.definition.type = definition.type
        THEN [@ EXCEPT !.definition = definition]
        ELSE [BlankEffect EXCEPT !.definition = definition]]

FreeEffect(engine, i) == [engine EXCEPT !.effects[i] = BlankEffect]

StopAll(engine) ==
    [engine EXCEPT !.effects = [i \in Slots |-> [engine.effects[i] EXCEPT !.playing = FALSE]]]

Stop(engine, i) == [engine EXCEPT !.effects[i].playing = FALSE]

\* The first start or tick sets the clock going.
Referenced(engine, now) ==
    IF engine.time_valid THEN engine
    ELSE [engine EXCEPT !.time_valid = TRUE,
                        !.last_tick = now,
                        !.pause_started = IF engine.paused THEN now ELSE @]

\* Mutant: a paused engine starts an effect as a running one does.
StartNow(engine, i, loops, solo, now) ==
    IF ~Allocated(engine.effects[i]) THEN engine
    ELSE LET cleared == Referenced(IF solo THEN StopAll(engine) ELSE engine, now)
         IN  [cleared EXCEPT !.effects[i].playing = TRUE,
                             !.effects[i].loops = IF loops = 0 THEN 1 ELSE loops,
                             !.effects[i].started = now]

\* While paused, or not yet ticked again, an effect starts with the pause.
Start(engine, i, loops, solo, now) ==
    IF ~Allocated(engine.effects[i]) THEN engine
    ELSE LET cleared == Referenced(IF solo THEN StopAll(engine) ELSE engine, now)
         IN  [cleared EXCEPT
                !.effects[i].playing = TRUE,
                !.effects[i].loops = IF loops = 0 THEN 1 ELSE loops,
                !.effects[i].started =
                    IF cleared.paused \/ cleared.resume_pending
                    THEN cleared.pause_started ELSE now]

\* The pause counts from the last tick, and until the tick after the resume.
SetPaused(engine, paused) ==
    IF paused = engine.paused THEN engine
    ELSE IF paused
    THEN [engine EXCEPT !.paused = TRUE,
                        !.pause_started =
                            IF ~engine.resume_pending /\ engine.time_valid
                            THEN engine.last_tick ELSE @,
                        !.resume_pending = FALSE]
    ELSE [engine EXCEPT !.paused = FALSE, !.resume_pending = engine.time_valid]

SetActuatorsEnabled(engine, enabled) ==
    [IF enabled THEN engine ELSE StopAll(engine) EXCEPT !.enabled = enabled]

-----------------------------------------------------------------------------

\* Mutant: the last of the loops is not played.
CompletedEarly(effect, now) ==
    LET played == Elapsed(now, effect.started) - effect.definition.delay
    IN  /\ played >= 0
        /\ Finite(effect)
        /\ played >= effect.definition.duration
        /\ played \div effect.definition.duration + 1 >= effect.loops

\* evaluate, as far as it ends an effect.
Completed(effect, now) ==
    LET played == Elapsed(now, effect.started) - effect.definition.delay
    IN  /\ played >= 0
        /\ Finite(effect)
        /\ played >= effect.definition.duration
        /\ played \div effect.definition.duration >= effect.loops

\* The first tick after a pause moves what plays by the length of the pause.
Resumed(engine, now) ==
    IF ~engine.resume_pending THEN engine
    ELSE [engine EXCEPT
            !.resume_pending = FALSE,
            !.effects = [i \in Slots |->
                IF engine.effects[i].playing
                THEN [engine.effects[i] EXCEPT
                        !.started = (@ + Elapsed(now, engine.pause_started)) % Wrap]
                ELSE engine.effects[i]]]

\* Mutant: a loop that ends starts the effect over without being counted.
EvaluatedUncounted(engine, now) ==
    IF ~engine.enabled THEN engine
    ELSE [engine EXCEPT
            !.effects = [i \in Slots |->
                LET effect == engine.effects[i]
                    looped == /\ Finite(effect)
                              /\ Elapsed(now, effect.started)
                                   >= effect.definition.delay + effect.definition.duration
                IN  [effect EXCEPT !.playing = @ /\ ~Completed(effect, now),
                                   !.started = IF looped THEN now ELSE @]]]

Evaluated(engine, now) ==
    IF ~engine.enabled THEN engine
    ELSE [engine EXCEPT
            !.effects = [i \in Slots |->
                [engine.effects[i] EXCEPT !.playing = @ /\ ~Completed(engine.effects[i], now)]]]

Tick(engine, now) ==
    LET started == Referenced(engine, now)
    IN  IF started.paused THEN started
        ELSE Evaluated([Resumed(started, now) EXCEPT !.last_tick = now], now)

=============================================================================
