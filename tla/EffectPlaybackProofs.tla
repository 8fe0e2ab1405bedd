-------------------------- MODULE EffectPlaybackProofs --------------------------
(***************************************************************************)
(* The two tables of effects, and the clock effects are played by, for     *)
(* every number of slots, size of the queue, modulus of the clock and lag  *)
(* of the control task.                                                    *)
(***************************************************************************)
EXTENDS EffectPlayback, FiniteSetTheorems, TLAPS

(* Readings of a clock that wraps. *)

LEMMA ClockFacts == Wrap \in Nat \ {0} /\ Clock \subseteq Int /\ 0 \in Clock
BY EffectEngineAssumption DEF Clock

\* A reading is what is left of a time after whole turns of the clock.
LEMMA ReadingOf ==
    ASSUME NEW x \in Int
    PROVE  /\ x % Wrap \in Clock
           /\ \E turns \in Int : x = turns * Wrap + (x % Wrap)
<1>1. Wrap \in Nat \ {0}
  BY ClockFacts
<1>2. x % Wrap \in 0 .. Wrap - 1
  BY <1>1
<1>3. x = (x \div Wrap) * Wrap + (x % Wrap) /\ x \div Wrap \in Int
  BY <1>1
<1> QED
  BY <1>2, <1>3 DEF Clock

\* Less than a turn is no whole number of turns but none.
LEMMA NoTurns ==
    ASSUME NEW turns \in Int, -Wrap < turns * Wrap, turns * Wrap < Wrap
    PROVE  turns = 0
<1>1. Wrap \in Nat \ {0}
  BY ClockFacts
<1>2. turns >= 1 => turns * Wrap >= Wrap
  BY <1>1
<1>3. turns <= -1 => turns * Wrap <= -Wrap
  BY <1>1
<1> QED
  BY <1>1, <1>2, <1>3

\* Times that differ by whole turns read the same.
LEMMA SameReading ==
    ASSUME NEW x \in Int, NEW y \in Int, NEW turns \in Int, x = y + turns * Wrap
    PROVE  x % Wrap = y % Wrap
<1> DEFINE r == x % Wrap
           s == y % Wrap
<1>1. Wrap \in Nat \ {0}
  BY ClockFacts
<1>2. PICK p \in Int : x = p * Wrap + r
  BY ReadingOf
<1>3. PICK q \in Int : y = q * Wrap + s
  BY ReadingOf
<1>4. r \in 0 .. Wrap - 1 /\ s \in 0 .. Wrap - 1
  BY ReadingOf DEF Clock
<1> HIDE DEF r, s
<1>5. (p - q - turns) * Wrap = p * Wrap - q * Wrap - turns * Wrap
  BY <1>1
<1>6. (p - q - turns) * Wrap = s - r
  BY <1>1, <1>2, <1>3, <1>4, <1>5
<1>7. p - q - turns = 0
  BY <1>1, <1>4, <1>6, NoTurns
<1>8. r = s
  BY <1>1, <1>4, <1>6, <1>7
<1> QED
  BY <1>8 DEF r, s

LEMMA ReadingStands == \A x \in Clock : x % Wrap = x
BY ClockFacts DEF Clock

LEMMA ElapsedTime ==
    ASSUME NEW t \in Clock, NEW since \in Clock
    PROVE  /\ Elapsed(t, since) \in Clock /\ Elapsed(t, since) \in Int
           /\ t \in Int /\ since \in Int /\ Wrap \in Int
           /\ \E turns \in Int : t - since = turns * Wrap + Elapsed(t, since)
<1>1. t \in Int /\ since \in Int /\ Wrap \in Int
  BY ClockFacts
<1>2. t - since \in Int
  BY <1>1
<1>3. /\ (t - since) % Wrap \in Clock
      /\ \E turns \in Int : t - since = turns * Wrap + ((t - since) % Wrap)
  BY <1>2, ReadingOf
<1>4. (t - since) % Wrap \in Int
  BY <1>3, ClockFacts
<1> QED
  BY <1>1, <1>3, <1>4 DEF Elapsed

\* An effect that starts between two ticks is younger than nothing.
LEMMA StartsYoung ==
    ASSUME NEW t \in Clock, NEW since \in Clock
    PROVE  t = (since - (- Elapsed(t, since))) % Wrap
<1> DEFINE e == Elapsed(t, since)
<1>1. PICK turns \in Int : t - since = turns * Wrap + e
  BY ElapsedTime
<1>2. t \in Int /\ since \in Int /\ e \in Int /\ Wrap \in Int
  BY ElapsedTime
<1> HIDE DEF e
<1>3. (- turns) * Wrap = -(turns * Wrap) /\ turns * Wrap \in Int
  BY <1>2
<1>4. since - (- e) = t + (- turns) * Wrap
  BY <1>1, <1>2, <1>3
<1>5. since - (- e) \in Int /\ - turns \in Int
  BY <1>2
<1>6. (since - (- e)) % Wrap = t % Wrap
  <2> DEFINE x == since - (- e)
             back == - turns
  <2>1. x \in Int /\ back \in Int /\ x = t + back * Wrap
    BY <1>4, <1>5
  <2> HIDE DEF x, back
  <2>2. x % Wrap = t % Wrap
    BY <1>2, <2>1, SameReading
  <2> QED
    BY <2>2 DEF x
<1> QED
  BY <1>6, ReadingStands DEF e

\* A running clock makes an effect older by the time that elapsed.
LEMMA GrowsOlder ==
    ASSUME NEW t \in Clock, NEW since \in Clock, NEW a \in Int, NEW b \in Int,
           b = a + Elapsed(t, since) \/ b = a + Elapsed(t, since) - Wrap
    PROVE  (since - a) % Wrap = (t - b) % Wrap
<1> DEFINE e == Elapsed(t, since)
<1>1. PICK turns \in Int : t - since = turns * Wrap + e
  BY ElapsedTime
<1>2. t \in Int /\ since \in Int /\ e \in Int /\ Wrap \in Int
  BY ElapsedTime
<1>3. b = a + e \/ b = a + e - Wrap
  OBVIOUS
<1> HIDE DEF e
<1>4. /\ (- turns) * Wrap = -(turns * Wrap) /\ turns * Wrap \in Int
      /\ (- turns - 1) * Wrap = -(turns * Wrap) - Wrap
  BY <1>2
<1>5. \/ since - a = (t - b) + (- turns) * Wrap
      \/ since - a = (t - b) + (- turns - 1) * Wrap
  BY <1>1, <1>2, <1>3, <1>4
<1>6. - turns \in Int /\ - turns - 1 \in Int /\ since - a \in Int /\ t - b \in Int
  BY <1>2
<1> QED
  BY <1>5, <1>6, SameReading

\* A pause makes it no older.
LEMMA StaysAsOld ==
    ASSUME NEW since \in Clock, NEW a \in Int, NEW b \in Int, b = a \/ b = a - Wrap
    PROVE  (since - a) % Wrap = (since - b) % Wrap
<1>1. Wrap \in Int /\ since \in Int
  BY ClockFacts
<1>2. since - a = (since - b) + 0 * Wrap \/ since - a = (since - b) + (-1) * Wrap
  BY <1>1
<1>3. since - a \in Int /\ since - b \in Int
  BY <1>1
<1> QED
  BY <1>2, <1>3, SameReading

\* Moving its start by the length of the pause makes it no older either.
LEMMA MovesWithPause ==
    ASSUME NEW t \in Clock, NEW since \in Clock, NEW a \in Int, NEW b \in Int,
           b = a \/ b = a - Wrap
    PROVE  (((since - a) % Wrap) + Elapsed(t, since)) % Wrap = (t - b) % Wrap
<1> DEFINE e == Elapsed(t, since)
           s == (since - a) % Wrap
<1>1. PICK turns \in Int : t - since = turns * Wrap + e
  BY ElapsedTime
<1>2. t \in Int /\ since \in Int /\ e \in Int /\ Wrap \in Int
  BY ElapsedTime
<1>3. since - a \in Int
  BY <1>2
<1>4. PICK more \in Int : since - a = more * Wrap + s
  BY <1>3, ReadingOf
<1>5. s \in Int
  BY <1>3, ReadingOf, ClockFacts
<1> HIDE DEF e, s
<1>6. /\ turns * Wrap \in Int /\ more * Wrap \in Int
      /\ (- turns - more) * Wrap = -(turns * Wrap) - more * Wrap
      /\ (- turns - more - 1) * Wrap = -(turns * Wrap) - more * Wrap - Wrap
  BY <1>2
<1>7. \/ s + e = (t - b) + (- turns - more) * Wrap
      \/ s + e = (t - b) + (- turns - more - 1) * Wrap
  BY <1>1, <1>2, <1>4, <1>5, <1>6
<1>8. /\ - turns - more \in Int /\ - turns - more - 1 \in Int
      /\ s + e \in Int /\ t - b \in Int
  BY <1>2, <1>5
<1>9. (s + e) % Wrap = (t - b) % Wrap
  BY <1>7, <1>8, SameReading
<1> QED
  BY <1>9 DEF e, s


-----------------------------------------------------------------------------
(* The engine's methods return engines. *)

LEMMA BlankTyped ==
    /\ NoDefinition \in Definitions \cup {NoDefinition}
    /\ NoDefinition.type = None
    /\ \A d \in Definitions : d.type # None
    /\ BlankEffect \in Effects /\ ~BlankEffect.playing
    /\ \A d \in Definitions \cup {NoDefinition} :
          [BlankEffect EXCEPT !.definition = d] \in Effects
    /\ InitialEngine \in Engines
<1>1. 0 \in Clock
  BY ClockFacts
<1>2. \A d \in Definitions : d.type # None
  BY EffectEngineAssumption DEF Definitions
<1> QED
  BY <1>1, <1>2 DEF NoDefinition, BlankEffect, Effects, InitialEngine, Engines

LEMMA TableMethodsTyped ==
    ASSUME NEW e \in Engines, NEW i \in Slots, NEW d \in Definitions \cup {NoDefinition}
    PROVE  /\ UpdateDefinition(e, i, d) \in Engines
           /\ FreeEffect(e, i) \in Engines
           /\ StopAll(e) \in Engines
           /\ Stop(e, i) \in Engines
<1>1. e.effects \in [Slots -> Effects]
  BY DEF Engines
<1>2. [e.effects[i] EXCEPT !.definition = d] \in Effects
  BY <1>1 DEF Effects
<1>3. UpdateDefinition(e, i, d) \in Engines
  BY <1>1, <1>2, BlankTyped DEF UpdateDefinition, Engines
<1>4. FreeEffect(e, i) \in Engines
  BY <1>1, BlankTyped DEF FreeEffect, Engines
<1>5. \A j \in Slots : [e.effects[j] EXCEPT !.playing = FALSE] \in Effects
  BY <1>1 DEF Effects
<1>6. StopAll(e) \in Engines
  BY <1>5 DEF StopAll, Engines
<1>7. Stop(e, i) \in Engines
  BY <1>1, <1>5 DEF Stop, Engines
<1> QED
  BY <1>3, <1>4, <1>6, <1>7

LEMMA ReferencedTyped ==
    ASSUME NEW e \in Engines, NEW t \in Clock
    PROVE  Referenced(e, t) \in Engines
BY DEF Referenced, Engines

LEMMA StartTyped ==
    ASSUME NEW e \in Engines, NEW i \in Slots, NEW loops \in Loops \cup {1},
           NEW solo \in BOOLEAN, NEW t \in Clock
    PROVE  Start(e, i, loops, solo, t) \in Engines
<1> DEFINE cleared == Referenced(IF solo THEN StopAll(e) ELSE e, t)
           length == IF loops = 0 THEN 1 ELSE loops
           start == IF cleared.paused \/ cleared.resume_pending
                    THEN cleared.pause_started ELSE t
<1>1. CASE ~Allocated(e.effects[i])
  BY <1>1 DEF Start
<1>2. CASE Allocated(e.effects[i])
  <2>1. StopAll(e) \in Engines
    BY TableMethodsTyped, BlankTyped
  <2>2. cleared \in Engines
    BY <2>1, ReferencedTyped
  <2>3. length \in (Loops \ {0}) \cup {1} /\ start \in Clock
    BY <2>2 DEF Engines
  <2>4. Start(e, i, loops, solo, t)
          = [cleared EXCEPT !.effects[i].playing = TRUE, !.effects[i].loops = length,
                            !.effects[i].started = start]
    BY <1>2 DEF Start
  <2> HIDE DEF cleared, length, start
  <2>5. cleared.effects \in [Slots -> Effects]
    BY <2>2 DEF Engines
  <2>6. [cleared.effects[i] EXCEPT !.playing = TRUE, !.loops = length, !.started = start]
          \in Effects
    BY <2>3, <2>5 DEF Effects
  <2>7. Start(e, i, loops, solo, t)
          = [cleared EXCEPT !.effects =
               [cleared.effects EXCEPT ![i] =
                  [@ EXCEPT !.playing = TRUE, !.loops = length, !.started = start]]]
    BY <2>2, <2>3, <2>4, <2>5 DEF Engines, Effects
  <2> QED
    BY <2>2, <2>5, <2>6, <2>7 DEF Engines
<1> QED
  BY <1>1, <1>2

LEMMA SwitchesTyped ==
    ASSUME NEW e \in Engines, NEW on \in BOOLEAN
    PROVE  SetPaused(e, on) \in Engines /\ SetActuatorsEnabled(e, on) \in Engines
<1>1. SetPaused(e, on) \in Engines
  BY DEF SetPaused, Engines
<1>2. StopAll(e) \in Engines
  <2>1. \A j \in Slots : [e.effects[j] EXCEPT !.playing = FALSE] \in Effects
    BY DEF Engines, Effects
  <2> QED
    BY <2>1 DEF StopAll, Engines
<1>3. SetActuatorsEnabled(e, on) \in Engines
  BY <1>2 DEF SetActuatorsEnabled, Engines
<1> QED
  BY <1>1, <1>3

\* A tick that is not paused moves what plays by the length of a pause that
\* just ended, and then ends what is complete.
Moved(e, t, i) ==
    IF e.resume_pending /\ e.effects[i].playing
    THEN (e.effects[i].started + Elapsed(t, e.pause_started)) % Wrap
    ELSE e.effects[i].started
MovedEffect(e, t, i) == [e.effects[i] EXCEPT !.started = Moved(e, t, i)]
Ends(e, t, i) == e.enabled /\ Completed(MovedEffect(e, t, i), t)

LEMMA TickRuns ==
    ASSUME NEW e \in Engines, NEW t \in Clock, e.time_valid, ~e.paused
    PROVE  /\ Tick(e, t) \in Engines
           /\ ~Tick(e, t).paused /\ ~Tick(e, t).resume_pending /\ Tick(e, t).time_valid
           /\ Tick(e, t).last_tick = t
           /\ \A i \in Slots :
                /\ MovedEffect(e, t, i) \in Effects
                /\ Tick(e, t).effects[i]
                     = [MovedEffect(e, t, i) EXCEPT !.playing = @ /\ ~Ends(e, t, i)]
<1> DEFINE moved(i) == MovedEffect(e, t, i)
           resumed == Resumed(e, t)
           ticked == [resumed EXCEPT !.last_tick = t]
<1>1. e.effects \in [Slots -> Effects] /\ e.pause_started \in Clock
  BY DEF Engines
<1>2. \A i \in Slots : Moved(e, t, i) \in Clock /\ moved(i) \in Effects
  <2>1. Elapsed(t, e.pause_started) \in Int
    BY <1>1, ElapsedTime
  <2>2. \A i \in Slots : e.effects[i].started \in Int /\ e.effects[i].started \in Clock
    BY <1>1, ClockFacts DEF Effects
  <2>3. \A i \in Slots : Moved(e, t, i) \in Clock
    BY <2>1, <2>2, ReadingOf DEF Moved
  <2> QED
    BY <1>1, <2>3 DEF Effects, MovedEffect
<1>3. /\ resumed \in Engines /\ resumed.effects = [i \in Slots |-> moved(i)]
      /\ ~resumed.paused /\ ~resumed.resume_pending /\ resumed.time_valid
      /\ resumed.enabled = e.enabled
  <2>1. CASE e.resume_pending
    <3>1. \A i \in Slots :
            (IF e.effects[i].playing
             THEN [e.effects[i] EXCEPT
                     !.started = (@ + Elapsed(t, e.pause_started)) % Wrap]
             ELSE e.effects[i]) = moved(i)
      BY <1>1, <2>1 DEF Moved, MovedEffect, Effects
    <3>2. resumed = [e EXCEPT !.resume_pending = FALSE,
                              !.effects = [i \in Slots |-> moved(i)]]
      BY <2>1, <3>1 DEF Resumed
    <3> HIDE DEF resumed, moved
    <3> QED
      BY <1>2, <3>2 DEF Engines
  <2>2. CASE ~e.resume_pending
    <3>1. \A i \in Slots : e.effects[i] = moved(i)
      BY <1>1, <2>2 DEF Moved, MovedEffect, Effects
    <3>2. resumed = e
      BY <2>2 DEF Resumed
    <3> HIDE DEF resumed, moved
    <3> QED
      BY <1>1, <2>2, <3>1, <3>2 DEF Engines
  <2> QED
    BY <2>1, <2>2
<1>4. /\ ticked \in Engines /\ ticked.effects = [i \in Slots |-> moved(i)]
      /\ ~ticked.paused /\ ~ticked.resume_pending /\ ticked.time_valid
      /\ ticked.enabled = e.enabled /\ ticked.last_tick = t
  <2> HIDE DEF resumed, moved
  <2> QED
    BY <1>3 DEF Engines
<1>5. Tick(e, t) = Evaluated(ticked, t)
  BY DEF Tick, Referenced
<1> HIDE DEF ticked
<1>6. \A i \in Slots : ticked.effects[i] = moved(i) /\ moved(i) \in Effects
  <2> HIDE DEF moved
  <2> QED
    BY <1>2, <1>4
<1>7. CASE ~e.enabled
  <2>1. Tick(e, t) = ticked
    BY <1>4, <1>5, <1>7 DEF Evaluated
  <2>2. ASSUME NEW i \in Slots
        PROVE  ticked.effects[i] = [MovedEffect(e, t, i) EXCEPT
                                      !.playing = @ /\ ~Ends(e, t, i)]
    <3>1. ~Ends(e, t, i)
      BY <1>7 DEF Ends
    <3> QED
      BY <1>6, <3>1 DEF Effects
  <2> QED
    BY <1>4, <1>6, <2>1, <2>2
<1>8. CASE e.enabled
  <2> HIDE DEF moved
  <2>1. Tick(e, t) =
          [ticked EXCEPT !.effects =
             [i \in Slots |-> [ticked.effects[i] EXCEPT
                                 !.playing = @ /\ ~Completed(ticked.effects[i], t)]]]
    BY <1>4, <1>5, <1>8 DEF Evaluated
  <2>2. ASSUME NEW i \in Slots
        PROVE  /\ Tick(e, t).effects[i]
                    = [MovedEffect(e, t, i) EXCEPT !.playing = @ /\ ~Ends(e, t, i)]
               /\ Tick(e, t).effects[i] \in Effects
    <3>1. Tick(e, t).effects[i] = [moved(i) EXCEPT !.playing =
                                             @ /\ ~Completed(moved(i), t)]
      BY <1>4, <1>6, <2>1 DEF Engines
    <3>2. (moved(i).playing /\ ~Ends(e, t, i)) \in BOOLEAN
      OBVIOUS
    <3>3. (moved(i).playing /\ ~Completed(moved(i), t))
            = (moved(i).playing /\ ~Ends(e, t, i))
      BY <1>8 DEF Ends, moved
    <3>4. Tick(e, t).effects[i] = [moved(i) EXCEPT !.playing = @ /\ ~Ends(e, t, i)]
      BY <3>1, <3>3
    <3>5. Tick(e, t).effects[i] \in Effects
      BY <1>6, <3>2, <3>4 DEF Effects
    <3> QED
      BY <3>4, <3>5 DEF moved
  <2>3. /\ ~Tick(e, t).paused /\ ~Tick(e, t).resume_pending /\ Tick(e, t).time_valid
        /\ Tick(e, t).last_tick = t
    BY <1>4, <2>1 DEF Engines
  <2>4. Tick(e, t) \in Engines
    <3>1. [i \in Slots |-> [ticked.effects[i] EXCEPT
                              !.playing = @ /\ ~Completed(ticked.effects[i], t)]]
            = [i \in Slots |-> Tick(e, t).effects[i]]
      BY <1>4, <2>1 DEF Engines
    <3> QED
      BY <1>4, <2>1, <2>2, <3>1 DEF Engines
  <2> QED
    BY <1>6, <2>2, <2>3, <2>4 DEF moved
<1> QED
  BY <1>7, <1>8

LEMMA TickTyped ==
    ASSUME NEW e \in Engines, NEW t \in Clock
    PROVE  Tick(e, t) \in Engines
<1> DEFINE started == Referenced(e, t)
<1>1. started \in Engines /\ started.time_valid
  BY ReferencedTyped DEF Referenced, Engines
<1>2. Tick(e, t) = Tick(started, t)
  BY <1>1 DEF Tick, Referenced
<1>3. CASE started.paused
  BY <1>1, <1>3 DEF Tick
<1>4. CASE ~started.paused
  <2> HIDE DEF started
  <2> QED
    BY <1>1, <1>2, <1>4, TickRuns
<1> QED
  BY <1>3, <1>4

-----------------------------------------------------------------------------
(* Types. *)

LEMMA CommandsTyped ==
    /\ \A kind \in EngineKinds : EngineCommand(kind) \in CommandSet
    /\ \A kind \in SlotKinds, i \in Slots, loops \in Loops \cup {1}, solo \in BOOLEAN :
          [SlotCommand(kind, i) EXCEPT !.loops = loops, !.solo = solo] \in CommandSet
    /\ \A kind \in SlotKinds, i \in Slots : SlotCommand(kind, i) \in CommandSet
    /\ \A i \in Slots, d \in Definitions \cup {NoDefinition} :
          [SlotCommand("set_effect", i) EXCEPT !.effect = d] \in CommandSet
<1>1. 1 \in Slots
  BY EffectEngineAssumption DEF Slots
<1>2. /\ "set_effect" \in SlotKinds
      /\ \A kind \in EngineKinds \cup SlotKinds : EngineCommand(kind) \in CommandSet
  BY <1>1 DEF EngineCommand, CommandSet, SlotKinds
<1>3. \A kind \in SlotKinds, i \in Slots :
        /\ SlotCommand(kind, i) \in CommandSet
        /\ \A loops \in Loops \cup {1}, solo \in BOOLEAN :
              [SlotCommand(kind, i) EXCEPT !.loops = loops, !.solo = solo] \in CommandSet
        /\ \A d \in Definitions \cup {NoDefinition} :
              [SlotCommand(kind, i) EXCEPT !.effect = d] \in CommandSet
  <2> SUFFICES ASSUME NEW kind \in SlotKinds, NEW i \in Slots
               PROVE  /\ SlotCommand(kind, i) \in CommandSet
                      /\ \A loops \in Loops \cup {1}, solo \in BOOLEAN :
                            [SlotCommand(kind, i) EXCEPT !.loops = loops, !.solo = solo]
                              \in CommandSet
                      /\ \A d \in Definitions \cup {NoDefinition} :
                            [SlotCommand(kind, i) EXCEPT !.effect = d] \in CommandSet
    OBVIOUS
  <2>1. EngineCommand(kind) \in CommandSet
    BY <1>2
  <2>2. SlotCommand(kind, i) \in CommandSet
    BY <2>1 DEF SlotCommand, CommandSet
  <2> QED
    BY <2>2 DEF CommandSet
<1> QED
  BY <1>2, <1>3

\* Whatever is queued, the queue stays one.
LEMMA QueueTyped ==
    ASSUME TypeOK, NEW command \in CommandSet, Queue(command)
    PROVE  commands' \in Seq(CommandSet) /\ Len(commands') <= QueueCapacity
<1>1. QueueCapacity \in Nat /\ commands \in Seq(CommandSet) /\ Len(commands) <= QueueCapacity
  BY EffectPlaybackAssumption DEF TypeOK
<1>2. /\ Append(commands, command) \in Seq(CommandSet)
      /\ Len(Append(commands, command)) = Len(commands) + 1
      /\ Len(commands) \in Nat
  BY <1>1
<1> QED
  BY <1>1, <1>2 DEF Queue, Fits

LEMMA FreeCounted ==
    ASSUME NEW definitions
    PROVE  Cardinality(FreeSlots(definitions)) \in 0 .. SlotCount
<1>1. SlotCount \in Nat
  BY EffectEngineAssumption
<1>2. IsFiniteSet(1 .. SlotCount) /\ Cardinality(1 .. SlotCount) = SlotCount
  BY <1>1, FS_Interval
<1>3. FreeSlots(definitions) \subseteq 1 .. SlotCount
  BY DEF FreeSlots, Slots
<1>4. /\ IsFiniteSet(FreeSlots(definitions))
      /\ Cardinality(FreeSlots(definitions)) <= SlotCount
  BY <1>2, <1>3, FS_Subset
<1> QED
  BY <1>1, <1>4, FS_CardinalityType

LEMMA NewTyped == \A type \in Types : NewDefinition(type) \in Definitions
BY DEF NewDefinition, NoDefinition, Definitions

LEMMA AnswersTyped ==
    ASSUME NEW definitions, NEW i \in Slots, NEW status \in {"full", "error"}
    PROVE  /\ Refusal(status, Cardinality(FreeSlots(definitions))) \in BlockLoads
           /\ Refusal(status, 0) \in BlockLoads
           /\ [index |-> i, status |-> "success",
               available |-> Cardinality(FreeSlots(definitions))] \in BlockLoads
<1>1. Cardinality(FreeSlots(definitions)) \in 0 .. SlotCount /\ SlotCount \in Nat
  BY FreeCounted, EffectEngineAssumption
<1>2. i \in 0 .. SlotCount /\ 0 \in 0 .. SlotCount
  BY <1>1 DEF Slots
<1> QED
  BY <1>1, <1>2 DEF Refusal, BlockLoads

LEMMA InitTypes == Init => TypeOK
<1> SUFFICES ASSUME Init PROVE TypeOK
  OBVIOUS
<1>1. table \in [Slots -> Definitions \cup {NoDefinition}]
  BY EffectPlaybackAssumption DEF Init
<1>2. engine \in Engines
  <2>1. PICK enabled \in BOOLEAN :
          engine = [InitialEngine EXCEPT
                      !.enabled = enabled,
                      !.effects = [i \in Slots |->
                                     [BlankEffect EXCEPT !.definition = table[i]]]]
    BY DEF Init
  <2>2. \A i \in Slots : [BlankEffect EXCEPT !.definition = table[i]] \in Effects
    BY <1>1, BlankTyped
  <2> QED
    BY <2>1, <2>2, BlankTyped DEF Engines
<1>3. Len(<<>>) = 0 /\ <<>> \in Seq(CommandSet)
  OBVIOUS
<1>4. QueueCapacity \in Nat /\ MaxLag \in Nat /\ MaxReports \in Nat
  BY EffectPlaybackAssumption
<1>5. commands \in Seq(CommandSet) /\ Len(commands) <= QueueCapacity
  BY <1>3, <1>4 DEF Init
<1>6. block_load \in BlockLoads
  <2>1. 1 \in Slots
    BY EffectEngineAssumption DEF Slots
  <2> QED
    BY <2>1, AnswersTyped DEF Init
<1> QED
  BY <1>1, <1>2, <1>4, <1>5, <1>6, ClockFacts DEF Init, TypeOK

\* The methods of the engine that a command calls.
LEMMA AppliedTyped ==
    ASSUME TypeOK, NEW command \in CommandSet
    PROVE  Applied(command) \in Engines
<1> DEFINE i == command.index
<1>1. /\ engine \in Engines /\ now \in Clock
      /\ command.type \in SlotKinds \cup EngineKinds
      /\ i \in Slots /\ command.loops \in Loops \cup {1} /\ command.solo \in BOOLEAN
      /\ command.effect \in Definitions \cup {NoDefinition}
  BY DEF TypeOK, CommandSet
<1>2. /\ UpdateDefinition(engine, i, command.effect) \in Engines
      /\ FreeEffect(engine, i) \in Engines
      /\ StopAll(engine) \in Engines
      /\ Stop(engine, i) \in Engines
  BY <1>1, TableMethodsTyped
<1>3. Start(engine, i, command.loops, command.solo, now) \in Engines
  BY <1>1, StartTyped
<1>4. \A on \in BOOLEAN :
        SetPaused(engine, on) \in Engines /\ SetActuatorsEnabled(engine, on) \in Engines
  BY <1>1, SwitchesTyped
<1>5. InitialEngine \in Engines
  BY BlankTyped
<1> HIDE DEF i
<1> QED
  BY <1>1, <1>2, <1>3, <1>4, <1>5 DEF Applied, SlotKinds, EngineKinds, i

LEMMA StepTypes == TypeOK /\ [Next]_vars => TypeOK'
<1> SUFFICES ASSUME TypeOK, [Next]_vars PROVE TypeOK'
  OBVIOUS
<1> DEFINE QueueOK == commands \in Seq(CommandSet) /\ Len(commands) <= QueueCapacity
           HostOK  == /\ table \in [Slots -> Definitions \cup {NoDefinition}]
                      /\ block_load \in BlockLoads
                      /\ stale \subseteq Slots
<1>1. ASSUME HostOK', QueueOK', Report PROVE TypeOK'
  <2>1. reports' \in 0 .. MaxReports
    BY <1>1, EffectPlaybackAssumption DEF Report, TypeOK
  <2>2. UNCHANGED <<engine, now, lag, age>>
    BY <1>1 DEF Report, controlVars
  <2> QED
    BY <1>1, <2>1, <2>2 DEF TypeOK
<1>2. ASSUME NEW kind \in EngineKinds \ {"reset"}, Control(kind) PROVE TypeOK'
  <2>1. QueueOK'
    BY <1>2, CommandsTyped, QueueTyped DEF Control
  <2>2. HostOK'
    BY <1>2 DEF Control, TypeOK
  <2> QED
    BY <1>1, <1>2, <2>1, <2>2 DEF Control
<1>3. ASSUME NEW i \in Slots, NEW kind \in SlotKinds, NEW loops \in Loops \cup {1},
             NEW solo \in BOOLEAN, Operate(i, kind, loops, solo)
      PROVE  TypeOK'
  <2>1. QueueOK'
    BY <1>3, CommandsTyped, QueueTyped DEF Operate
  <2>2. HostOK'
    BY <1>3 DEF Operate, TypeOK
  <2> QED
    BY <1>1, <1>3, <2>1, <2>2 DEF Operate
<1>4. ASSUME NEW type \in Types, CreateEffect(type) PROVE TypeOK'
  <2>1. PICK i \in FreeSlots(table) :
          LET created == [table EXCEPT ![i] = NewDefinition(type)]
          IN  /\ Queue([SlotCommand("set_effect", i) EXCEPT !.effect = NewDefinition(type)])
              /\ table' = IF Fits THEN created ELSE table
              /\ block_load' =
                    IF Fits THEN [index |-> i, status |-> "success",
                                  available |-> Cardinality(FreeSlots(created))]
                    ELSE Refusal("full", Cardinality(FreeSlots(table)))
              /\ stale' = IF Fits THEN stale \ {i} ELSE stale
    BY <1>4 DEF CreateEffect
  <2>2. i \in Slots /\ NewDefinition(type) \in Definitions
    BY <2>1, NewTyped DEF FreeSlots
  <2>3. QueueOK'
    BY <2>1, <2>2, CommandsTyped, QueueTyped
  <2>4. HostOK'
    BY <2>1, <2>2, AnswersTyped DEF TypeOK
  <2> QED
    BY <1>1, <1>4, <2>3, <2>4 DEF CreateEffect
<1>5. ASSUME NEW status \in {"full", "error"}, CreateNothing(status) PROVE TypeOK'
  <2>1. 1 \in Slots
    BY EffectEngineAssumption DEF Slots
  <2>2. HostOK' /\ QueueOK'
    BY <1>5, <2>1, AnswersTyped DEF CreateNothing, TypeOK
  <2> QED
    BY <1>1, <1>5, <2>2 DEF CreateNothing
<1>6. ASSUME NEW i \in Slots, NEW definition \in Definitions, SetParameters(i, definition)
      PROVE  TypeOK'
  <2>1. QueueOK'
    BY <1>6, CommandsTyped, QueueTyped DEF SetParameters
  <2>2. HostOK'
    BY <1>6 DEF SetParameters, TypeOK
  <2> QED
    BY <1>1, <1>6, <2>1, <2>2 DEF SetParameters
<1>7. ASSUME NEW i \in Slots, FreeBlock(i) PROVE TypeOK'
  <2>1. QueueOK'
    BY <1>7, CommandsTyped, QueueTyped DEF FreeBlock, SlotKinds
  <2>2. HostOK'
    BY <1>7 DEF FreeBlock, TypeOK
  <2> QED
    BY <1>1, <1>7, <2>1, <2>2 DEF FreeBlock
<1>8. CASE DeviceReset
  <2>1. QueueOK'
    BY <1>8, CommandsTyped, QueueTyped DEF DeviceReset, EngineKinds
  <2>2. HostOK'
    BY <1>8 DEF DeviceReset, TypeOK
  <2> QED
    BY <1>1, <1>8, <2>1, <2>2 DEF DeviceReset
<1>9. CASE TimePasses
  <2>1. (now + 1) % Wrap \in Clock
    <3>1. now + 1 \in Int
      BY ClockFacts DEF TypeOK
    <3> QED
      BY <3>1, ReadingOf
  <2>2. lag + 1 \in 0 .. MaxLag
    BY <1>9, EffectPlaybackAssumption DEF TimePasses, TypeOK
  <2> QED
    BY <1>9, <2>1, <2>2 DEF TimePasses, hostVars, TypeOK
<1>10. CASE ApplyCommand
  <2>1. /\ Head(commands) \in CommandSet /\ Tail(commands) \in Seq(CommandSet)
        /\ Len(Tail(commands)) = Len(commands) - 1 /\ Len(commands) \in Nat
    BY <1>10 DEF ApplyCommand, TypeOK
  <2>2. engine' \in Engines
    BY <1>10, <2>1, AppliedTyped DEF ApplyCommand
  <2>3. AgeAtStart \in Int
    <3>1. Elapsed(now, engine.last_tick) \in Int
      BY ElapsedTime DEF TypeOK, Engines
    <3> QED
      BY <3>1 DEF AgeAtStart
  <2>4. age' \in [Slots -> Int]
    BY <1>10, <2>3 DEF ApplyCommand, TypeOK
  <2>5. QueueCapacity \in Nat /\ QueueOK'
    BY <1>10, <2>1, EffectPlaybackAssumption DEF ApplyCommand, TypeOK
  <2> QED
    BY <1>10, <2>2, <2>4, <2>5 DEF ApplyCommand, hostVars, TypeOK
<1>11. ASSUME NEW revoked \in Revocations, TickEngine(revoked) PROVE TypeOK'
  <2> DEFINE checked == IF revoked THEN SetActuatorsEnabled(engine, FALSE) ELSE engine
  <2>1. checked \in Engines
    BY SwitchesTyped DEF TypeOK
  <2>2. engine' \in Engines
    BY <1>11, <2>1, TickTyped DEF TickEngine, TypeOK
  <2>3. \A a \in Int : Older(a) \in Int
    <3>1. Elapsed(now, engine.last_tick) \in Int /\ Wrap \in Int
      BY ElapsedTime DEF TypeOK, Engines
    <3>2. Counted \in Int
      BY <3>1 DEF Counted
    <3> QED
      BY <3>1, <3>2 DEF Older
  <2>4. age' \in [Slots -> Int]
    <3>1. age' = [i \in Slots |-> IF checked.effects[i].playing THEN Older(age[i]) ELSE 0]
      BY <1>11 DEF TickEngine
    <3>2. \A i \in Slots : age[i] \in Int
      BY DEF TypeOK
    <3> HIDE DEF checked
    <3> QED
      BY <2>3, <3>1, <3>2
  <2>5. 0 \in 0 .. MaxLag
    BY EffectPlaybackAssumption
  <2> QED
    BY <1>11, <2>2, <2>4, <2>5 DEF TickEngine, hostVars, TypeOK
<1>12. CASE UNCHANGED vars
  BY <1>12 DEF vars, TypeOK
<1>13. CASE HostReport
  <2>1. "start_effect" \in SlotKinds /\ "stop_effect" \in SlotKinds
    BY DEF SlotKinds
  <2> QED
    BY <1>2, <1>3, <1>4, <1>5, <1>6, <1>7, <1>8, <1>13, <2>1 DEF HostReport
<1> QED
  BY <1>9, <1>10, <1>11, <1>12, <1>13 DEF Next, ControlStep


-----------------------------------------------------------------------------
(* How old an effect is.                                                   *)

\* The reading up to which an engine has counted.
CountedUpTo(e) ==
    IF e.paused \/ e.resume_pending THEN e.pause_started ELSE e.last_tick

\* An engine counts its effects to be of the ages a.
Counts(e, a) ==
    /\ e.resume_pending => e.time_valid
    /\ \A i \in Slots :
          e.effects[i].playing =>
            /\ Allocated(e.effects[i])
            /\ e.time_valid
            /\ e.effects[i].started = (CountedUpTo(e) - a[i]) % Wrap

LEMMA CountsIsInvariant == Counts(engine, age) => ClockInvariant
BY DEF Counts, CountedUpTo, ClockInvariant

\* An engine whose clock is the same and that starts nothing.
LEMMA NothingStarts ==
    ASSUME NEW e \in Engines, NEW f \in Engines, NEW a \in [Slots -> Int], Counts(e, a),
           f.paused = e.paused, f.resume_pending = e.resume_pending,
           f.time_valid = e.time_valid,
           f.pause_started = e.pause_started, f.last_tick = e.last_tick,
           \A i \in Slots : f.effects[i].playing =>
              /\ e.effects[i].playing
              /\ f.effects[i].started = e.effects[i].started
              /\ Allocated(e.effects[i]) => Allocated(f.effects[i])
    PROVE  Counts(f, a)
<1>1. CountedUpTo(f) = CountedUpTo(e)
  BY DEF CountedUpTo
<1> QED
  BY <1>1 DEF Counts

LEMMA TableMethodsCount ==
    ASSUME NEW e \in Engines, NEW a \in [Slots -> Int], Counts(e, a),
           NEW i \in Slots, NEW d \in Definitions \cup {NoDefinition}
    PROVE  /\ Counts(UpdateDefinition(e, i, d), a)
           /\ Counts(FreeEffect(e, i), a)
           /\ Counts(StopAll(e), a)
           /\ Counts(Stop(e, i), a)
<1>1. e.effects \in [Slots -> Effects]
  BY DEF Engines
<1>2. Counts(UpdateDefinition(e, i, d), a)
  <2> DEFINE f == UpdateDefinition(e, i, d)
  <2>1. f \in Engines
    BY TableMethodsTyped
  <2>2. /\ f.paused = e.paused /\ f.resume_pending = e.resume_pending
        /\ f.time_valid = e.time_valid
        /\ f.pause_started = e.pause_started /\ f.last_tick = e.last_tick
        /\ \A j \in Slots \ {i} : f.effects[j] = e.effects[j]
    BY <1>1 DEF UpdateDefinition, Engines
  <2>3. CASE e.effects[i].definition.type = d.type
    <3>1. f.effects[i] = [e.effects[i] EXCEPT !.definition = d]
      BY <1>1, <2>3 DEF UpdateDefinition, Engines
    <3>2. /\ f.effects[i].playing = e.effects[i].playing
          /\ f.effects[i].started = e.effects[i].started
          /\ Allocated(f.effects[i]) <=> Allocated(e.effects[i])
      BY <1>1, <2>3, <3>1 DEF Effects, Allocated
    <3> HIDE DEF f
    <3>9. Counts(f, a)
      BY <2>1, <2>2, <3>2, NothingStarts
    <3> QED
      BY <3>9 DEF f
  <2>4. CASE e.effects[i].definition.type # d.type
    <3>1. f.effects[i] = [BlankEffect EXCEPT !.definition = d]
      BY <1>1, <2>4 DEF UpdateDefinition, Engines
    <3>2. ~f.effects[i].playing
      BY <3>1 DEF BlankEffect
    <3> HIDE DEF f
    <3>9. Counts(f, a)
      BY <2>1, <2>2, <3>2, NothingStarts
    <3> QED
      BY <3>9 DEF f
  <2> QED
    BY <2>3, <2>4
<1>3. Counts(FreeEffect(e, i), a)
  <2> DEFINE f == FreeEffect(e, i)
  <2>1. f \in Engines
    BY TableMethodsTyped
  <2>2. /\ f.paused = e.paused /\ f.resume_pending = e.resume_pending
        /\ f.time_valid = e.time_valid
        /\ f.pause_started = e.pause_started /\ f.last_tick = e.last_tick
        /\ \A j \in Slots \ {i} : f.effects[j] = e.effects[j]
        /\ ~f.effects[i].playing
    BY <1>1, BlankTyped DEF FreeEffect, Engines
  <2> HIDE DEF f
  <2>9. Counts(f, a)
    BY <2>1, <2>2, NothingStarts
  <2> QED
    BY <2>9 DEF f
<1>4. Counts(StopAll(e), a)
  <2> DEFINE f == StopAll(e)
  <2>1. f \in Engines
    BY TableMethodsTyped
  <2>2. /\ f.paused = e.paused /\ f.resume_pending = e.resume_pending
        /\ f.time_valid = e.time_valid
        /\ f.pause_started = e.pause_started /\ f.last_tick = e.last_tick
        /\ \A j \in Slots : ~f.effects[j].playing
    BY <1>1 DEF StopAll, Engines, Effects
  <2> HIDE DEF f
  <2>9. Counts(f, a)
    BY <2>1, <2>2, NothingStarts
  <2> QED
    BY <2>9 DEF f
<1>5. Counts(Stop(e, i), a)
  <2> DEFINE f == Stop(e, i)
  <2>1. f \in Engines
    BY TableMethodsTyped
  <2>2. /\ f.paused = e.paused /\ f.resume_pending = e.resume_pending
        /\ f.time_valid = e.time_valid
        /\ f.pause_started = e.pause_started /\ f.last_tick = e.last_tick
        /\ \A j \in Slots \ {i} : f.effects[j] = e.effects[j]
        /\ ~f.effects[i].playing
    BY <1>1 DEF Stop, Engines, Effects
  <2> HIDE DEF f
  <2>9. Counts(f, a)
    BY <2>1, <2>2, NothingStarts
  <2> QED
    BY <2>9 DEF f
<1> QED
  BY <1>2, <1>3, <1>4, <1>5

LEMMA SwitchesCount ==
    ASSUME NEW e \in Engines, NEW a \in [Slots -> Int], Counts(e, a), NEW on \in BOOLEAN
    PROVE  /\ Counts(SetPaused(e, on), a)
           /\ Counts(SetActuatorsEnabled(e, on), a)
<1>1. Counts(SetActuatorsEnabled(e, on), a)
  <2> DEFINE f == SetActuatorsEnabled(e, on)
  <2>1. f \in Engines
    BY SwitchesTyped
  <2>2. /\ f.paused = e.paused /\ f.resume_pending = e.resume_pending
        /\ f.time_valid = e.time_valid
        /\ f.pause_started = e.pause_started /\ f.last_tick = e.last_tick
        /\ \A j \in Slots : f.effects[j] = e.effects[j] \/ ~f.effects[j].playing
    BY DEF SetActuatorsEnabled, StopAll, Engines, Effects
  <2> HIDE DEF f
  <2>9. Counts(f, a)
    BY <2>1, <2>2, NothingStarts
  <2> QED
    BY <2>9 DEF f
<1>2. Counts(SetPaused(e, on), a)
  <2> DEFINE f == SetPaused(e, on)
  <2>1. CASE on = e.paused
    BY <2>1 DEF SetPaused
  <2>2. CASE on # e.paused
    <3>1. /\ f.effects = e.effects
          /\ f.time_valid = e.time_valid
          /\ f.resume_pending => f.time_valid
      BY <2>2 DEF SetPaused, Engines
    <3>2. e.time_valid => CountedUpTo(f) = CountedUpTo(e)
      BY <2>2 DEF SetPaused, Engines, CountedUpTo
    <3> HIDE DEF f
    <3>3. Counts(f, a)
      BY <3>1, <3>2 DEF Counts
    <3> QED
      BY <3>3 DEF f
  <2> QED
    BY <2>1, <2>2
<1> QED
  BY <1>1, <1>2

LEMMA ReferencedCounts ==
    ASSUME NEW e \in Engines, NEW a \in [Slots -> Int], Counts(e, a), NEW t \in Clock
    PROVE  /\ Counts(Referenced(e, t), a)
           /\ Referenced(e, t).time_valid
           /\ Referenced(e, t).effects = e.effects
           /\ e.time_valid => Referenced(e, t) = e
           /\ ~e.time_valid =>
                /\ CountedUpTo(Referenced(e, t)) = t
                /\ \A i \in Slots : ~e.effects[i].playing
<1>1. CASE e.time_valid
  BY <1>1 DEF Referenced
<1>2. CASE ~e.time_valid
  <2> DEFINE f == Referenced(e, t)
  <2>1. \A i \in Slots : ~e.effects[i].playing
    BY <1>2 DEF Counts
  <2>2. ~e.resume_pending
    BY <1>2 DEF Counts
  <2>3. /\ f.effects = e.effects /\ f.time_valid
        /\ f.last_tick = t /\ f.paused = e.paused
        /\ f.resume_pending = e.resume_pending
        /\ e.paused => f.pause_started = t
    BY <1>2 DEF Referenced, Engines
  <2> HIDE DEF f
  <2> QED
    BY <1>2, <2>1, <2>2, <2>3 DEF Counts, CountedUpTo, f
<1> QED
  BY <1>1, <1>2

\* An effect that starts is of the age AgeAtStart gives it.
LEMMA StartCounts ==
    ASSUME NEW e \in Engines, NEW a \in [Slots -> Int], Counts(e, a), NEW t \in Clock,
           NEW i \in Slots, NEW loops \in Loops \cup {1}, NEW solo \in BOOLEAN,
           Allocated(e.effects[i]),
           NEW young \in Int,
           young = IF e.time_valid /\ ~e.paused /\ ~e.resume_pending
                   THEN - Elapsed(t, e.last_tick) ELSE 0
    PROVE  Counts(Start(e, i, loops, solo, t), [a EXCEPT ![i] = young])
<1> DEFINE base == IF solo THEN StopAll(e) ELSE e
           cleared == Referenced(base, t)
           start == IF cleared.paused \/ cleared.resume_pending
                    THEN cleared.pause_started ELSE t
           length == IF loops = 0 THEN 1 ELSE loops
           f == Start(e, i, loops, solo, t)
<1>1. base \in Engines /\ Counts(base, a)
  BY TableMethodsTyped, TableMethodsCount, BlankTyped
<1>2. /\ base.time_valid = e.time_valid /\ base.paused = e.paused
      /\ base.resume_pending = e.resume_pending /\ base.last_tick = e.last_tick
      /\ \A j \in Slots : base.effects[j].definition = e.effects[j].definition
  BY DEF StopAll, Engines, Effects
<1>3. cleared \in Engines /\ Counts(cleared, a) /\ cleared.time_valid
      /\ cleared.effects = base.effects
  <2> HIDE DEF base
  <2> QED
    BY <1>1, ReferencedTyped, ReferencedCounts
<1>4. /\ CountedUpTo(cleared) \in Clock
      /\ start = (CountedUpTo(cleared) - young) % Wrap
  <2>1. CountedUpTo(cleared) \in Clock
    <3> HIDE DEF cleared
    <3> QED
      BY <1>3 DEF CountedUpTo, Engines
  <2>2. CountedUpTo(cleared) - 0 = CountedUpTo(cleared)
    <3> HIDE DEF cleared
    <3>1. CountedUpTo(cleared) \in Int
      BY <2>1, ClockFacts
    <3> QED
      BY <3>1
  <2>3. CASE cleared.paused \/ cleared.resume_pending
    <3>1. cleared.paused = base.paused /\ cleared.resume_pending = base.resume_pending
      <4> HIDE DEF base
      <4> QED
        BY <1>1 DEF Referenced, Engines
    <3>2. young = 0
      BY <1>2, <2>3, <3>1
    <3>3. start = CountedUpTo(cleared)
      BY <2>3 DEF CountedUpTo
    <3> HIDE DEF cleared, start
    <3> QED
      BY <2>1, <2>2, <3>2, <3>3, ReadingStands
  <2>4. CASE ~cleared.paused /\ ~cleared.resume_pending /\ ~e.time_valid
    <3>1. young = 0 /\ start = t
      BY <2>4
    <3>2. CountedUpTo(cleared) = t
      <4> HIDE DEF base
      <4> QED
        BY <1>1, <1>2, <2>4, ReferencedCounts
    <3> HIDE DEF cleared, start
    <3> QED
      BY <2>1, <2>2, <3>1, <3>2, ReadingStands
  <2>5. CASE ~cleared.paused /\ ~cleared.resume_pending /\ e.time_valid
    <3>1. cleared = base
      <4> HIDE DEF base
      <4> QED
        BY <1>1, <1>2, <2>5, ReferencedCounts
    <3>2. young = - Elapsed(t, e.last_tick) /\ start = t
      BY <1>2, <2>5, <3>1
    <3>3. CountedUpTo(cleared) = e.last_tick
      BY <1>2, <2>5, <3>1 DEF CountedUpTo
    <3>4. e.last_tick \in Clock
      BY DEF Engines
    <3> HIDE DEF cleared, start
    <3> QED
      BY <2>1, <3>2, <3>3, <3>4, StartsYoung
  <2> QED
    BY <2>3, <2>4, <2>5
<1>5. f = [cleared EXCEPT !.effects =
             [cleared.effects EXCEPT ![i] =
                [@ EXCEPT !.playing = TRUE, !.loops = length, !.started = start]]]
  <2>1. f = [cleared EXCEPT !.effects[i].playing = TRUE, !.effects[i].loops = length,
                            !.effects[i].started = start]
    BY DEF Start
  <2> HIDE DEF cleared, length, start, f
  <2> QED
    BY <1>3, <2>1 DEF Engines, Effects
<1>6. Allocated(cleared.effects[i])
  <2> HIDE DEF cleared, base
  <2> QED
    BY <1>2, <1>3 DEF Allocated
<1> HIDE DEF base, cleared, start, length, f
<1>7. cleared.effects \in [Slots -> Effects]
  BY <1>3 DEF Engines
<1>8. /\ f.paused = cleared.paused /\ f.resume_pending = cleared.resume_pending
      /\ f.time_valid = cleared.time_valid
      /\ f.pause_started = cleared.pause_started /\ f.last_tick = cleared.last_tick
      /\ \A j \in Slots \ {i} : f.effects[j] = cleared.effects[j]
      /\ f.effects[i].started = start
      /\ f.effects[i].definition = cleared.effects[i].definition
  BY <1>3, <1>5, <1>7 DEF Engines, Effects
<1>9. CountedUpTo(f) = CountedUpTo(cleared)
  BY <1>8 DEF CountedUpTo
<1>10. Allocated(f.effects[i])
  BY <1>6, <1>8 DEF Allocated
<1>11. Counts(f, [a EXCEPT ![i] = young])
  <2>1. [a EXCEPT ![i] = young][i] = young
    OBVIOUS
  <2>2. \A j \in Slots \ {i} : [a EXCEPT ![i] = young][j] = a[j]
    OBVIOUS
  <2>3. f.resume_pending => f.time_valid
    BY <1>3, <1>8
  <2>4. f.effects[i].started = (CountedUpTo(f) - young) % Wrap /\ f.time_valid
    BY <1>3, <1>4, <1>8, <1>9
  <2>5. ASSUME NEW j \in Slots \ {i}, f.effects[j].playing
        PROVE  /\ Allocated(f.effects[j])
               /\ f.effects[j].started = (CountedUpTo(f) - a[j]) % Wrap
    BY <1>3, <1>8, <1>9, <2>5 DEF Counts
  <2> QED
    BY <1>10, <2>1, <2>2, <2>3, <2>4, <2>5 DEF Counts
<1> QED
  BY <1>11 DEF f

\* What still plays at a tick has its new age, before any effect is ended.
LEMMA MovedCounts ==
    ASSUME NEW e \in Engines, NEW a \in [Slots -> Int], Counts(e, a), NEW t \in Clock,
           NEW i \in Slots, e.effects[i].playing, ~e.paused,
           NEW new \in Int,
           LET lapse == IF ~e.resume_pending THEN Elapsed(t, e.last_tick) ELSE 0
           IN  new = a[i] + lapse \/ new = a[i] + lapse - Wrap
    PROVE  Moved(e, t, i) = (t - new) % Wrap
<1>1. /\ e.last_tick \in Clock /\ e.pause_started \in Clock /\ Wrap \in Int
      /\ a[i] \in Int
  BY ClockFacts DEF Engines
<1>2. e.effects[i].started = (CountedUpTo(e) - a[i]) % Wrap
  BY DEF Counts
<1>3. CASE e.resume_pending
  <2>1. new = a[i] \/ new = a[i] - Wrap
    BY <1>1, <1>3
  <2>2. CountedUpTo(e) = e.pause_started
    BY <1>3 DEF CountedUpTo
  <2>3. Moved(e, t, i)
          = (((e.pause_started - a[i]) % Wrap) + Elapsed(t, e.pause_started)) % Wrap
    BY <1>2, <1>3, <2>2 DEF Moved
  <2> QED
    BY <1>1, <2>1, <2>3, MovesWithPause
<1>4. CASE ~e.resume_pending
  <2>1. \/ new = a[i] + Elapsed(t, e.last_tick)
        \/ new = a[i] + Elapsed(t, e.last_tick) - Wrap
    BY <1>4
  <2>2. Moved(e, t, i) = (e.last_tick - a[i]) % Wrap
    BY <1>2, <1>4 DEF Moved, CountedUpTo
  <2>3. (e.last_tick - a[i]) % Wrap = (t - new) % Wrap
    BY <1>1, <2>1, GrowsOlder
  <2> QED
    BY <2>2, <2>3
<1> QED
  BY <1>3, <1>4

\* A tick, and what it adds to the ages.
LEMMA TickCounts ==
    ASSUME NEW e \in Engines, NEW a \in [Slots -> Int], Counts(e, a), NEW t \in Clock,
           NEW b \in [Slots -> Int],
           \A i \in Slots : e.effects[i].playing =>
              LET lapse == IF ~e.paused /\ ~e.resume_pending
                           THEN Elapsed(t, e.last_tick) ELSE 0
              IN  b[i] = a[i] + lapse \/ b[i] = a[i] + lapse - Wrap
    PROVE  Counts(Tick(e, t), b)
<1> DEFINE started == Referenced(e, t)
           f == Tick(e, t)
<1>1. /\ started \in Engines /\ started.time_valid
      /\ started.effects = e.effects
      /\ e.time_valid => started = e
      /\ ~e.time_valid => \A i \in Slots : ~e.effects[i].playing
  BY ReferencedCounts, ReferencedTyped
<1>2. /\ e.last_tick \in Clock /\ e.pause_started \in Clock
      /\ e.effects \in [Slots -> Effects] /\ Wrap \in Int
  BY ClockFacts DEF Engines
<1>3. CASE started.paused
  <2>1. f = started
    BY <1>3 DEF Tick
  <2>2. ASSUME NEW i \in Slots, started.effects[i].playing
        PROVE  /\ Allocated(started.effects[i])
               /\ started.effects[i].started = (CountedUpTo(started) - b[i]) % Wrap
    <3>1. e.effects[i].playing /\ e.time_valid /\ started = e
      BY <1>1, <2>2
    <3>2. b[i] = a[i] \/ b[i] = a[i] - Wrap
      BY <1>2, <1>3, <3>1
    <3>3. CountedUpTo(e) \in Clock /\ a[i] \in Int /\ b[i] \in Int
      BY <1>2 DEF CountedUpTo
    <3>4. (CountedUpTo(e) - a[i]) % Wrap = (CountedUpTo(e) - b[i]) % Wrap
      BY <3>2, <3>3, StaysAsOld
    <3>5. e.effects[i].started = (CountedUpTo(e) - a[i]) % Wrap /\ Allocated(e.effects[i])
      BY <3>1 DEF Counts
    <3> HIDE DEF started
    <3> QED
      BY <3>1, <3>4, <3>5
  <2> HIDE DEF started, f
  <2>3. Counts(f, b)
    BY <1>1, <2>1, <2>2 DEF Counts
  <2> QED
    BY <2>3 DEF f
<1>4. CASE ~started.paused
  <2>1. f = Tick(started, t)
    BY <1>1 DEF Tick, Referenced
  <2> HIDE DEF started, f
  <2> DEFINE moved(i) == MovedEffect(started, t, i)
  <2>2. /\ ~f.paused /\ ~f.resume_pending /\ f.time_valid /\ f.last_tick = t
        /\ \A i \in Slots :
             /\ moved(i) \in Effects
             /\ f.effects[i] = [moved(i) EXCEPT !.playing = @ /\ ~Ends(started, t, i)]
    BY <1>1, <1>4, <2>1, TickRuns
  <2>3. CountedUpTo(f) = t
    BY <2>2 DEF CountedUpTo
  <2>4. ASSUME NEW i \in Slots, f.effects[i].playing
        PROVE  /\ Allocated(f.effects[i])
               /\ f.effects[i].started = (t - b[i]) % Wrap
    <3>1. /\ f.effects[i].playing => started.effects[i].playing
          /\ f.effects[i].definition = started.effects[i].definition
          /\ f.effects[i].started = Moved(started, t, i)
      <4>1. /\ moved(i).playing = started.effects[i].playing
            /\ moved(i).definition = started.effects[i].definition
            /\ moved(i).started = Moved(started, t, i)
        BY <1>1, <1>2 DEF Effects, MovedEffect
      <4> HIDE DEF moved
      <4> QED
        BY <2>2, <4>1 DEF Effects
    <3>2. /\ e.effects[i].playing /\ e.time_valid /\ started = e
      BY <1>1, <2>4, <3>1
    <3>3. Allocated(e.effects[i]) /\ e.effects[i].started = (CountedUpTo(e) - a[i]) % Wrap
      BY <3>2 DEF Counts
    <3>4. Allocated(f.effects[i])
      BY <3>1, <3>2, <3>3 DEF Allocated
    <3>5. a[i] \in Int /\ b[i] \in Int /\ ~e.paused
      BY <1>4, <3>2
    <3>6. LET lapse == IF ~e.resume_pending THEN Elapsed(t, e.last_tick) ELSE 0
          IN  b[i] = a[i] + lapse \/ b[i] = a[i] + lapse - Wrap
      BY <3>2, <3>5
    <3>7. Moved(e, t, i) = (t - b[i]) % Wrap
      BY <3>2, <3>5, <3>6, MovedCounts
    <3> QED
      BY <3>1, <3>2, <3>4, <3>7
  <2>5. Counts(f, b)
    BY <2>2, <2>3, <2>4 DEF Counts
  <2> QED
    BY <2>5 DEF f
<1> QED
  BY <1>3, <1>4

-----------------------------------------------------------------------------
(* What a queue makes of a definition.                                     *)

Changing(s, i) == {n \in 1 .. Len(s) : Changes(s[n], i)}

\* What one command makes of the definition d of slot i.
Made(command, i, d) ==
    IF ~Changes(command, i) THEN d
    ELSE IF command.type = "set_effect" THEN command.effect ELSE NoDefinition

IsLast(s, i, n) == n \in Changing(s, i) /\ \A m \in Changing(s, i) : m <= n

\* Every queue has a last change; by way of an invariant, without induction.
HasLast(s, i) == Changing(s, i) # {} => \E n \in Changing(s, i) : IsLast(s, i, n)

\* FinalDefinition of any queue and definition.
FinalOf(s, i, d) ==
    IF Changing(s, i) = {} THEN d
    ELSE LET last == CHOOSE n \in Changing(s, i) : \A m \in Changing(s, i) : m <= n
         IN  IF s[last].type = "set_effect" THEN s[last].effect ELSE NoDefinition

LEMMA FinalDefinitionIs ==
    ASSUME NEW i \in Slots
    PROVE  /\ FinalDefinition(i) = FinalOf(commands, i, engine.effects[i].definition)
           /\ FinalDefinition(i)' = FinalOf(commands', i, engine'.effects[i].definition)
<1>1. FinalDefinition(i) = FinalOf(commands, i, engine.effects[i].definition)
  BY DEF FinalDefinition, FinalOf, Changing
<1>2. FinalDefinition(i)' = FinalOf(commands', i, engine'.effects[i].definition)
  BY DEF FinalDefinition, FinalOf, Changing
<1> QED
  BY <1>1, <1>2

LEMMA LastDecides ==
    ASSUME NEW s \in Seq(CommandSet), NEW i \in Slots, NEW d, NEW n, IsLast(s, i, n)
    PROVE  FinalOf(s, i, d) = Made(s[n], i, d)
<1> DEFINE last == CHOOSE k \in Changing(s, i) : \A m \in Changing(s, i) : m <= k
           made(c) == IF c.type = "set_effect" THEN c.effect ELSE NoDefinition
<1>1. Changing(s, i) \subseteq Int /\ n \in Changing(s, i)
  BY DEF Changing, IsLast
<1>2. last \in Changing(s, i) /\ \A m \in Changing(s, i) : m <= last
  BY DEF IsLast
<1>3. last <= n /\ n <= last /\ last \in Int /\ n \in Int
  BY <1>1, <1>2 DEF IsLast
<1>4. last = n
  <2> HIDE DEF last
  <2> QED
    BY <1>3
<1>5. Changes(s[n], i)
  BY <1>1 DEF Changing
<1>6. FinalOf(s, i, d) = made(s[last])
  BY <1>1 DEF FinalOf
<1>7. FinalOf(s, i, d) = made(s[n])
  <2> HIDE DEF last, made
  <2> QED
    BY <1>4, <1>6
<1> QED
  BY <1>5, <1>7 DEF Made

LEMMA EmptyFinal ==
    \A i \in Slots : \A d : HasLast(<<>>, i) /\ FinalOf(<<>>, i, d) = d
<1>1. Len(<<>>) = 0
  OBVIOUS
<1>2. \A i : Changing(<<>>, i) = {}
  BY <1>1 DEF Changing
<1> QED
  BY <1>2 DEF HasLast, FinalOf

LEMMA AppendedFinal ==
    ASSUME NEW s \in Seq(CommandSet), NEW c \in CommandSet, NEW i \in Slots, NEW d,
           HasLast(s, i)
    PROVE  /\ HasLast(Append(s, c), i)
           /\ FinalOf(Append(s, c), i, d) = Made(c, i, FinalOf(s, i, d))
<1> DEFINE longer == Append(s, c)
<1>1. /\ longer \in Seq(CommandSet) /\ Len(longer) = Len(s) + 1 /\ Len(s) \in Nat
      /\ longer[Len(s) + 1] = c
      /\ \A n \in 1 .. Len(s) : longer[n] = s[n]
  OBVIOUS
<1> HIDE DEF longer
<1>2. CASE Changes(c, i)
  <2>1. IsLast(longer, i, Len(s) + 1)
    BY <1>1, <1>2 DEF IsLast, Changing
  <2>2. FinalOf(longer, i, d) = Made(c, i, d)
    BY <1>1, <2>1, LastDecides
  <2>3. Made(c, i, d) = Made(c, i, FinalOf(s, i, d))
    BY <1>2 DEF Made
  <2>4. HasLast(longer, i)
    BY <2>1 DEF HasLast, IsLast
  <2> QED
    BY <2>2, <2>3, <2>4 DEF longer
<1>3. CASE ~Changes(c, i)
  <2>1. Changing(longer, i) = Changing(s, i)
    BY <1>1, <1>3 DEF Changing
  <2>2. HasLast(longer, i)
    BY <2>1 DEF HasLast, IsLast
  <2>3. FinalOf(longer, i, d) = FinalOf(s, i, d)
    <3>1. CASE Changing(s, i) = {}
      BY <2>1, <3>1 DEF FinalOf
    <3>2. CASE Changing(s, i) # {}
      <4>1. PICK n \in Changing(s, i) : IsLast(s, i, n)
        BY <3>2 DEF HasLast
      <4>2. IsLast(longer, i, n) /\ longer[n] = s[n]
        BY <1>1, <2>1, <4>1 DEF IsLast, Changing
      <4> QED
        BY <1>1, <4>1, <4>2, LastDecides
    <3> QED
      BY <3>1, <3>2
  <2>4. Made(c, i, FinalOf(s, i, d)) = FinalOf(s, i, d)
    BY <1>3 DEF Made
  <2> QED
    BY <2>2, <2>3, <2>4 DEF longer
<1> QED
  BY <1>2, <1>3

LEMMA PoppedFinal ==
    ASSUME NEW s \in Seq(CommandSet), s # <<>>, NEW i \in Slots, NEW d, HasLast(s, i)
    PROVE  /\ HasLast(Tail(s), i)
           /\ FinalOf(Tail(s), i, Made(Head(s), i, d)) = FinalOf(s, i, d)
<1> DEFINE rest == Tail(s)
           e == Made(Head(s), i, d)
<1>1. /\ rest \in Seq(CommandSet) /\ Len(rest) = Len(s) - 1 /\ Len(s) \in Nat \ {0}
      /\ Head(s) = s[1]
      /\ \A n \in 1 .. Len(s) - 1 : rest[n] = s[n + 1]
  OBVIOUS
<1> HIDE DEF rest
<1>2. \A n \in 1 .. Len(s) - 1 : n \in Changing(rest, i) <=> n + 1 \in Changing(s, i)
  BY <1>1 DEF Changing
<1>3. Changing(s, i) \subseteq 1 .. Len(s) /\ Changing(rest, i) \subseteq 1 .. Len(s) - 1
  BY <1>1 DEF Changing
<1>4. CASE Changing(s, i) = {}
  <2>1. Changing(rest, i) = {}
    BY <1>1, <1>2, <1>3, <1>4
  <2>2. ~Changes(s[1], i)
    BY <1>1, <1>4 DEF Changing
  <2> QED
    BY <1>1, <1>4, <2>1, <2>2 DEF HasLast, FinalOf, Made, rest
<1>5. CASE Changing(s, i) # {}
  <2>1. PICK n \in Changing(s, i) : IsLast(s, i, n)
    BY <1>5 DEF HasLast
  <2>2. n \in 1 .. Len(s) /\ \A m \in Changing(s, i) : m <= n
    BY <1>3, <2>1 DEF IsLast
  <2>3. FinalOf(s, i, d) = Made(s[n], i, d) /\ Changes(s[n], i)
    BY <2>1, LastDecides DEF Changing
  <2>4. CASE n = 1
    <3>1. Changing(rest, i) = {}
      BY <1>1, <1>2, <1>3, <2>2, <2>4
    <3>2. FinalOf(rest, i, e) = e
      BY <3>1 DEF FinalOf
    <3> QED
      BY <1>1, <2>3, <2>4, <3>1, <3>2 DEF HasLast, rest
  <2>5. CASE n # 1
    <3>1. n - 1 \in 1 .. Len(s) - 1 /\ n - 1 \in Changing(rest, i)
      BY <1>1, <1>2, <2>1, <2>2, <2>5
    <3>2. \A m \in Changing(rest, i) : m <= n - 1
      BY <1>1, <1>2, <1>3, <2>2
    <3>3. IsLast(rest, i, n - 1) /\ rest[n - 1] = s[n]
      BY <1>1, <3>1, <3>2, <2>2 DEF IsLast
    <3>4. FinalOf(rest, i, e) = Made(s[n], i, e)
      BY <1>1, <3>3, LastDecides
    <3>5. Made(s[n], i, e) = Made(s[n], i, d)
      BY <2>3 DEF Made
    <3>6. HasLast(rest, i)
      BY <3>1, <3>3 DEF HasLast
    <3> QED
      BY <2>3, <3>4, <3>5, <3>6 DEF rest
  <2> QED
    BY <2>4, <2>5
<1> QED
  BY <1>4, <1>5

\* A command makes of the engine's definitions what the queue says it does.
LEMMA AppliedMakes ==
    ASSUME TypeOK, NEW command \in CommandSet, NEW i \in Slots
    PROVE  Applied(command).effects[i].definition
             = Made(command, i, engine.effects[i].definition)
<1> DEFINE k == command.index
           old == engine.effects[i].definition
           new == Applied(command).effects[i].definition
<1>1. /\ engine \in Engines /\ engine.effects \in [Slots -> Effects] /\ now \in Clock
      /\ command.type \in SlotKinds \cup EngineKinds
      /\ k \in Slots /\ command.loops \in Loops \cup {1} /\ command.solo \in BOOLEAN
      /\ command.effect \in Definitions \cup {NoDefinition}
  BY DEF TypeOK, CommandSet, Engines
<1>2. CASE command.type = "set_effect"
  <2>1. Applied(command) = UpdateDefinition(engine, k, command.effect)
    BY <1>2 DEF Applied
  <2>2. CASE i = k
    <3>1. Applied(command).effects[i].definition = command.effect
      BY <1>1, <2>1, <2>2 DEF UpdateDefinition, Engines, Effects, BlankEffect
    <3> QED
      BY <1>2, <2>2, <3>1 DEF Made, Changes
  <2>3. CASE i # k
    <3>1. Applied(command).effects[i] = engine.effects[i]
      BY <1>1, <2>1, <2>3 DEF UpdateDefinition, Engines
    <3> QED
      BY <1>2, <2>3, <3>1 DEF Made, Changes
  <2> QED
    BY <2>2, <2>3
<1>3. CASE command.type = "free_effect"
  <2>1. Applied(command) = FreeEffect(engine, k)
    BY <1>3 DEF Applied
  <2> QED
    BY <1>1, <1>3, <2>1 DEF FreeEffect, Engines, BlankEffect, Made, Changes
<1>4. CASE command.type = "reset"
  <2>1. Applied(command) = InitialEngine
    BY <1>4 DEF Applied
  <2> QED
    BY <1>4, <2>1 DEF InitialEngine, BlankEffect, Made, Changes
<1>5. CASE command.type \notin {"set_effect", "free_effect", "reset"}
  <2>1. Made(command, i, old) = old
    BY <1>5 DEF Made, Changes
  <2>2. \A on \in BOOLEAN :
          /\ SetPaused(engine, on).effects = engine.effects
          /\ SetActuatorsEnabled(engine, on).effects[i].definition = old
    BY <1>1 DEF SetPaused, SetActuatorsEnabled, StopAll, Engines, Effects
  <2>3. /\ StopAll(engine).effects[i].definition = old
        /\ Stop(engine, k).effects[i].definition = old
    BY <1>1 DEF StopAll, Stop, Engines, Effects
  <2>4. CASE command.type = "start_effect"
    <3> DEFINE base == IF command.solo THEN StopAll(engine) ELSE engine
               cleared == Referenced(base, now)
    <3>1. base \in Engines /\ base.effects[i].definition = old
      BY <1>1, <2>3, TableMethodsTyped
    <3>2. cleared \in Engines /\ cleared.effects[i].definition = old
      <4> HIDE DEF base
      <4> QED
        BY <1>1, <3>1, ReferencedTyped DEF Referenced, Engines
    <3>3. Applied(command) = Start(engine, k, command.loops, command.solo, now)
      BY <2>4 DEF Applied
    <3>4. CASE ~Allocated(engine.effects[k])
      BY <2>1, <3>3, <3>4 DEF Start
    <3>5. CASE Allocated(engine.effects[k])
      <4>1. Applied(command) =
              [cleared EXCEPT
                 !.effects[k].playing = TRUE,
                 !.effects[k].loops = IF command.loops = 0 THEN 1 ELSE command.loops,
                 !.effects[k].started = IF cleared.paused \/ cleared.resume_pending
                                        THEN cleared.pause_started ELSE now]
        BY <3>3, <3>5 DEF Start
      <4> HIDE DEF cleared
      <4>2. Applied(command).effects[i].definition = old
        BY <1>1, <3>2, <4>1 DEF Engines, Effects
      <4> QED
        BY <2>1, <4>2
    <3> QED
      BY <3>4, <3>5
  <2>5. CASE command.type = "stop_effect"
    BY <2>1, <2>3, <2>5 DEF Applied
  <2>6. CASE command.type = "stop_all"
    BY <2>1, <2>3, <2>6 DEF Applied
  <2>7. CASE command.type \in {"enable_actuators", "disable_actuators", "pause", "resume"}
    BY <2>1, <2>2, <2>7 DEF Applied
  <2> QED
    BY <1>1, <1>5, <2>4, <2>5, <2>6, <2>7 DEF SlotKinds, EngineKinds
<1> QED
  BY <1>2, <1>3, <1>4, <1>5

\* A tick leaves definitions alone.
LEMMA TickKeeps ==
    ASSUME NEW e \in Engines, NEW t \in Clock, NEW i \in Slots
    PROVE  /\ Tick(e, t).effects[i].definition = e.effects[i].definition
           /\ \A on \in BOOLEAN :
                SetActuatorsEnabled(e, on).effects[i].definition = e.effects[i].definition
<1> DEFINE started == Referenced(e, t)
<1>1. /\ started \in Engines /\ started.time_valid /\ started.effects = e.effects
      /\ started.effects \in [Slots -> Effects]
  BY ReferencedTyped DEF Referenced, Engines
<1>2. Tick(e, t) = Tick(started, t)
  BY <1>1 DEF Tick, Referenced
<1>3. \A on \in BOOLEAN :
        SetActuatorsEnabled(e, on).effects[i].definition = e.effects[i].definition
  BY DEF SetActuatorsEnabled, StopAll, Engines, Effects
<1>4. CASE started.paused
  BY <1>1, <1>3, <1>4 DEF Tick
<1>5. CASE ~started.paused
  <2> HIDE DEF started
  <2> DEFINE moved == MovedEffect(started, t, i)
  <2>1. /\ moved \in Effects
        /\ Tick(started, t).effects[i]
             = [moved EXCEPT !.playing = @ /\ ~Ends(started, t, i)]
    BY <1>1, <1>5, TickRuns
  <2>2. moved.definition = started.effects[i].definition
    BY <1>1 DEF Effects, MovedEffect
  <2> HIDE DEF moved
  <2>3. Tick(started, t).effects[i].definition = moved.definition
    BY <2>1 DEF Effects
  <2> QED
    BY <1>1, <1>2, <1>3, <2>2, <2>3
<1> QED
  BY <1>4, <1>5


-----------------------------------------------------------------------------
(* The inductive invariant.                                                *)

QueueEnds == \A i \in Slots : HasLast(commands, i)

PlaybackInvariant == Counts(engine, age) /\ TablesAgree /\ QueueEnds

LEMMA QueuedFinal ==
    ASSUME TypeOK, QueueEnds, NEW command \in CommandSet, Queue(command), engine' = engine,
           NEW i \in Slots
    PROVE  /\ HasLast(commands', i)
           /\ FinalDefinition(i)' = IF Fits THEN Made(command, i, FinalDefinition(i))
                                    ELSE FinalDefinition(i)
<1> DEFINE d == engine.effects[i].definition
<1>1. /\ FinalDefinition(i) = FinalOf(commands, i, d)
      /\ FinalDefinition(i)' = FinalOf(commands', i, d)
  BY FinalDefinitionIs
<1>2. commands \in Seq(CommandSet) /\ HasLast(commands, i)
  BY DEF TypeOK, QueueEnds
<1> HIDE DEF d
<1>3. /\ HasLast(Append(commands, command), i)
      /\ FinalOf(Append(commands, command), i, d)
           = Made(command, i, FinalOf(commands, i, d))
  BY <1>2, AppendedFinal
<1> QED
  BY <1>1, <1>2, <1>3 DEF Queue

\* Control reports but the reset change nothing.
LEMMA MadeByHost ==
    /\ \A kind \in EngineKinds \ {"reset"}, i \in Slots : \A d :
          Made(EngineCommand(kind), i, d) = d
    /\ \A i \in Slots : \A d : Made(EngineCommand("reset"), i, d) = NoDefinition
    /\ \A k \in Slots, i \in Slots : \A d :
          Made(SlotCommand("free_effect", k), i, d) = IF i = k THEN NoDefinition ELSE d
BY DEF Made, Changes, EngineCommand, SlotCommand, EngineKinds

\* Reports.
LEMMA ReportAgrees ==
    ASSUME TypeOK, PlaybackInvariant, HostReport
    PROVE  PlaybackInvariant'
<1>1. /\ TypeOK /\ TablesAgree /\ QueueEnds /\ Counts(engine, age)
      /\ engine' = engine /\ age' = age
  BY DEF PlaybackInvariant, HostReport, Control, Operate, CreateEffect, CreateNothing,
         SetParameters, FreeBlock, DeviceReset, Report, controlVars
<1>2. Counts(engine', age')
  BY <1>1
<1>3. ASSUME QueueEnds', TablesAgree' PROVE PlaybackInvariant'
  BY <1>2, <1>3 DEF PlaybackInvariant
<1>4. ASSUME NEW command \in CommandSet, Queue(command)
      PROVE  /\ QueueEnds'
             /\ \A i \in Slots :
                  FinalDefinition(i)' = IF Fits THEN Made(command, i, FinalDefinition(i))
                                        ELSE FinalDefinition(i)
  BY <1>1, <1>4, QueuedFinal DEF QueueEnds
<1>5. \A i \in Slots : /\ FinalDefinition(i).type = table[i].type
                       /\ i \notin stale => FinalDefinition(i) = table[i]
  BY <1>1 DEF TablesAgree
<1>6. table \in [Slots -> Definitions \cup {NoDefinition}]
  BY DEF TypeOK
<1>7. ASSUME NEW kind \in EngineKinds \ {"reset"}, Control(kind) PROVE PlaybackInvariant'
  <2>1. EngineCommand(kind) \in CommandSet /\ Queue(EngineCommand(kind))
    BY <1>7, CommandsTyped DEF Control
  <2>2. \A i \in Slots : \A d : Made(EngineCommand(kind), i, d) = d
    BY MadeByHost
  <2>3. /\ QueueEnds'
        /\ \A i \in Slots : FinalDefinition(i)' = FinalDefinition(i)
    BY <1>4, <2>1, <2>2
  <2>4. TablesAgree'
    BY <1>5, <1>7, <2>3 DEF TablesAgree, Control
  <2> QED
    BY <1>3, <2>3, <2>4
<1>8. ASSUME NEW k \in Slots, NEW kind \in {"start_effect", "stop_effect"},
             NEW loops \in Loops \cup {1}, NEW solo \in BOOLEAN, Operate(k, kind, loops, solo)
      PROVE  PlaybackInvariant'
  <2> DEFINE command == [SlotCommand(kind, k) EXCEPT !.loops = loops, !.solo = solo]
  <2>1. /\ command \in CommandSet /\ Queue(command)
        /\ \A i \in Slots : \A d : Made(command, i, d) = d
    <3>1. command \in CommandSet
      BY CommandsTyped DEF SlotKinds
    <3>2. Queue(command)
      BY <1>8 DEF Operate
    <3>3. ASSUME NEW i \in Slots, NEW d PROVE Made(command, i, d) = d
      BY DEF Made, Changes, SlotCommand, EngineCommand
    <3> QED
      BY <3>1, <3>2, <3>3
  <2> HIDE DEF command
  <2>2. /\ QueueEnds'
        /\ \A i \in Slots : FinalDefinition(i)' = FinalDefinition(i)
    BY <1>4, <2>1
  <2>3. TablesAgree'
    BY <1>5, <1>8, <2>2 DEF TablesAgree, Operate
  <2> QED
    BY <1>3, <2>2, <2>3
<1>9. ASSUME NEW type \in Types, CreateEffect(type) PROVE PlaybackInvariant'
  <2> DEFINE new == NewDefinition(type)
  <2>1. PICK k \in FreeSlots(table) :
          /\ Queue([SlotCommand("set_effect", k) EXCEPT !.effect = new])
          /\ table' = IF Fits THEN [table EXCEPT ![k] = new] ELSE table
          /\ stale' = IF Fits THEN stale \ {k} ELSE stale
    BY <1>9 DEF CreateEffect
  <2>2. k \in Slots /\ new \in Definitions
    BY <2>1, NewTyped DEF FreeSlots
  <2> HIDE DEF new
  <2> DEFINE command == [SlotCommand("set_effect", k) EXCEPT !.effect = new]
  <2>3. /\ command \in CommandSet /\ Queue(command)
        /\ \A i \in Slots : \A d : Made(command, i, d) = IF i = k THEN new ELSE d
    <3>1. command \in CommandSet
      BY <2>2, CommandsTyped
    <3>2. Queue(command)
      BY <2>1
    <3>3. ASSUME NEW i \in Slots, NEW d PROVE Made(command, i, d) = IF i = k THEN new ELSE d
      BY DEF Made, Changes, SlotCommand, EngineCommand
    <3> QED
      BY <3>1, <3>2, <3>3
  <2> HIDE DEF command
  <2>4. /\ QueueEnds'
        /\ \A i \in Slots :
             FinalDefinition(i)' = IF Fits /\ i = k THEN new ELSE FinalDefinition(i)
    BY <1>4, <2>3
  <2>5. TablesAgree'
    BY <1>5, <1>6, <2>1, <2>2, <2>4 DEF TablesAgree
  <2> QED
    BY <1>3, <2>4, <2>5
<1>10. ASSUME NEW status, CreateNothing(status) PROVE PlaybackInvariant'
  <2>1. UNCHANGED <<table, commands, engine, stale>>
    BY <1>1, <1>10 DEF CreateNothing
  <2>2. QueueEnds' /\ \A i \in Slots : FinalDefinition(i)' = FinalDefinition(i)
    BY <1>1, <2>1 DEF QueueEnds, FinalDefinition
  <2>3. TablesAgree'
    BY <1>5, <2>1, <2>2 DEF TablesAgree
  <2> QED
    BY <1>3, <2>2, <2>3
<1>11. ASSUME NEW k \in Slots, NEW new \in Definitions, SetParameters(k, new)
       PROVE  PlaybackInvariant'
  <2> DEFINE command == [SlotCommand("set_effect", k) EXCEPT !.effect = new]
  <2>1. /\ command \in CommandSet /\ Queue(command)
        /\ \A i \in Slots : \A d : Made(command, i, d) = IF i = k THEN new ELSE d
    <3>1. command \in CommandSet
      BY CommandsTyped
    <3>2. Queue(command)
      BY <1>11 DEF SetParameters
    <3>3. ASSUME NEW i \in Slots, NEW d PROVE Made(command, i, d) = IF i = k THEN new ELSE d
      BY DEF Made, Changes, SlotCommand, EngineCommand
    <3> QED
      BY <3>1, <3>2, <3>3
  <2> HIDE DEF command
  <2>2. /\ QueueEnds'
        /\ \A i \in Slots :
             FinalDefinition(i)' = IF Fits /\ i = k THEN new ELSE FinalDefinition(i)
    BY <1>4, <2>1
  <2>3. TablesAgree'
    BY <1>5, <1>6, <1>11, <2>2 DEF TablesAgree, SetParameters
  <2> QED
    BY <1>3, <2>2, <2>3
<1>12. ASSUME NEW k \in Slots, FreeBlock(k) PROVE PlaybackInvariant'
  <2> DEFINE command == SlotCommand("free_effect", k)
  <2>1. /\ command \in CommandSet /\ Queue(command)
        /\ \A i \in Slots : \A d : Made(command, i, d) = IF i = k THEN NoDefinition ELSE d
    BY <1>12, CommandsTyped, MadeByHost DEF SlotKinds, FreeBlock
  <2> HIDE DEF command
  <2>2. /\ QueueEnds'
        /\ \A i \in Slots : FinalDefinition(i)' = IF Fits /\ i = k THEN NoDefinition
                                                  ELSE FinalDefinition(i)
    BY <1>4, <2>1
  <2>3. TablesAgree'
    BY <1>5, <1>6, <1>12, <2>2 DEF TablesAgree, FreeBlock
  <2> QED
    BY <1>3, <2>2, <2>3
<1>13. CASE DeviceReset
  <2> DEFINE command == EngineCommand("reset")
  <2>1. /\ command \in CommandSet /\ Queue(command)
        /\ \A i \in Slots : \A d : Made(command, i, d) = NoDefinition
    BY <1>13, CommandsTyped, MadeByHost DEF EngineKinds, DeviceReset
  <2> HIDE DEF command
  <2>2. /\ QueueEnds'
        /\ \A i \in Slots : FinalDefinition(i)' = IF Fits THEN NoDefinition
                                                  ELSE FinalDefinition(i)
    BY <1>4, <2>1
  <2>3. TablesAgree'
    BY <1>5, <1>6, <1>13, <2>2 DEF TablesAgree, DeviceReset
  <2> QED
    BY <1>3, <2>2, <2>3
<1>14. \A loops \in Loops : loops \in Loops \cup {1}
  OBVIOUS
<1> QED
  BY <1>7, <1>8, <1>9, <1>10, <1>11, <1>12, <1>13, <1>14 DEF HostReport

\* Applying a command.
LEMMA CommandAgrees ==
    ASSUME TypeOK, PlaybackInvariant, ApplyCommand
    PROVE  PlaybackInvariant'
<1> DEFINE command == Head(commands)
           k == command.index
<1>1. /\ commands \in Seq(CommandSet) /\ commands # <<>> /\ commands' = Tail(commands)
      /\ command \in CommandSet
      /\ engine' = Applied(command)
      /\ engine \in Engines /\ age \in [Slots -> Int] /\ now \in Clock
      /\ Counts(engine, age) /\ TablesAgree /\ QueueEnds
  BY DEF ApplyCommand, TypeOK, PlaybackInvariant
<1> HIDE DEF command
<1>2. ASSUME NEW i \in Slots
      PROVE  HasLast(commands', i) /\ FinalDefinition(i)' = FinalDefinition(i)
  <2> DEFINE d == engine.effects[i].definition
  <2>1. HasLast(commands, i)
    BY <1>1 DEF QueueEnds
  <2>2. engine'.effects[i].definition = Made(command, i, d)
    BY <1>1, AppliedMakes
  <2>3. /\ FinalDefinition(i) = FinalOf(commands, i, d)
        /\ FinalDefinition(i)' = FinalOf(commands', i, engine'.effects[i].definition)
    BY FinalDefinitionIs
  <2> HIDE DEF d
  <2>4. /\ HasLast(Tail(commands), i)
        /\ FinalOf(Tail(commands), i, Made(Head(commands), i, d))
             = FinalOf(commands, i, d)
    BY <1>1, <2>1, PoppedFinal
  <2> QED
    BY <1>1, <2>2, <2>3, <2>4 DEF command
<1>3. QueueEnds'
  BY <1>2 DEF QueueEnds
<1>4. TablesAgree'
  <2>1. UNCHANGED <<table, stale>>
    BY DEF ApplyCommand, hostVars
  <2> QED
    BY <1>1, <1>2, <2>1 DEF TablesAgree
<1>5. Counts(engine', age')
  <2>1. /\ command.type \in SlotKinds \cup EngineKinds
        /\ k \in Slots /\ command.loops \in Loops \cup {1} /\ command.solo \in BOOLEAN
        /\ command.effect \in Definitions \cup {NoDefinition}
    BY <1>1 DEF CommandSet
  <2>2. CASE command.type = "start_effect" /\ Allocated(engine.effects[k])
    <3>1. age' = [age EXCEPT ![k] = AgeAtStart]
      BY <2>2 DEF ApplyCommand, command
    <3>2. engine' = Start(engine, k, command.loops, command.solo, now)
      BY <1>1, <2>2 DEF Applied
    <3>3. AgeAtStart \in Int
      <4>1. Elapsed(now, engine.last_tick) \in Int
        BY <1>1, ElapsedTime DEF Engines
      <4> QED
        BY <4>1 DEF AgeAtStart
    <3>4. AgeAtStart = IF engine.time_valid /\ ~engine.paused /\ ~engine.resume_pending
                       THEN - Elapsed(now, engine.last_tick) ELSE 0
      BY DEF AgeAtStart
    <3> DEFINE young == AgeAtStart
    <3>5. Allocated(engine.effects[k])
      BY <2>2
    <3> HIDE DEF k, young
    <3>6. young \in Int /\ young = IF engine.time_valid /\ ~engine.paused
                                       /\ ~engine.resume_pending
                                    THEN - Elapsed(now, engine.last_tick) ELSE 0
      BY <3>3, <3>4 DEF young
    <3>7. Counts(Start(engine, k, command.loops, command.solo, now),
                 [age EXCEPT ![k] = young])
      BY <1>1, <2>1, <3>5, <3>6, StartCounts
    <3> QED
      BY <3>1, <3>2, <3>7 DEF young
  <2>3. CASE ~(command.type = "start_effect" /\ Allocated(engine.effects[k]))
    <3>1. age' = age
      BY <2>3 DEF ApplyCommand, command
    <3>2. /\ Counts(UpdateDefinition(engine, k, command.effect), age)
          /\ Counts(FreeEffect(engine, k), age)
          /\ Counts(StopAll(engine), age)
          /\ Counts(Stop(engine, k), age)
      BY <1>1, <2>1, TableMethodsCount
    <3>3. \A on \in BOOLEAN : /\ Counts(SetPaused(engine, on), age)
                              /\ Counts(SetActuatorsEnabled(engine, on), age)
      BY <1>1, SwitchesCount
    <3>4. Counts(InitialEngine, age)
      BY DEF Counts, InitialEngine, BlankEffect
    <3>5. CASE command.type = "start_effect"
      <4>1. engine' = Start(engine, k, command.loops, command.solo, now)
        BY <1>1, <3>5 DEF Applied
      <4>2. engine' = engine
        BY <2>3, <3>5, <4>1 DEF Start
      <4> QED
        BY <1>1, <3>1, <4>2
    <3>6. CASE command.type # "start_effect"
      <4> HIDE DEF k
      <4>1. Counts(Applied(command), age)
        BY <2>1, <3>2, <3>3, <3>4, <3>6 DEF Applied, SlotKinds, EngineKinds, k
      <4> QED
        BY <1>1, <3>1, <4>1
    <3> QED
      BY <3>5, <3>6
  <2> QED
    BY <2>2, <2>3
<1> QED
  BY <1>3, <1>4, <1>5 DEF PlaybackInvariant

\* A tick.
LEMMA TickAgrees ==
    ASSUME TypeOK, PlaybackInvariant, NEW revoked \in Revocations, TickEngine(revoked)
    PROVE  PlaybackInvariant'
<1> DEFINE checked == IF revoked THEN SetActuatorsEnabled(engine, FALSE) ELSE engine
<1>1. /\ engine \in Engines /\ age \in [Slots -> Int] /\ now \in Clock
      /\ engine.effects \in [Slots -> Effects]
      /\ Counts(engine, age) /\ TablesAgree /\ QueueEnds
      /\ UNCHANGED <<table, stale, commands>>
      /\ engine' = Tick(checked, now)
      /\ age' = [i \in Slots |-> IF checked.effects[i].playing THEN Older(age[i]) ELSE 0]
  BY DEF TypeOK, PlaybackInvariant, TickEngine, hostVars, Engines
<1>2. checked \in Engines /\ Counts(checked, age)
  BY <1>1, SwitchesTyped, SwitchesCount
<1>3. /\ checked.paused = engine.paused /\ checked.resume_pending = engine.resume_pending
      /\ checked.time_valid = engine.time_valid /\ checked.last_tick = engine.last_tick
      /\ \A i \in Slots : checked.effects[i].definition = engine.effects[i].definition
  BY <1>1, TickKeeps DEF SetActuatorsEnabled, StopAll, Engines
<1> HIDE DEF checked
<1>4. /\ Counted \in Int /\ Wrap \in Int
      /\ \A a \in Int : /\ Older(a) \in Int
                        /\ Older(a) = a + Counted \/ Older(a) = a + Counted - Wrap
  <2>1. Elapsed(now, engine.last_tick) \in Int /\ Wrap \in Int
    BY <1>1, ElapsedTime DEF Engines
  <2>2. Counted \in Int
    BY <2>1 DEF Counted
  <2> QED
    BY <2>1, <2>2 DEF Older
<1>5. age' \in [Slots -> Int]
  BY <1>1, <1>4
<1>6. ASSUME NEW i \in Slots, checked.effects[i].playing
      PROVE  LET lapse == IF ~checked.paused /\ ~checked.resume_pending
                          THEN Elapsed(now, checked.last_tick) ELSE 0
             IN  age'[i] = age[i] + lapse \/ age'[i] = age[i] + lapse - Wrap
  <2>1. engine.time_valid
    BY <1>2, <1>3, <1>6 DEF Counts
  <2>2. Counted = IF ~checked.paused /\ ~checked.resume_pending
                  THEN Elapsed(now, checked.last_tick) ELSE 0
    BY <1>3, <2>1 DEF Counted
  <2>3. age'[i] = Older(age[i]) /\ age[i] \in Int
    BY <1>1, <1>6
  <2> QED
    BY <1>4, <2>2, <2>3
<1>7. Counts(Tick(checked, now), age')
  BY <1>1, <1>2, <1>5, <1>6, TickCounts
<1>8. \A i \in Slots : FinalDefinition(i)' = FinalDefinition(i)
  <2>1. \A i \in Slots : engine'.effects[i].definition = engine.effects[i].definition
    BY <1>1, <1>2, <1>3, TickKeeps
  <2> QED
    BY <1>1, <2>1 DEF FinalDefinition
<1>9. QueueEnds' /\ TablesAgree'
  BY <1>1, <1>8 DEF QueueEnds, TablesAgree
<1> QED
  BY <1>1, <1>7, <1>9 DEF PlaybackInvariant

LEMMA InitAgrees == Init => PlaybackInvariant
<1> SUFFICES ASSUME Init PROVE PlaybackInvariant
  OBVIOUS
<1>1. PICK enabled \in BOOLEAN :
        engine = [InitialEngine EXCEPT
                    !.enabled = enabled,
                    !.effects = [i \in Slots |->
                                   [BlankEffect EXCEPT !.definition = table[i]]]]
  BY DEF Init
<1>2. /\ ~engine.resume_pending
      /\ \A i \in Slots : /\ ~engine.effects[i].playing
                          /\ engine.effects[i].definition = table[i]
  BY <1>1 DEF InitialEngine, BlankEffect
<1>3. Counts(engine, age)
  BY <1>2 DEF Counts
<1>4. commands = <<>>
  BY DEF Init
<1>5. \A i \in Slots : HasLast(commands, i) /\ FinalDefinition(i) = table[i]
  BY <1>2, <1>4, EmptyFinal, FinalDefinitionIs
<1> QED
  BY <1>3, <1>5 DEF PlaybackInvariant, QueueEnds, TablesAgree

LEMMA StepAgrees == TypeOK /\ PlaybackInvariant /\ [Next]_vars => PlaybackInvariant'
<1> SUFFICES ASSUME TypeOK, PlaybackInvariant, [Next]_vars PROVE PlaybackInvariant'
  OBVIOUS
<1>1. ASSUME UNCHANGED <<table, stale, commands, engine, age>> PROVE PlaybackInvariant'
  <2>1. \A i \in Slots : FinalDefinition(i)' = FinalDefinition(i)
    BY <1>1 DEF FinalDefinition
  <2>2. TablesAgree'
    BY <1>1, <2>1 DEF PlaybackInvariant, TablesAgree
  <2>3. QueueEnds'
    BY <1>1 DEF PlaybackInvariant, QueueEnds
  <2> QED
    BY <1>1, <2>2, <2>3 DEF PlaybackInvariant
<1>2. CASE TimePasses
  BY <1>1, <1>2 DEF TimePasses, hostVars
<1>3. CASE UNCHANGED vars
  BY <1>1, <1>3 DEF vars
<1> QED
  BY <1>2, <1>3, ReportAgrees, CommandAgrees, TickAgrees DEF Next, ControlStep

\* Every variable keeps its type: no queue exceeds its ring, and the block
\* load names a slot that exists.
THEOREM TypeCorrect == Spec => []TypeOK
<1> QED
  BY InitTypes, StepTypes, PTL DEF Spec

LEMMA Inductive == Spec => [](TypeOK /\ PlaybackInvariant)
<1> QED
  BY InitTypes, StepTypes, InitAgrees, StepAgrees, PTL DEF Spec

\* The engine ends up with the effects the host's table has (create_effect,
\* parse_output and apply_command).
THEOREM SameTables == Spec => []TablesAgree
<1>1. TypeOK /\ PlaybackInvariant => TablesAgree
  BY DEF PlaybackInvariant
<1> QED
  BY <1>1, Inductive, PTL

\* An effect's start time, moved by every pause, is what its age makes of the
\* clock (start, set_paused and tick).
THEOREM ClockKept == Spec => []ClockInvariant
<1>1. TypeOK /\ PlaybackInvariant => ClockInvariant
  BY CountsIsInvariant DEF PlaybackInvariant
<1> QED
  BY <1>1, Inductive, PTL

-----------------------------------------------------------------------------
(* What a creation is answered.                                            *)

LEMMA StepAnswers ==
    ASSUME TypeOK, TablesAgree', [Next]_vars,
           block_load' # block_load, block_load'.status # "error"
    PROVE  BlockLoadHolds'
<1> DEFINE free == {i \in Slots : FinalDefinition(i).type = None}
<1>1. free' = FreeSlots(table')
  BY DEF TablesAgree, FreeSlots
<1>2. ASSUME /\ block_load'.available = Cardinality(FreeSlots(table'))
             /\ block_load'.status = "success" =>
                  /\ block_load'.index \in Slots \ stale'
                  /\ block_load'.index \notin FreeSlots(table')
      PROVE  BlockLoadHolds'
  <2>1. block_load'.status = "success" =>
          FinalDefinition(block_load.index)' = table'[block_load'.index]
    BY <1>2 DEF TablesAgree
  <2> QED
    BY <1>1, <1>2, <2>1 DEF BlockLoadHolds
<1>3. (\E type \in Types : CreateEffect(type))
        \/ (\E status \in {"full", "error"} : CreateNothing(status))
  BY DEF Next, vars, HostReport, Control, Operate, SetParameters, FreeBlock, DeviceReset,
         TimePasses, ControlStep, ApplyCommand, TickEngine, hostVars
<1>4. ASSUME NEW status \in {"full", "error"}, CreateNothing(status)
      PROVE  BlockLoadHolds'
  <2>1. /\ block_load' = Refusal(status, 0) /\ table' = table
        /\ status = "full" => FreeSlots(table) = {}
    BY <1>4 DEF CreateNothing
  <2>2. status = "full" /\ block_load'.available = 0
    BY <1>4, <2>1 DEF Refusal
  <2> QED
    BY <1>2, <2>1, <2>2, FS_EmptySet DEF Refusal
<1>5. ASSUME NEW type \in Types, CreateEffect(type)
      PROVE  BlockLoadHolds'
  <2> DEFINE new == NewDefinition(type)
             created(i) == [table EXCEPT ![i] = new]
  <2>1. PICK i \in FreeSlots(table) :
          /\ table' = IF Fits THEN created(i) ELSE table
          /\ block_load' =
               IF Fits THEN [index |-> i, status |-> "success",
                             available |-> Cardinality(FreeSlots(created(i)))]
               ELSE Refusal("full", Cardinality(FreeSlots(table)))
          /\ stale' = IF Fits THEN stale \ {i} ELSE stale
    BY <1>5 DEF CreateEffect
  <2>2. i \in Slots /\ new.type # None
    BY <2>1, NewTyped, BlankTyped DEF FreeSlots
  <2>3. CASE Fits
    <3>1. i \notin FreeSlots(created(i))
      BY <2>2 DEF FreeSlots, TypeOK
    <3> HIDE DEF created
    <3> QED
      BY <1>2, <2>1, <2>2, <2>3, <3>1
  <2>4. CASE ~Fits
    BY <1>2, <2>1, <2>4 DEF Refusal
  <2> QED
    BY <2>3, <2>4
<1> QED
  BY <1>3, <1>4, <1>5

-----------------------------------------------------------------------------
(* How long an effect plays.                                               *)

\* Whole loops of a duration.
LEMMA LoopsPlayed ==
    ASSUME NEW played \in Int, NEW duration \in Nat \ {0}, NEW loops \in Nat \ {0}
    PROVE  (played >= duration /\ played \div duration >= loops)
             <=> played >= duration * loops
<1> DEFINE q == played \div duration
           r == played % duration
<1>1. q \in Int /\ r \in 0 .. duration - 1 /\ played = q * duration + r
  OBVIOUS
<1> HIDE DEF q, r
<1>2. ASSUME q >= loops PROVE played >= duration * loops /\ played >= duration
  <2>1. (q - loops) * duration >= 0 /\ loops * duration >= duration
    BY <1>1, <1>2
  <2>2. (q - loops) * duration = q * duration - loops * duration
    BY <1>1
  <2> QED
    BY <1>1, <2>1, <2>2
<1>3. ASSUME q < loops PROVE played < duration * loops
  <2>1. (loops - 1 - q) * duration >= 0
    BY <1>1, <1>3
  <2>2. (loops - 1 - q) * duration = loops * duration - duration - q * duration
    BY <1>1
  <2> QED
    BY <1>1, <2>1, <2>2
<1>4. q >= loops \/ q < loops
  BY <1>1
<1>5. duration * loops \in Int
  OBVIOUS
<1> QED
  BY <1>1, <1>2, <1>3, <1>4, <1>5 DEF q

\* An age less than a turn of the clock is what has elapsed.
LEMMA AgeElapsed ==
    ASSUME NEW t \in Clock, NEW a \in 0 .. Wrap - 1
    PROVE  Elapsed(t, (t - a) % Wrap) = a
<1> DEFINE s == (t - a) % Wrap
<1>1. Wrap \in Int /\ t \in Int /\ a \in Int /\ a \in Clock /\ t - a \in Int
  BY ClockFacts DEF Clock
<1>2. s \in Clock /\ s \in Int
  BY <1>1, ReadingOf, ClockFacts
<1>3. PICK turns \in Int : t - a = turns * Wrap + s
  BY <1>1, ReadingOf
<1> HIDE DEF s
<1>4. t - s \in Int /\ t - s = a + turns * Wrap
  BY <1>1, <1>2, <1>3
<1>5. (t - s) % Wrap = a % Wrap
  BY <1>1, <1>4, SameReading
<1> QED
  BY <1>1, <1>5, ReadingStands DEF Elapsed, s

\* The times of an effect are whole numbers, and it plays at least once.
LEMMA EffectTimes ==
    ASSUME NEW effect \in Effects
    PROVE  /\ effect.definition.duration \in Nat /\ effect.definition.delay \in Nat
           /\ effect.loops \in Nat \ {0}
<1> DEFINE d == effect.definition
           loops == effect.loops
<1>1. d \in Definitions \cup {NoDefinition} /\ loops \in (Loops \ {0}) \cup {1}
  BY DEF Effects
<1> HIDE DEF d, loops
<1>2. loops \in Nat \ {0}
  <2>1. Loops \subseteq Nat
    BY EffectEngineAssumption
  <2> QED
    BY <1>1, <2>1
<1>3. ASSUME d = NoDefinition PROVE d.duration \in Nat /\ d.delay \in Nat
  BY <1>3, EffectEngineAssumption DEF NoDefinition
<1>4. ASSUME d \in Definitions PROVE d.duration \in Nat /\ d.delay \in Nat
  <2>1. d.duration \in Durations \cup {Infinite} /\ d.delay \in Delays \cup {0}
    BY <1>4 DEF Definitions
  <2>2. Durations \subseteq Nat /\ Delays \subseteq Nat /\ Infinite \in Nat
    BY EffectEngineAssumption
  <2>3. d.duration \in Nat
    BY <2>1, <2>2, Zenon
  <2>4. d.delay \in Nat
    <3>1. 0 \in Nat
      OBVIOUS
    <3> QED
      BY <2>1, <2>2, <3>1, Zenon
  <2> QED
    BY <2>3, <2>4
<1>5. d.duration \in Nat /\ d.delay \in Nat
  BY <1>1, <1>3, <1>4
<1> QED
  BY <1>2, <1>5 DEF d, loops

LEMMA StepPlays ==
    ASSUME TypeOK, PlaybackInvariant, NEW i \in Slots, TickedRunning,
           engine.effects[i].playing, age'[i] \in 0 .. Wrap - 1
    PROVE  engine'.effects[i].playing
             <=> ~Finite(engine.effects[i]) \/ age'[i] < Length(engine.effects[i])
<1> DEFINE new == age'[i]
           effect == engine.effects[i]
           moved == MovedEffect(engine, now, i)
<1>1. /\ engine \in Engines /\ age \in [Slots -> Int] /\ now \in Clock
      /\ effect \in Effects
      /\ Counts(engine, age) /\ engine.time_valid
      /\ engine.enabled /\ ~engine.paused
      /\ engine' = Tick(engine, now)
      /\ new = Older(age[i])
  BY DEF TypeOK, PlaybackInvariant, Counts, TickedRunning, TickEngine, Engines
<1>2. /\ moved \in Effects
      /\ engine'.effects[i] = [moved EXCEPT !.playing = @ /\ ~Ends(engine, now, i)]
  BY <1>1, TickRuns
<1>3. /\ moved.definition = effect.definition /\ moved.loops = effect.loops
      /\ moved.playing /\ moved.started = Moved(engine, now, i)
  BY <1>1 DEF MovedEffect, Effects
<1>4. engine'.effects[i].playing <=> ~Completed(moved, now)
  <2>1. Ends(engine, now, i) <=> Completed(moved, now)
    BY <1>1 DEF Ends
  <2> HIDE DEF moved
  <2> QED
    BY <1>2, <1>3, <2>1 DEF Effects
<1> HIDE DEF new, effect, moved
<1>5. new \in Int /\ new \in 0 .. Wrap - 1
  BY ClockFacts DEF new
<1>6. LET lapse == IF ~engine.resume_pending THEN Elapsed(now, engine.last_tick) ELSE 0
      IN  new = age[i] + lapse \/ new = age[i] + lapse - Wrap
  BY <1>1 DEF Older, Counted
<1>7. moved.started = (now - new) % Wrap
  BY <1>1, <1>3, <1>5, <1>6, MovedCounts DEF effect
<1>8. Elapsed(now, moved.started) = new
  BY <1>1, <1>5, <1>7, AgeElapsed
<1>9. /\ effect.definition.duration \in Nat /\ effect.definition.delay \in Nat
      /\ effect.loops \in Nat \ {0}
  BY <1>1, EffectTimes
<1>10. Finite(moved) <=> Finite(effect)
  BY <1>3 DEF Finite
<1>11. ASSUME Finite(effect) PROVE Completed(moved, now) <=> new >= Length(effect)
  <2> DEFINE d == effect.definition.duration
             delay == effect.definition.delay
             played == new - delay
  <2>1. d \in Nat \ {0} /\ played \in Int
    BY <1>5, <1>9, <1>11 DEF Finite
  <2>2. Completed(moved, now)
          <=> played >= 0 /\ played >= d /\ played \div d >= effect.loops
    BY <1>3, <1>8, <1>10, <1>11 DEF Completed
  <2>3. (played >= d /\ played \div d >= effect.loops) <=> played >= d * effect.loops
    BY <1>9, <2>1, LoopsPlayed
  <2>4. Length(effect) = delay + d * effect.loops
    BY DEF Length
  <2>5. d * effect.loops \in Int /\ delay \in Int
    BY <1>9
  <2>6. played >= d * effect.loops <=> new >= delay + d * effect.loops
    <3> DEFINE length == d * effect.loops
    <3> HIDE DEF length, d, delay
    <3> QED
      BY <1>5, <2>5 DEF length
  <2>7. played >= d => played >= 0
    BY <2>1
  <2> QED
    BY <2>2, <2>3, <2>4, <2>6, <2>7
<1>12. ~Finite(effect) => ~Completed(moved, now)
  BY <1>10 DEF Completed
<1>13. Length(effect) \in Int
  BY <1>9 DEF Length
<1> QED
  BY <1>4, <1>5, <1>11, <1>12, <1>13 DEF new, effect

-----------------------------------------------------------------------------

\* The block load a host reads after a creation is true of the engine, once
\* it has caught up (create_effect).
THEOREM AnswersTrue == Spec => AnswersAgree
<1>1. /\ TypeOK /\ PlaybackInvariant /\ (TypeOK /\ PlaybackInvariant)' /\ [Next]_vars
      => [block_load' # block_load /\ block_load'.status # "error" => BlockLoadHolds']_vars
  BY StepAnswers DEF PlaybackInvariant
<1> QED
  BY <1>1, Inductive, PTL DEF Spec, AnswersAgree

\* A finite effect plays its delay and its loops, neither more nor less,
\* whatever pauses, late ticks and wraps of the clock come in between
\* (EffectEngine::tick and evaluate).
THEOREM PlaysExactly == Spec => PlaysItsTime
<1>1. /\ TypeOK /\ PlaybackInvariant /\ [Next]_vars
      => [\A i \in Slots :
            /\ TickedRunning
            /\ engine.effects[i].playing
            /\ age'[i] \in 0 .. Wrap - 1
            => (engine'.effects[i].playing
                  <=> ~Finite(engine.effects[i]) \/ age'[i] < Length(engine.effects[i]))]_vars
  BY StepPlays
<1> QED
  BY <1>1, Inductive, PTL DEF Spec, PlaysItsTime

=============================================================================
