--------------------------- MODULE ConfigFlowProofs ---------------------------
(***************************************************************************)
(* What the wheel runs with, what it publishes and what it will find in    *)
(* its flash, for every queue size and any number of updates, gestures,    *)
(* failed saves and power failures.                                        *)
(***************************************************************************)
EXTENDS ConfigFlow, TLAPS

Final(s) == s[Len(s)]

\* The last entry through a queue.
LEMMA FinalAppended ==
    ASSUME NEW S, NEW s \in Seq(S), NEW e \in S
    PROVE  /\ Append(s, e) \in Seq(S) /\ Len(Append(s, e)) = Len(s) + 1
           /\ Append(s, e) # <<>>
           /\ Final(Append(s, e)) = e
BY DEF Final

LEMMA FinalPopped ==
    ASSUME NEW S, NEW s \in Seq(S), s # <<>>
    PROVE  /\ Head(s) \in S /\ Tail(s) \in Seq(S) /\ Len(Tail(s)) = Len(s) - 1
           /\ Tail(s) = <<>> => Head(s) = Final(s)
           /\ Tail(s) # <<>> => Final(Tail(s)) = Final(s)
<1>1. Len(s) \in Nat \ {0} /\ Len(Tail(s)) = Len(s) - 1 /\ Tail(s) \in Seq(S) /\ Head(s) \in S
  OBVIOUS
<1>2. Head(s) = s[1]
  OBVIOUS
<1>3. Tail(s) = <<>> => Len(s) = 1
  BY <1>1
<1>4. ASSUME Tail(s) # <<>> PROVE Final(Tail(s)) = Final(s)
  <2>1. Len(Tail(s)) \in 1 .. Len(s) - 1
    BY <1>1, <1>4
  <2>2. \A i \in 1 .. Len(s) - 1 : Tail(s)[i] = s[i + 1]
    BY <1>1
  <2> QED
    BY <1>1, <2>1, <2>2 DEF Final
<1> QED
  BY <1>1, <1>2, <1>3, <1>4 DEF Final

Kinds == {"host", "sample", "gesture"}

\* An append to a queue that is not full.
LEMMA FitsAppended ==
    ASSUME NEW S, NEW s \in Seq(S), NEW e \in S, NEW n \in Nat,
           Len(s) <= n, Len(s) # n
    PROVE  Append(s, e) \in Seq(S) /\ Len(Append(s, e)) <= n
<1>1. Len(s) \in Nat
  OBVIOUS
<1> QED
  BY <1>1, FinalAppended

LEMMA FromAppended ==
    ASSUME NEW s \in Seq(Kinds), NEW kind \in Kinds, NEW new \in Kinds
    PROVE  (\E i \in 1 .. Len(Append(s, new)) : Append(s, new)[i] = kind)
             <=> (\E i \in 1 .. Len(s) : s[i] = kind) \/ new = kind
<1>1. Len(Append(s, new)) = Len(s) + 1 /\ Len(s) \in Nat
  OBVIOUS
<1>2. Append(s, new)[Len(s) + 1] = new
  OBVIOUS
<1>3. \A i \in 1 .. Len(s) : Append(s, new)[i] = s[i]
  OBVIOUS
<1> QED
  BY <1>1, <1>2, <1>3

-----------------------------------------------------------------------------
(* Types. *)

LEMMA StartsTyped ==
    /\ \A record \in Records \cup {NoRecord} : Load(record) \in Records
    /\ IdleHost \in [at : {"idle", "push_pending", "push_command"}, record : Records]
    /\ IdleLoop \in [at : {"pending", "paddle"}, saving : BOOLEAN, record : Records]
    /\ \A record \in Records, angle \in Angles : [record EXCEPT !.zero = angle] \in Records
BY ConfigFlowAssumption DEF Load, IdleHost, IdleLoop, Records

LEMMA Capacities ==
    QueueCapacity \in Nat /\ PendingCapacity \in Nat /\ PaddleCapacity \in Nat
BY ConfigFlowAssumption

LEMMA EmptyTyped ==
    /\ \A S : <<>> \in Seq(S)
    /\ Len(<<>>) <= QueueCapacity /\ Len(<<>>) <= PendingCapacity
    /\ Len(<<>>) <= PaddleCapacity
<1>1. Len(<<>>) = 0
  OBVIOUS
<1> QED
  BY <1>1, Capacities

LEMMA InitTypes == Init => TypeOK
<1> SUFFICES ASSUME Init PROVE TypeOK
  OBVIOUS
<1>1. Load(nvs) \in Records
  BY StartsTyped DEF Init
<1>2. nvs \in Records \cup {NoRecord} /\ (nvs = NoRecord /\ PassiveWheelMode) \in BOOLEAN
  BY DEF Init
<1> QED
  BY <1>1, <1>2, EmptyTyped, StartsTyped DEF Init, TypeOK

LEMMA StepTypes == TypeOK /\ [Next]_vars => TypeOK'
<1> SUFFICES ASSUME TypeOK, [Next]_vars PROVE TypeOK'
  OBVIOUS
<1> USE DEF TypeOK, controlVars, queueVars
<1>0. QueueCapacity \in Nat /\ PendingCapacity \in Nat /\ PaddleCapacity \in Nat
  BY Capacities
<1>1. ASSUME NEW record \in Records, ReceiveUpdate(record) PROVE TypeOK'
  BY <1>1 DEF ReceiveUpdate
<1>2. ASSUME NEW angle \in Angles, CaptureZero(angle) PROVE TypeOK'
  BY <1>1, <1>2, StartsTyped DEF CaptureZero
<1>3. ASSUME NEW angle \in Angles, FirstSample(angle) PROVE TypeOK'
  <2>1. running' \in Records /\ published' \in Records
    BY <1>3, StartsTyped DEF FirstSample
  <2>2. sources' \in Seq(Kinds)
    BY <1>3 DEF FirstSample, Kinds
  <2> QED
    BY <1>3, <2>1, <2>2 DEF FirstSample, Kinds
<1>4. ASSUME NEW angle \in Angles, Gesture(angle) PROVE TypeOK'
  <2>1. running' \in Records /\ published' \in Records
    BY <1>4, StartsTyped DEF Gesture
  <2>2. sources' \in Seq(Kinds)
    BY <1>4 DEF Gesture, Kinds
  <2>3. paddle' \in Seq(Records) /\ Len(paddle') <= PaddleCapacity
    <3>1. CASE Len(paddle) = PaddleCapacity
      BY <1>4, <3>1 DEF Gesture
    <3>2. CASE Len(paddle) # PaddleCapacity
      <4>1. paddle' = Append(paddle, running')
        BY <1>4, <3>2 DEF Gesture
      <4> QED
        BY <1>0, <2>1, <3>2, <4>1, FitsAppended
    <3> QED
      BY <3>1, <3>2
  <2> QED
    BY <1>4, <2>1, <2>2, <2>3 DEF Gesture, Kinds
<1>5. CASE PushPending
  <2>1. pending' \in Seq(Records) /\ Len(pending') <= PendingCapacity
    <3>1. CASE Len(pending) = PendingCapacity
      BY <1>5, <3>1 DEF PushPending
    <3>2. CASE Len(pending) # PendingCapacity
      <4>1. host.record \in Records /\ pending' = Append(pending, host.record)
        BY <1>5, <3>2 DEF PushPending
      <4> QED
        BY <1>0, <3>2, <4>1, FitsAppended
    <3> QED
      BY <3>1, <3>2
  <2> QED
    BY <1>5, <2>1, StartsTyped DEF PushPending
<1>6. CASE PushCommand
  <2>1. commands' \in Seq(Records) /\ Len(commands') <= QueueCapacity
    <3>1. CASE Len(commands) = QueueCapacity
      BY <1>6, <3>1 DEF PushCommand
    <3>2. CASE Len(commands) # QueueCapacity
      <4>1. host.record \in Records /\ commands' = Append(commands, host.record)
        BY <1>6, <3>2 DEF PushCommand
      <4> QED
        BY <1>0, <3>2, <4>1, FitsAppended
    <3> QED
      BY <3>1, <3>2
  <2> QED
    BY <1>6, <2>1, StartsTyped DEF PushCommand
<1>7. CASE ApplyUpdate
  <2>1. commands' \in Seq(Records) /\ Len(commands') <= QueueCapacity /\ running' \in Records
    BY <1>0, <1>7, FinalPopped DEF ApplyUpdate
  <2>2. sources' \in Seq(Kinds)
    BY <1>7 DEF ApplyUpdate, Kinds
  <2> QED
    BY <1>7, <2>1, <2>2 DEF ApplyUpdate, Kinds
<1>8. CASE FinishDrain
  BY <1>8 DEF FinishDrain
<1>9. CASE PopOrMoveOn
  <2>1. pending # <<>> => /\ Head(pending) \in Records /\ Tail(pending) \in Seq(Records)
                          /\ Len(Tail(pending)) <= PendingCapacity
    BY <1>0, FinalPopped
  <2>2. paddle # <<>> => /\ Head(paddle) \in Records /\ Tail(paddle) \in Seq(Records)
                         /\ Len(Tail(paddle)) <= PaddleCapacity
    BY <1>0, FinalPopped
  <2> QED
    BY <1>9, <2>1, <2>2 DEF PopOrMoveOn
<1>10. ASSUME NEW succeeds \in SaveOutcomes, Save(succeeds) PROVE TypeOK'
  BY <1>10 DEF Save
<1>11. CASE Reboot
  <2>1. Load(nvs) \in Records /\ nvs' = nvs /\ auto_center' \in BOOLEAN
    BY <1>11, StartsTyped DEF Reboot, Boot
  <2> QED
    BY <1>11, <2>1, StartsTyped, EmptyTyped DEF Reboot, Boot
<1>12. CASE UNCHANGED vars
  BY <1>12 DEF vars
<1> QED
  BY <1>1, <1>2, <1>3, <1>4, <1>5, <1>6, <1>7, <1>8, <1>9, <1>10, <1>11, <1>12
     DEF Next, HostStep, DrainStep, LoopStep

\* Every record on its way is a whole one, and no queue exceeds its ring.
THEOREM TypeCorrect == Spec => []TypeOK
  BY InitTypes, StepTypes, PTL DEF Spec

-----------------------------------------------------------------------------

LEMMA StepPublished == PublishedFollows /\ [Next]_vars => PublishedFollows'
<1> SUFFICES ASSUME PublishedFollows, [Next]_vars PROVE PublishedFollows'
  OBVIOUS
<1> USE DEF PublishedFollows, controlVars
<1>1. ASSUME NEW record \in Records, ReceiveUpdate(record) PROVE PublishedFollows'
  BY <1>1 DEF ReceiveUpdate
<1>2. ASSUME NEW angle \in Angles, CaptureZero(angle) \/ FirstSample(angle) \/ Gesture(angle)
      PROVE  PublishedFollows'
  BY <1>2 DEF CaptureZero, ReceiveUpdate, FirstSample, Gesture
<1>3. CASE HostStep \/ DrainStep \/ LoopStep
  BY <1>3 DEF HostStep, PushPending, PushCommand, DrainStep, ApplyUpdate, FinishDrain,
              LoopStep, PopOrMoveOn, Save
<1>4. CASE Reboot \/ UNCHANGED vars
  BY <1>4 DEF Reboot, Boot, vars
<1> QED
  BY <1>1, <1>2, <1>3, <1>4 DEF Next

\* The snapshot is what the wheel runs with, but for the time of a drain.
THEOREM Published == Spec => []PublishedFollows
<1>1. Init => PublishedFollows
  BY DEF Init, PublishedFollows
<1> QED
  BY <1>1, StepPublished, PTL DEF Spec

-----------------------------------------------------------------------------
(* What is saved in the end.  While only gestures change the center, the   *)
(* last record on its way to the flash is the one the wheel runs with.     *)
(* While only hosts change it, the last record on its way to the flash is  *)
(* the last one on its way to the control task, or the one it runs with.   *)

FinalSaved == IF pending # <<>> THEN Final(pending)
              ELSE IF loop.saving THEN loop.record ELSE nvs
FinalPaddle == IF paddle # <<>> THEN Final(paddle)
               ELSE IF loop.saving THEN loop.record ELSE nvs

\* No host update was queued to be applied, or can still be applied.
Untouched == ~From("host") /\ commands = <<>> /\ host.at # "push_command"

CenterDecided == From("gesture") => ~auto_center

GestureStored ==
    ~lost /\ Untouched =>
        /\ pending = <<>>
        /\ From("gesture") => FinalPaddle = running
        /\ ~From("gesture") =>
              /\ paddle = <<>> /\ ~loop.saving
              /\ sources = <<>> => running = Load(nvs)

UpdateStored ==
    ~lost /\ ~Untouched /\ ~From("gesture") =>
        /\ paddle = <<>>
        /\ host.at = "push_command" => FinalSaved = host.record
        /\ host.at # "push_command" /\ commands # <<>> => FinalSaved = Final(commands)
        /\ host.at # "push_command" /\ commands = <<>> /\ ~From("sample")
              => FinalSaved = running

StorageInvariant == CenterDecided /\ GestureStored /\ UpdateStored

LEMMA StorageImplied == StorageInvariant => StorageFollows
<1> SUFFICES ASSUME StorageInvariant, Settled, ~lost
             PROVE  /\ sources = <<>> => running = Load(nvs)
                    /\ From("host") /\ ~From("gesture") /\ ~From("sample") => running = nvs
                    /\ From("gesture") /\ ~From("host") => running = nvs
  BY DEF StorageFollows
<1>1. commands = <<>> /\ pending = <<>> /\ paddle = <<>> /\ host.at # "push_command" /\ ~loop.saving
  BY DEF Settled
<1>2. FinalSaved = nvs /\ FinalPaddle = nvs
  BY <1>1 DEF FinalSaved, FinalPaddle
<1>3. sources = <<>> => ~From("host") /\ ~From("gesture")
  BY DEF From
<1> QED
  BY <1>1, <1>2, <1>3 DEF StorageInvariant, GestureStored, UpdateStored, Untouched

LEMMA InitStorage == Init => StorageInvariant
<1> SUFFICES ASSUME Init PROVE StorageInvariant
  OBVIOUS
<1>1. /\ sources = <<>> /\ commands = <<>> /\ pending = <<>> /\ paddle = <<>>
      /\ host.at = "idle" /\ ~loop.saving /\ running = Load(nvs)
  BY DEF Init, IdleHost, IdleLoop
<1>2. \A kind : ~From(kind)
  BY <1>1 DEF From
<1> QED
  BY <1>1, <1>2 DEF StorageInvariant, CenterDecided, GestureStored, UpdateStored, Untouched

LEMMA FromSame == ASSUME UNCHANGED sources PROVE \A kind : From(kind)' <=> From(kind)
BY DEF From

LEMMA FromAdded ==
    ASSUME sources \in Seq(Kinds), NEW new \in Kinds, sources' = Append(sources, new)
    PROVE  /\ \A kind \in Kinds : From(kind)' <=> From(kind) \/ new = kind
           /\ sources' # <<>>
<1>1. \A kind \in Kinds : From(kind)' <=> From(kind) \/ new = kind
  BY FromAppended DEF From
<1> QED
  BY <1>1, FinalAppended

LEMMA StepStorage == TypeOK /\ StorageInvariant /\ [Next]_vars => StorageInvariant'
<1> SUFFICES ASSUME TypeOK, StorageInvariant, [Next]_vars PROVE StorageInvariant'
  OBVIOUS
<1> USE DEF StorageInvariant, controlVars, queueVars
<1>0. /\ commands \in Seq(Records) /\ pending \in Seq(Records) /\ paddle \in Seq(Records)
      /\ running \in Records /\ sources \in Seq(Kinds)
      /\ host \in [at : {"idle", "push_pending", "push_command"}, record : Records]
      /\ loop \in [at : {"pending", "paddle"}, saving : BOOLEAN, record : Records]
  BY DEF TypeOK, Kinds
<1>1. ASSUME NEW record \in Records, ReceiveUpdate(record) PROVE StorageInvariant'
  <2>1. Untouched' <=> Untouched
    BY <1>1, FromSame DEF ReceiveUpdate, Untouched
  <2>2. FinalSaved' = FinalSaved /\ FinalPaddle' = FinalPaddle
    BY <1>1 DEF ReceiveUpdate, FinalSaved, FinalPaddle
  <2>3. host.at # "push_command" /\ host'.at # "push_command"
    BY <1>1 DEF ReceiveUpdate
  <2> QED
    BY <1>1, <2>1, <2>2, <2>3, FromSame
       DEF ReceiveUpdate, CenterDecided, GestureStored, UpdateStored
<1>2. ASSUME NEW angle \in Angles, CaptureZero(angle) PROVE StorageInvariant'
  <2>1. published \in Records
    BY DEF TypeOK
  <2> QED
    BY <1>1, <1>2, <2>1, StartsTyped DEF CaptureZero
<1>3. ASSUME NEW angle \in Angles, FirstSample(angle) PROVE StorageInvariant'
  <2>1. /\ From("host")' <=> From("host")
        /\ From("gesture")' <=> From("gesture")
        /\ From("sample")'
        /\ sources' # <<>>
    BY <1>0, <1>3, FromAdded DEF FirstSample, Kinds
  <2>2. Untouched' <=> Untouched
    BY <1>3, <2>1 DEF FirstSample, Untouched
  <2>3. FinalSaved' = FinalSaved /\ FinalPaddle' = FinalPaddle
    BY <1>3 DEF FirstSample, FinalSaved, FinalPaddle
  <2>4. ~From("gesture")
    BY <1>3 DEF FirstSample, CenterDecided
  <2>5. UNCHANGED <<lost, paddle, pending, commands, host, loop>>
    BY <1>3 DEF FirstSample
  <2> QED
    BY <2>1, <2>2, <2>3, <2>4, <2>5 DEF CenterDecided, GestureStored, UpdateStored
<1>4. ASSUME NEW angle \in Angles, Gesture(angle) PROVE StorageInvariant'
  <2>1. From("gesture")' /\ (From("host")' <=> From("host"))
    BY <1>0, <1>4, FromAdded DEF Gesture, Kinds
  <2>2. (Untouched' <=> Untouched) /\ ~auto_center' /\ pending' = pending
    BY <1>4, <2>1 DEF Gesture, Untouched
  <2>3. ~lost' => ~lost /\ paddle' = Append(paddle, running')
    BY <1>4 DEF Gesture
  <2>4. running' \in Records
    BY <1>0, <1>4, StartsTyped DEF Gesture
  <2>5. ~lost' => FinalPaddle' = running'
    <3>1. /\ Append(paddle, running') # <<>>
          /\ Final(Append(paddle, running')) = running'
      BY <1>0, <2>4, FinalAppended
    <3> QED
      BY <2>3, <3>1 DEF FinalPaddle, Final
  <2> QED
    BY <2>1, <2>2, <2>3, <2>5 DEF CenterDecided, GestureStored, UpdateStored
<1>5. CASE PushPending
  <2>1. CASE Len(pending) = PendingCapacity
    BY <1>5, <2>1, FromSame DEF PushPending, CenterDecided, GestureStored, UpdateStored
  <2>2. CASE Len(pending) # PendingCapacity
    <3>1. /\ pending' = Append(pending, host.record) /\ host'.at = "push_command"
          /\ host'.record = host.record /\ host.at = "push_pending"
          /\ UNCHANGED <<lost, paddle, commands, auto_center, sources>>
      BY <1>0, <1>5, <2>2 DEF PushPending
    <3>2. FinalSaved' = host'.record
      BY <1>0, <3>1, FinalAppended DEF FinalSaved
    <3>3. ~Untouched'
      BY <3>1 DEF Untouched
    <3>4. ~lost /\ ~From("gesture") => paddle = <<>>
      BY DEF GestureStored, UpdateStored
    <3> QED
      BY <3>1, <3>2, <3>3, <3>4, FromSame DEF CenterDecided, GestureStored, UpdateStored
  <2> QED
    BY <2>1, <2>2
<1>6. CASE PushCommand
  <2>1. CASE Len(commands) = QueueCapacity
    BY <1>6, <2>1, FromSame DEF PushCommand, CenterDecided, GestureStored, UpdateStored
  <2>2. CASE Len(commands) # QueueCapacity
    <3>1. /\ commands' = Append(commands, host.record) /\ host'.at = "idle"
          /\ host.at = "push_command"
          /\ UNCHANGED <<lost, nvs, loop, pending, paddle, auto_center, sources>>
      BY <1>6, <2>2 DEF PushCommand, IdleHost
    <3>2. commands' # <<>> /\ Final(commands') = host.record
      BY <1>0, <3>1, FinalAppended
    <3>3. ~Untouched /\ ~Untouched'
      BY <3>1, <3>2 DEF Untouched
    <3>4. FinalSaved' = FinalSaved
      BY <3>1 DEF FinalSaved
    <3> QED
      BY <3>1, <3>2, <3>3, <3>4, FromSame DEF CenterDecided, GestureStored, UpdateStored, Final
  <2> QED
    BY <2>1, <2>2
<1>7. CASE ApplyUpdate
  <2>1. /\ From("host")'
        /\ From("gesture")' <=> From("gesture")
        /\ From("sample")' <=> From("sample")
    BY <1>0, <1>7, FromAdded DEF ApplyUpdate, Kinds
  <2>2. /\ commands # <<>> /\ commands' = Tail(commands) /\ running' = Head(commands)
        /\ UNCHANGED <<lost, nvs, loop, host, pending, paddle, auto_center>>
    BY <1>7 DEF ApplyUpdate
  <2>3. ~Untouched /\ ~Untouched'
    BY <2>1, <2>2 DEF Untouched
  <2>4. FinalSaved' = FinalSaved
    BY <2>2 DEF FinalSaved
  <2>5. /\ commands' = <<>> => running' = Final(commands)
        /\ commands' # <<>> => Final(commands') = Final(commands)
    BY <1>0, <2>2, FinalPopped
  <2> QED
    BY <2>1, <2>2, <2>3, <2>4, <2>5 DEF CenterDecided, GestureStored, UpdateStored, Final
<1>8. CASE FinishDrain
  <2>1. FinalSaved' = FinalSaved /\ FinalPaddle' = FinalPaddle
    BY <1>8 DEF FinishDrain, FinalSaved, FinalPaddle
  <2>2. Untouched' <=> Untouched
    BY <1>8, FromSame DEF FinishDrain, Untouched
  <2> QED
    BY <1>8, <2>1, <2>2, FromSame
       DEF FinishDrain, CenterDecided, GestureStored, UpdateStored, Final
<1>9. CASE PopOrMoveOn
  <2>1. /\ UNCHANGED <<nvs, running, auto_center, commands, host, lost, sources>>
        /\ ~loop.saving
    BY <1>9 DEF PopOrMoveOn
  <2>2. Untouched' <=> Untouched
    BY <2>1, FromSame DEF Untouched
  <2>3. CASE pending # <<>> /\ pending' = Tail(pending) /\ paddle' = paddle
             /\ loop' = [loop EXCEPT !.saving = TRUE, !.record = Head(pending)]
    <3>1. FinalSaved' = FinalSaved
      BY <1>0, <2>3, FinalPopped DEF FinalSaved
    <3> QED
      BY <2>1, <2>2, <2>3, <3>1, FromSame
         DEF CenterDecided, GestureStored, UpdateStored, Final
  <2>4. CASE paddle # <<>> /\ paddle' = Tail(paddle) /\ pending' = pending
             /\ loop' = [loop EXCEPT !.saving = TRUE, !.record = Head(paddle)]
    <3>1. FinalPaddle' = FinalPaddle
      BY <1>0, <2>4, FinalPopped DEF FinalPaddle
    <3> QED
      BY <2>1, <2>2, <2>4, <3>1, FromSame
         DEF CenterDecided, GestureStored, UpdateStored, Final
  <2>5. CASE UNCHANGED <<pending, paddle>> /\ loop'.saving = loop.saving
    <3>1. FinalSaved' = FinalSaved /\ FinalPaddle' = FinalPaddle
      BY <2>1, <2>5 DEF FinalSaved, FinalPaddle
    <3> QED
      BY <2>1, <2>2, <2>5, <3>1, FromSame
         DEF CenterDecided, GestureStored, UpdateStored, Final
  <2> QED
    BY <1>0, <1>9, <2>3, <2>4, <2>5 DEF PopOrMoveOn
<1>10. ASSUME NEW succeeds \in SaveOutcomes, Save(succeeds) PROVE StorageInvariant'
  <2>1. /\ loop.saving /\ ~loop'.saving
        /\ UNCHANGED <<running, auto_center, commands, pending, paddle, host, sources>>
        /\ ~lost' => ~lost /\ nvs' = loop.record
    BY <1>0, <1>10 DEF Save
  <2>2. Untouched' <=> Untouched
    BY <2>1, FromSame DEF Untouched
  <2>3. ~lost' => FinalSaved' = FinalSaved /\ FinalPaddle' = FinalPaddle
    BY <2>1 DEF FinalSaved, FinalPaddle
  <2> QED
    BY <2>1, <2>2, <2>3, FromSame DEF CenterDecided, GestureStored, UpdateStored, Final
<1>11. CASE Reboot
  <2>1. /\ sources' = <<>> /\ commands' = <<>> /\ pending' = <<>> /\ paddle' = <<>>
        /\ host'.at = "idle" /\ ~loop'.saving /\ running' = Load(nvs) /\ nvs' = nvs
    BY <1>11 DEF Reboot, Boot, IdleHost, IdleLoop
  <2>2. \A kind : ~From(kind)'
    BY <2>1 DEF From
  <2> QED
    BY <2>1, <2>2 DEF CenterDecided, GestureStored, UpdateStored, Untouched, Load
<1>12. CASE UNCHANGED vars
  BY <1>12 DEF vars, CenterDecided, GestureStored, UpdateStored, Untouched, FinalSaved,
               FinalPaddle, Final, From
<1> QED
  BY <1>1, <1>2, <1>3, <1>4, <1>5, <1>6, <1>7, <1>8, <1>9, <1>10, <1>11, <1>12
     DEF Next, HostStep, DrainStep, LoopStep

\* Once all is at rest the flash holds what the wheel runs with, whatever the
\* order of updates, saves and power failures, as long as updates came from
\* one side only and nothing was reported lost.
THEOREM Storage == Spec => []StorageFollows
<1>1. Spec => []StorageInvariant
  BY InitStorage, StepStorage, TypeCorrect, PTL DEF Spec
<1> QED
  BY <1>1, StorageImplied, PTL

\* The loop is at the empty queue while the other has entries.
AtEmptyQueue ==
    \/ loop.at = "pending" /\ pending = <<>> /\ paddle # <<>>
    \/ loop.at = "paddle" /\ paddle = <<>> /\ pending # <<>>

\* What is under way, by the steps it still takes: an update the host's task
\* has begun to queue, commands to apply and to publish, records to save.
HostWork ==
    CASE host.at = "idle" -> 0 [] host.at = "push_command" -> 3 [] host.at = "push_pending" -> 8
DrainWork == 2 * Len(commands) + IF changed THEN 1 ELSE 0
SaveWork ==
    3 * (Len(pending) + Len(paddle))
    + (IF AtEmptyQueue THEN 1 ELSE 0) + (IF loop.saving THEN 1 ELSE 0)

WorkLeft == HostWork + DrainWork + SaveWork

\* No step of a task makes work: each gets some of it done, but for the loop's
\* look at two empty queues.
WorkFalls ==
    [][HostStep \/ DrainStep \/ LoopStep =>
         \/ WorkLeft' < WorkLeft
         \/ WorkLeft' = WorkLeft /\ pending = <<>> /\ paddle = <<>> /\ ~loop.saving]_vars

\* There is no work left exactly when all is settled.
LEMMA WorkLeftRange == TypeOK => WorkLeft \in Nat /\ (WorkLeft = 0 <=> Settled)
<1> SUFFICES ASSUME TypeOK PROVE WorkLeft \in Nat /\ (WorkLeft = 0 <=> Settled)
  OBVIOUS
<1>1. /\ Len(commands) \in Nat /\ Len(pending) \in Nat /\ Len(paddle) \in Nat
      /\ host.at \in {"idle", "push_pending", "push_command"}
  BY DEF TypeOK
<1>2. /\ Len(commands) = 0 <=> commands = <<>>
      /\ Len(pending) = 0 <=> pending = <<>>
      /\ Len(paddle) = 0 <=> paddle = <<>>
  BY DEF TypeOK
<1>3. HostWork \in Nat /\ (HostWork = 0 <=> host.at = "idle")
  BY <1>1 DEF HostWork
<1>4. DrainWork \in Nat /\ (DrainWork = 0 <=> commands = <<>> /\ ~changed)
  BY <1>1, <1>2 DEF DrainWork
<1>5. SaveWork \in Nat /\ (SaveWork = 0 <=> pending = <<>> /\ paddle = <<>> /\ ~loop.saving)
  BY <1>1, <1>2 DEF SaveWork, AtEmptyQueue
<1> QED
  BY <1>3, <1>4, <1>5 DEF WorkLeft, Settled

\* Work goes on in one task at a time, and what it makes for the next weighs
\* less than what it finishes.
LEMMA LessInAll ==
    \A h, d, s, h1, d1, s1 \in Nat :
        \/ h1 + 5 <= h /\ d1 = d /\ s1 <= s + 4
        \/ h1 + 3 <= h /\ d1 <= d + 2 /\ s1 = s
        \/ h1 = h /\ d1 < d /\ s1 = s
        \/ h1 = h /\ d1 = d /\ s1 < s
        => h1 + d1 + s1 < h + d + s
  OBVIOUS

\* The handler of an update turns what it holds into less work of the others.
LEMMA HostWorkStep ==
    ASSUME TypeOK, TypeOK', HostStep
    PROVE  WorkLeft' < WorkLeft
<1>1. /\ HostWork \in Nat /\ DrainWork \in Nat /\ SaveWork \in Nat
      /\ Len(commands) \in Nat /\ Len(pending) \in Nat /\ Len(paddle) \in Nat
  BY DEF TypeOK, HostWork, DrainWork, SaveWork
<1>2. HostWork' \in Nat /\ DrainWork' \in Nat /\ SaveWork' \in Nat
  BY DEF TypeOK, HostWork, DrainWork, SaveWork
<1>3. host.record \in Records
  BY DEF TypeOK
<1>4. CASE PushPending
  <2>1. HostWork' + 5 <= HostWork
    BY <1>4 DEF PushPending, HostWork, IdleHost, TypeOK
  <2>2. UNCHANGED <<commands, changed, paddle, loop>>
    BY <1>4 DEF PushPending, controlVars
  <2>3. DrainWork' = DrainWork
    BY <2>2 DEF DrainWork
  <2>4. Len(pending') = Len(pending) \/ Len(pending') = Len(pending) + 1
    BY <1>3, <1>4 DEF PushPending, TypeOK
  <2>5. SaveWork' <= SaveWork + 4
    BY <1>1, <2>2, <2>4 DEF SaveWork
  <2>6. /\ WorkLeft = HostWork + DrainWork + SaveWork
        /\ WorkLeft' = HostWork' + DrainWork' + SaveWork'
    BY DEF WorkLeft
  <2> QED
    BY <1>1, <1>2, <2>1, <2>3, <2>5, <2>6, LessInAll, Zenon
<1>5. CASE PushCommand
  <2>1. HostWork' + 3 <= HostWork
    BY <1>5 DEF PushCommand, HostWork, IdleHost
  <2>2. UNCHANGED <<changed, pending, paddle, loop>>
    BY <1>5 DEF PushCommand, controlVars
  <2>3. Len(commands') = Len(commands) \/ Len(commands') = Len(commands) + 1
    BY <1>3, <1>5 DEF PushCommand, TypeOK
  <2>4. DrainWork' <= DrainWork + 2
    BY <1>1, <2>2, <2>3 DEF DrainWork
  <2>5. SaveWork' = SaveWork
    BY <2>2 DEF SaveWork, AtEmptyQueue
  <2>6. /\ WorkLeft = HostWork + DrainWork + SaveWork
        /\ WorkLeft' = HostWork' + DrainWork' + SaveWork'
    BY DEF WorkLeft
  <2> QED
    BY <1>1, <1>2, <2>1, <2>4, <2>5, <2>6, LessInAll, Zenon
<1> QED
  BY <1>4, <1>5 DEF HostStep

\* The drain applies, then publishes.
LEMMA DrainWorkStep ==
    ASSUME TypeOK, TypeOK', DrainStep
    PROVE  WorkLeft' < WorkLeft
<1>1. /\ HostWork \in Nat /\ DrainWork \in Nat /\ SaveWork \in Nat
      /\ Len(commands) \in Nat
  BY DEF TypeOK, HostWork, DrainWork, SaveWork
<1>2. DrainWork' \in Nat
  BY DEF TypeOK, DrainWork
<1>3. UNCHANGED <<host, pending, paddle, loop>>
  BY DEF DrainStep, ApplyUpdate, FinishDrain, queueVars
<1>4. HostWork' = HostWork /\ SaveWork' = SaveWork
  BY <1>3 DEF HostWork, SaveWork, AtEmptyQueue
<1>5. DrainWork' < DrainWork
  <2>1. CASE ApplyUpdate
    <3>1. Len(commands') = Len(commands) - 1 /\ changed'
      BY <2>1, FinalPopped DEF ApplyUpdate, TypeOK
    <3> QED
      BY <1>1, <3>1 DEF DrainWork
  <2>2. CASE FinishDrain
    <3>1. changed /\ ~changed' /\ commands' = commands
      BY <2>2 DEF FinishDrain, queueVars
    <3> QED
      BY <1>1, <3>1 DEF DrainWork
  <2> QED
    BY <2>1, <2>2 DEF DrainStep
<1>6. /\ WorkLeft = HostWork + DrainWork + SaveWork
      /\ WorkLeft' = HostWork' + DrainWork' + SaveWork'
  BY DEF WorkLeft
<1> QED
  BY <1>1, <1>2, <1>4, <1>5, <1>6, LessInAll, Zenon

\* The loop takes, saves, or turns from an empty queue to the other.
LEMMA LoopWorkStep ==
    ASSUME TypeOK, TypeOK', LoopStep
    PROVE  \/ WorkLeft' < WorkLeft
           \/ WorkLeft' = WorkLeft /\ pending = <<>> /\ paddle = <<>> /\ ~loop.saving
<1>1. /\ HostWork \in Nat /\ DrainWork \in Nat /\ SaveWork \in Nat
      /\ Len(pending) \in Nat /\ Len(paddle) \in Nat
      /\ loop.at \in {"pending", "paddle"} /\ loop.saving \in BOOLEAN
  BY DEF TypeOK, HostWork, DrainWork, SaveWork
<1>2. SaveWork' \in Nat
  BY DEF TypeOK, SaveWork
<1>3. UNCHANGED <<host, commands, changed>>
  BY DEF LoopStep, PopOrMoveOn, Save, queueVars, controlVars
<1>4. HostWork' = HostWork /\ DrainWork' = DrainWork
  BY <1>3 DEF HostWork, DrainWork
<1>5. ASSUME NEW succeeds, Save(succeeds)
      PROVE  SaveWork' < SaveWork
  <2>1. /\ loop.saving /\ ~loop'.saving /\ loop'.at = loop.at
        /\ UNCHANGED <<pending, paddle>>
    BY <1>5 DEF Save, TypeOK, queueVars
  <2>2. AtEmptyQueue' <=> AtEmptyQueue
    BY <2>1 DEF AtEmptyQueue
  <2> QED
    BY <1>1, <2>1, <2>2 DEF SaveWork
<1>6. ASSUME PopOrMoveOn
      PROVE  \/ SaveWork' < SaveWork
             \/ SaveWork' = SaveWork /\ pending = <<>> /\ paddle = <<>> /\ ~loop.saving
  <2>1. ~loop.saving
    BY <1>6 DEF PopOrMoveOn
  <2>2. ASSUME loop.at = "pending", pending # <<>>,
               loop' = [loop EXCEPT !.saving = TRUE, !.record = Head(pending)],
               pending' = Tail(pending), UNCHANGED paddle
        PROVE  SaveWork' < SaveWork
    <3>1. ~AtEmptyQueue
      BY <2>2 DEF AtEmptyQueue
    <3>2. Len(pending') = Len(pending) - 1
      BY <2>2, FinalPopped DEF TypeOK
    <3> QED
      BY <1>1, <2>1, <2>2, <3>1, <3>2 DEF SaveWork
  <2>3. ASSUME loop.at = "paddle", paddle # <<>>,
               loop' = [loop EXCEPT !.saving = TRUE, !.record = Head(paddle)],
               paddle' = Tail(paddle), UNCHANGED pending
        PROVE  SaveWork' < SaveWork
    <3>1. ~AtEmptyQueue
      BY <2>3 DEF AtEmptyQueue
    <3>2. Len(paddle') = Len(paddle) - 1
      BY <2>3, FinalPopped DEF TypeOK
    <3> QED
      BY <1>1, <2>1, <2>3, <3>1, <3>2 DEF SaveWork
  <2>4. ASSUME \/ loop.at = "pending" /\ pending = <<>> /\ loop' = [loop EXCEPT !.at = "paddle"]
               \/ loop.at = "paddle" /\ paddle = <<>> /\ loop' = [loop EXCEPT !.at = "pending"],
               UNCHANGED <<pending, paddle>>
        PROVE  \/ SaveWork' < SaveWork
               \/ SaveWork' = SaveWork /\ pending = <<>> /\ paddle = <<>>
    <3>1. /\ loop'.saving = loop.saving
          /\ \/ loop.at = "pending" /\ pending = <<>> /\ loop'.at = "paddle"
             \/ loop.at = "paddle" /\ paddle = <<>> /\ loop'.at = "pending"
      BY <2>4 DEF TypeOK
    <3>2. ~AtEmptyQueue'
      BY <2>4, <3>1 DEF AtEmptyQueue
    <3>3. AtEmptyQueue \/ (pending = <<>> /\ paddle = <<>>)
      BY <3>1 DEF AtEmptyQueue
    <3> QED
      BY <1>1, <2>4, <3>1, <3>2, <3>3 DEF SaveWork
  <2> QED
    BY <1>6, <2>1, <2>2, <2>3, <2>4 DEF PopOrMoveOn
<1>7. \/ SaveWork' < SaveWork
      \/ SaveWork' = SaveWork /\ pending = <<>> /\ paddle = <<>> /\ ~loop.saving
  <2>1. CASE PopOrMoveOn
    BY <1>6, <2>1
  <2>2. CASE \E succeeds \in SaveOutcomes : Save(succeeds)
    BY <1>5, <2>2
  <2> QED
    BY <2>1, <2>2 DEF LoopStep
<1>8. /\ WorkLeft = HostWork + DrainWork + SaveWork
      /\ WorkLeft' = HostWork' + DrainWork' + SaveWork'
  BY DEF WorkLeft
<1> QED
  <2>1. CASE SaveWork' < SaveWork
    BY <1>1, <1>2, <1>4, <1>8, <2>1, LessInAll, Zenon
  <2>2. CASE SaveWork' = SaveWork /\ pending = <<>> /\ paddle = <<>> /\ ~loop.saving
    BY <1>4, <1>8, <2>2, Zenon
  <2> QED
    BY <1>7, <2>1, <2>2

\* Once hosts, drivers and power supplies leave the wheel in peace, its tasks
\* bring the copies of the configuration to rest, for every queue size
\* and whatever saves fail: each step of the three tasks reduces a natural
\* number that is 0 exactly when nothing is under way, but for the loop's look
\* at two empty queues, which leaves it as it is.
THEOREM WorkComesToAnEnd ==
    Spec => [](WorkLeft \in Nat /\ (WorkLeft = 0 <=> Settled)) /\ WorkFalls
<1>1. TypeOK /\ TypeOK' /\ [Next]_vars =>
        [HostStep \/ DrainStep \/ LoopStep =>
           \/ WorkLeft' < WorkLeft
           \/ WorkLeft' = WorkLeft /\ pending = <<>> /\ paddle = <<>> /\ ~loop.saving]_vars
  BY HostWorkStep, DrainWorkStep, LoopWorkStep
<1> QED
  BY <1>1, WorkLeftRange, TypeCorrect, PTL DEF Spec, WorkFalls

=============================================================================
