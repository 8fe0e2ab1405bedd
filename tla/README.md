# TLA+ models of the force-feedback wheel

TLA+ modules, TLC configurations and TLAPS proofs about the ESP32-S3 wheel
firmware in `src/arduino-port` and the SimHub dashboard in `src/simhub_tft`.
`PROJECT.json` holds the machine-readable side: the runs, the lines each
definition models, the hazards, the mutants and the theorems.

## The system

| Part | State | Operations | Talks to |
|---|---|---|---|
| Control task (`control_core.cpp`) | acknowledged epoch, host_enabled, clear request, configuration, failure and overrun counters, gesture | one loop of 1 ms: epoch check, faults, drain, epoch check, sample, gesture, arbitrate, drive, publish, overrun | everything below, through `RuntimeShared` |
| Safety supervisor (`safety.cpp`) | boot / disarmed / armed / fault, first fault | boot_complete, update, latch_fault, clear_fault, host_disable | owned by the control task |
| Motor (`motor_control.cpp`, `motor_output.cpp`) | direction, pending direction, applied duty, reversal phase; pins and PWM | set_force, disable, initialize | owned by the control task |
| Effect engine (`effect_engine.cpp`, `fixed.hpp`) | 40 effects, paused, resume pending, clock references, enabled | define, free, start, stop, pause, enable, tick; the force of an effect | owned by the control task |
| Encoder (`as5600.cpp`, `axis_encoder.cpp`) | last angle and its validity, position, zero, velocity filter | read, update, reset, scaling to HID | owned by the control task |
| Paddles and buttons (`wheel_controls.cpp`) | an integrator per contact, the stable mask | sample; the recentring gesture | owned by the control task |
| Shared state (`shared_state.hpp`, `spsc_queue.hpp`) | three lock-free queues, `disable_epoch`, USB flags, overflow flag, asynchronous fault, two sequence-locked records | push, pop, request_disable, request_fault, publish, snapshot | all tasks |
| USB reports (`usb_pid.cpp`) | `g_effects`, `g_block_load`; last state byte, two clock readings | set_report, get_report, service | set_report in the TinyUSB task, the only producer of commands and pending configurations; service in the loop task |
| USB events, loop (`arduino-port.ino`) | none of their own | mounted, suspended; save what the two queues hold | event task; loop task |
| Flash (`config_store.cpp`, `config.cpp`) | one record | load, save | setup and loop task |
| SimHub display (`simhub_tft.ino`) | receive buffer, the data, two dirty flags, notes of what was drawn, the dot, two clock readings | receive a byte, parse, draw, show silence | a host, over a serial line |

Four tasks of the wheel run on two cores: control (pinned to core 1, with the
second highest priority, `control_core.cpp:282-283`), TinyUSB (created by
Arduino-ESP32, outside the repository, with the highest priority and for either
core), the USB event task, and the Arduino loop. They share no lock.
The display is a program of its own, one loop. What is hard in this code:

* **Revocation.** Unplugging, suspending, disabling, resetting, configuring,
  overflowing a queue and failing to save all mean "motor off". Whoever finds
  out increments `disable_epoch`; commands catch up through a queue later. An
  enable carries the epoch its handler loaded, and the loop checks the epoch it
  acknowledged three times a tick. Every order of loads, pushes, pops and
  increments counts.
* **Faults.** Two flags are exchanged each tick, readings latch faults, a clear
  waits in the queue, the supervisor keeps the first fault.
* **The bridge.** A reversal must rest two periods; force, limits and permission
  may change in the middle of it.
* **Lock-free data.** A ring of entries larger than a word, and records of many
  atomics behind a sequence number, which tasks of higher priority than the
  writer's wait for.
* **Four copies of the configuration**, with two save queues that have no common
  order, failing saves and power failures.
* **Two tables of effects** that only a lossy queue keeps together, answers the
  host gets before the engine has heard of the question, and a wrapping clock
  whose readings are moved by pauses.
* **An angle modulo a turn**, read over a bus that fails, from which a position
  of several turns is accumulated; contacts that bounce; a gesture that resets
  both.
* **Fixed point.** A chain of products that truncate, envelopes that overlap,
  limits that are not symmetric.
* **Pacing by a clock that wraps**, with retries, of two reports that share an
  endpoint, and of the display.

What makes each part correct: the motor is driven only on an authorisation that
still stands, and a revoked one is cut within a tick; no failure goes unlatched;
the first fault stays; a passive build does nothing to the bridge; pins do not
turn under power; queues deliver whole entries in order; snapshots are whole and
current; the flash follows the wheel; both effect tables agree, the host is told
the truth about them, and effects play their length with the force they ask for;
the position follows the wheel or a fault says that it does not, and a spring
never lets go of it; only a full hold recentres; the host learns of the state and
its steering stays fresh; the dashboard shows the last packets and whether
anybody still sends.

## Modules

| Module | Models | Correspondence |
|---|---|---|
| `SafetySupervisor` | `wheel::SafetySupervisor` | one operator per method, from record to record |
| `MotorControl` | `MotorControlMath`, `MotorOutput` | `SetForce`, `MotorDisable`, `MotorInitialize`; a motor is one record with the members, `pins` and `pwm` |
| `ControlCore` | control task, USB task, event task, loop task, `RuntimeShared` | `tick` is the place in the loop: Wake (122-123), TakeFaults (124-129), DrainOne and DrainDone (131-137), CheckEpoch (138-148), ReadInputs (150-209), Arbitrate (211-226), DecideDrive (233-234), Output (235-269). `usb`, `event`, `loop` hold what a handler still has to do, so that load, push and increment of a handler are separate steps |
| `DriveAuthority` | abstract: what a host is promised about the drive | |
| `MotorOutput` | the control task as caller of the motor | Decide changes force, limits and permission; Call is `set_force` or `disable` |
| `HBridge` | abstract: what the L298N is promised | |
| `SpscQueue` | `wheel::SpscQueue` | a step per load, store, and half of an entry |
| `BoundedFifo` | abstract: a bounded queue | |
| `Seqlock` | publish/snapshot, publish_configuration/configuration_snapshot | a step per atomic access. `reader` is a snapshot beside the writer; `callback` one of the TinyUSB task that has preempted the writer on its core, which goes on when the callback has returned |
| `AtomicRegister` | abstract: a register read in one step | |
| `ConfigFlow` | the copies of the configuration | host update, capture-zero, gesture, auto-centre, save, power failure |
| `EffectEngine` | `wheel::EffectEngine` | one operator per method, `Tick` in the order of the code |
| `EffectPlayback` | `g_effects`, `g_block_load`, the queue, the engine, the clock | one action per report, with its answer; ApplyCommand, TickEngine |
| `Fixed` | `fixed.hpp` | products, clamps and quotients in units of 1/One |
| `EffectForce` | waveforms, conditions, ramp, envelope, direction, gain (`effect_engine.cpp`) | an operator per function, for one moment |
| `EffectShape` | `EffectEngine::evaluate` over time | one step per millisecond, from the end of the delay to the end of the effect |
| `AxisEncoder` | `axis_encoder.cpp`, without the velocity | wrapped delta, position, HID scaling |
| `WheelControls` | `wheel_controls.cpp` | integrator and stable state of each contact |
| `Sampling` | the middle of the control loop (150-209) | ReplaceConfig; ReadFails, ReadWithoutMagnet or Follow; then SampleControls with the gesture. Extends AxisEncoder, WheelControls and EffectForce |
| `InputReports` | `service` | StateReport, WheelReport, ReportFails, NoReport, among changes of state, connections and milliseconds |
| `SimHubDisplay` | `simhub_tft.ino` | ReceiveField, ReceiveLineFeed, ReceiveDone, Refresh; TimePasses |
| `BothBuilds` | ControlCore as the active and as the passive build | `build` chooses; the passive one is an INSTANCE with constants of its own, `kPassiveWheelMode` among them |
| `MCControlCore`, `MCBothBuilds`, `MCArming`, `MCConfigFlow`, `MCEffectPlayback`, `MCEffectShape`, `MCSampling`, `MCSimHubDisplay` | constants of the small instances | |
| `MCBuildingBlocks` | small instances of EffectShape, MotorOutput, SpscQueue, Seqlock and InputReports side by side | `subject` chooses which of them a behaviour is about; they share no state, so to interleave them would show nothing |
| `ControlCoreProofs` | theorems about ControlCore and BothBuilds | safety, the passive build, liveness |
| `SamplingProofs`, `ConfigFlowProofs`, `EffectPlaybackProofs`, `EffectShapeProofs`, `SimHubDisplayProofs` | theorems about the module of that name | |
| `BuildingBlocksProofs` | theorems about MotorOutput, SpscQueue, Seqlock and InputReports | each has its own invariant and its own section |
| `ArithmeticProofs` | lemmas about `Fixed` and `MotorControl` | quotients that truncate, products of fractions, the ranges of force and duty |

`ControlCore` extends `SafetySupervisor` and `MotorControl` and composes them;
`EffectPlayback` extends `EffectEngine`. `ControlCore`, `ConfigFlow`,
`EffectPlayback` and `Sampling` look at one control task from four sides. Each
abstracts the others: ControlCore takes effects as one kind of command, any
force of `Forces`, and verdicts on a reading, which Sampling computes from a
wheel that turns; ConfigFlow leaves authority out; EffectPlayback has revocation
as a choice of the tick. All take queues and snapshots as atomic, which
`SpscQueue` and `Seqlock` justify, but for the hang described under "Fairness". Operators marked "Mutant" are not part of any
specification; they are what the properties are tested against.

### Abstractions

* Fractions in ControlCore and MotorOutput (force, gain, duty, slew) are integers
  of `1/FullScale`; products round toward zero. Floating-point rounding is not
  modelled, nor the 12-bit PWM count. In EffectForce a fraction is what it is in
  the code, an integer with `One` in the place of 32767: every product, quotient
  and clamp is that of the code, the quarter sine is a constant table.
* In ControlCore a reading is four verdicts: bus, magnet, implausible jump, and
  moving fast enough to put the filtered velocity beyond the arming threshold.
  After one such reading the filter may stay "fast" for any time; a slow reading
  may or may not bring it down. Reset filters read zero at their first update.
  The value of the filtered velocity is nowhere.
* `authorised` in ControlCore is history: an enable report was handled after the
  last increment of `disable_epoch`. History variables of the other modules are
  marked as such where they are declared; no guard depends on one.
* The two exchanges of TakeFaults, the two USB flags read by Arbitrate, and
  request_fault inside ReadInputs are one step each with their surroundings.
* Memory order: steps interleave in program order. For the queue the acquire and
  release accesses give that. The sequence lock's relaxed loads and stores would
  need fences on a weaker machine; the model assumes, as the code does, that
  neither compiler nor the in-order cores move them across the sequence number.
  The 32-bit number does not wrap.
* Clocks wrap: at `Wrap` in EffectPlayback and SimHubDisplay, at `ClockWrap` in
  InputReports; the code's at 2^32.
* Only valid records travel through ConfigFlow, ControlCore and Sampling:
  `config_valid` and `config_finalize` appear as that restriction.
* A line of the SimHub display is a sequence of fields, and its buffer holds
  fields instead of characters. Texts are model values, delta times are in the
  steps they are displayed in, pixels are the set of things drawn.
* Of the snapshot a report sends, InputReports keeps the state byte.

## Runs

| Run | Question | Result |
|---|---|---|
| `core_authority` | does the loop ever decide to drive without a standing authorisation; is DriveAuthority implemented; do engine, host and supervisor stay together? | holds, 2.0 M states |
| `core_builds` | is the motor off after every tick that is not armed, does the first fault stay, does anything arm or drive the passive build? | holds, no; 7.3 M states |
| `core_liveness` | do revocations, faults and enables take effect; does a task ever wait for another? | they do, none does; 0.4 M states |
| `core_arming` | does it arm only at rest? | **no**, finding 1 |
| `building_blocks` | is HBridge implemented, do limits and requests get through; is the ring a bounded FIFO of whole entries whose consumer never waits, a snapshot an atomic read, and what can keep it from returning; is the host told of the state, and the steering not held up; is an effect's force what it asks for, does it rise and fall as its envelope says? | yes, and a callback in the middle of a publication only; 97 k states |
| `config_storage` | do the copies of the configuration come together? | yes, 0.9 M states |
| `config_gesture` | is a gesture's centre saved? | **not always**, finding 2 |
| `effects_playback` | do the tables agree, are creations answered truly, do effects play their time, and end? | yes, 0.6 M states |
| `effects_pause` | does a pause end effects? | **it may**, finding 3 |
| `sampling` | does the position follow the wheel, the spring pull, a steady contact show, and the gesture need its hold? | yes, 4.1 M states |
| `simhub` | does the dot tell the truth, and is what was accepted drawn, in time and not too often? | yes, 9.1 M states |
| `simhub_resync` | is an oversized line dropped up to its line feed? | **no**, finding 4 |

The type invariants, `BridgeInvariant` and `MotorOffUnlessArmed` are proved and
therefore not run. `ReceivedWhole` is proved too, and part of what
`ImplementsFifo` says: the abstract queue holds whole entries.

### Bounds

* `MaxEpoch` (2 or 3; the counter starts at 1, so one or two revocations) bounds
  revocations; actions that may revoke are guarded by it. One is enough for a
  stale enable, two for an enable between two revocations.
* Queues have one or two usable entries (64, 4 and 2 in the code): enough for
  order, for full and for a push that fails after another succeeded.
* Failure and overrun limits are 2, the gesture takes 2 ticks: one below the
  limit and the limit itself occur.
* `core_authority` has steady readings and all reports that command, `core_builds`
  all readings, overruns and failing saves but four reports, `core_liveness`
  failing saves and a failing USB start: the product of all of them is too
  large, and the invariants over it are proved. The passive build of
  `core_builds` has the gesture, readings that are at rest or fail, saves that
  succeed and no overruns (`PassiveSamples`, `PassiveHolds`,
  `PassiveSaves`, `PassiveOverruns`).
* The ring has four entries and two values: three in the queue, and wraps. The
  record has three fields and four publications.
* ConfigFlow: two updates, two gestures, one power failure, queues of one entry.
* EffectPlayback: two slots, lag up to 2 ms, three reports, `Wrap` 6, which is
  twice the longest effect (delay 1, duration 1, two loops). Reports start from
  a table with one downloaded finite effect in the first of two slots;
  definitions change while effects play.
* Sampling: a turn of six counts, three of them a half, so that the HID axis ends
  half a turn from its centre, and the wheel goes almost a turn to either side of
  the sensor's zero (`MaxTravel` 5), which is the whole axis and more. Each tick it turns by up to `MaxStep` 2, more than the
  plausible 1. `SpeedAssumption` says what the claim that a fault covers every
  lost turn rests on: during `FailureLimit` ticks the wheel turns by less than a
  turn, and by more than a plausible movement less. With the constants of the
  board (a turn of 4096, three failures) that is met by any wheel slower than
  about a quarter of a turn per millisecond; at twice that, a wheel seen again
  after lost readings could look as if it had barely moved, and its position
  would be off by a turn with no fault.
* EffectShape: `One` is 7, four steps of a quarter sine; durations 0, 3 and 5 and
  an endless one followed for eight milliseconds, periods 0 to 6, two loops,
  envelopes that overlap and one longer than the effect, the most negative value
  of every parameter, negative coefficients.
* InputReports: two states, a pace of 2, a refresh of 4 and a clock of 7
  milliseconds (10, 100 and 2^32 in the code). The assumption `MaxPass < Pace`
  says that the loop passes more often than a state may be reported; it takes
  about a millisecond when it has nothing to save.
* SimHubDisplay: a buffer of six fields, an interval of 2, a timeout of 3, a clock
  of 8, passes of up to 2 milliseconds, and a line of each kind. `ShownInTime` allows two passes: after a full
  turn of the clock since the last drawing, that can seem to be just over, which
  costs another pass. `HostIsTold` has the same allowance.

Runs end in no deadlock, and TLC checks it, but in `building_blocks`, where an
effect ends, and with it what there is to see of it.

### Fairness

* Control task: weak fairness. It is pinned and waits only for its period. Only
  one priority is higher (`control_core.cpp:282-283`). The tasks that have it do
  little and wait for events, with one exception, which the fairness of
  ControlCore leaves out, so that `RevocationStopsMotor`, `FailureIsLatched` and
  `EnabledWheelArms` are claims about behaviours without it:
* **A snapshot may hang both tasks.** The TinyUSB task may run on core 1, and its
  callbacks take snapshots (`usb_pid.cpp:325`, `327`, `395`, `399`). If one
  preempts the control task between the two increments of a publication, it spins
  on the odd number (`shared_state.hpp:60` and `116`), at a priority at which the
  control task does not get to run and make it even. Neither goes on, and the
  bridge stays as the last tick left it. No document of the repository says
  anything of it, so it is not among the findings below; it is in the model
  (`Interrupted` in Seqlock, where WriterStep waits for the callback and its
  fairness promises nothing meanwhile), and it is the one exception of
  `SnapshotReturns`. Without the exception TLC shows the hang.
* A handler that started (USB report, USB event, loop) continues; FreeRTOS
  schedules all of them and none waits for another, which is `TasksCanRun`: a
  task that has something to do can take a step. For the loop task, which may be
  on the core of the control task and below it, that assumes that ticks leave
  time: overruns pass. Hosts, events, drivers and
  power owe nothing, so no report or event is fair.
* `DrainKeepsUp`, the premise of the ControlCore liveness properties: the drain
  loop ends again and again. The code does not bound it (`control_core.cpp:133`);
  a host that pushes as fast as the loop pops keeps the task there. USB full
  speed makes that unlikely, nothing makes it impossible.
* EffectPlayback: the clock advances and the control task runs.
* `building_blocks`: in a behaviour about the motor, calls are made; in one about
  the queue or the sequence lock, a push, pop, publication or snapshot that has
  begun continues, a publication only while no callback has its core.
* InputReports and SimHubDisplay have no fairness: their deadlines are
  invariants over history variables that count milliseconds.

## Findings

1. **Arming in motion** (`core_arming`). A completed gesture, or a configuration
   update, resets the velocity filter in the tick whose arming check reads it, so
   a spinning wheel counts as stationary. `src/arduino-port/README.md:119-123`
   requires a nearly stationary encoder.
2. **Centre lost from flash** (`config_gesture`). `loop()` empties
   `pending_configs` first. A host update already applied but not yet saved when
   a gesture is queued can be saved after it, over it. README lines 11-12 say the
   angle is saved; nothing reports that it was not.
3. **Effect ended by a pause** (`effects_pause`). An effect started and paused
   within one drain is moved into the future by the resume, and the unsigned
   difference makes it look finished.
4. **Tail of an oversized line** (`simhub_resync`). Line 249 of `simhub_tft.ino`
   empties the buffer and goes on collecting, so the rest of the line is parsed as a
   packet of its own. The comment on line 248 says that the packet is dropped and
   reception resynchronised at the next LF.

Not findings, but worth knowing, and kept in the hazard list: a duty above newly
installed limits is slewed down rather than cut when update and enable share a
drain (`DutyConvergesToLimit` says how fast); `disable()` forgets the direction,
so a drive the other way needs no dead time; auto-centring survives an update; a
creation of an unknown type is answered with an error and no free count.

## Proofs

All theorems hold for every value of the constants that satisfies the `ASSUME`s
of the modules, which TLC evaluates in the runs.

**Control core.** `IInv == TypeOK /\ EpochInvariant /\ SafetyInvariant`. That the
loop decides to drive only when authorised is not inductive: the decision
compares `acknowledged` with `disable_epoch`, and `acknowledged` comes out of a
command that comes out of a queue that a handler filled. EpochInvariant follows
the epoch back: the acknowledged one, those of queued enables and that of the
handler's enable are at most the current epoch, and equal to it only while the
authorisation stands. Incrementing the epoch makes all of them stale at once
(`RevocationCovers`), which is why no queue needs to be flushed. SafetyInvariant
is DriveInvariant, PassiveInvariant, FaultInvariant and EngineFollowsHost. The
types are proved first (`StepType`, on the range lemmas of
`ArithmeticProofs`), then each conjunct action by action. From `Inductive`
follow CoreCorrect, MotorOff, EngineFollows, PassiveOff, and the action
properties DriveAuthorised, WakeCuts and FaultClears. `AuthorityKept` is the
refinement: seen by a host the nine points of the loop are a look, a decision
that takes its time and an act (`Turn`), and each step of each task is one of
the five of DriveAuthority (`AuthorityStep`).

**Both builds.** PassiveIInv says more of the passive build than that it is
unarmed and its bridge low: that the loop never decides to drive, and that no host
is enabled from where the passive loop disables it to the update of the
supervisor, whatever the drain enabled before. `BuildsMotorOff` puts the two builds
together: one disjunct of the invariant for each.

**Liveness of the control core.** `RevocationStops`, `FailureLatched` and
`EnabledArms` follow from the weak fairness of the tasks and DrainKeepsUp, by
the rules of temporal logic alone. `TickComesRound` comes first: a control task
that is scheduled and whose drain ends passes every point of the tick again and
again. A revocation, or a failure that is flagged (`FailureStays`), stays until
the tick comes to where it is taken. An enable has a longer way:
EnableInvariant says where it is while its authorisation stands. It is with the
handler, or in the queue in front of nothing that takes it back (`HarmlessFrom`),
or in force, or a push has just failed, which is about to end the authorisation;
and it goes through these places in this order and never back (`SentStays`,
`QueuedStays`, `InForceStays`). `QueueEmpties` brings it into force for good
(`InForceForGood`), and ReadingInvariant makes the next update arm (`Arms`) and
every later one stay armed (`ArmedStays`), as long as the wheel is healthy. The
hypothesis `[]TasksCanRun` of these theorems stands for ENABLED, which the prover
does not expand: it says that weak fairness has a step to take, its guards are
written out in ControlCore, and TLC checks it as an invariant of `core_liveness`.

**Motor.** BridgeInvariant with the types is inductive; `DriveStepCases` names
the outcomes of a call, and each is one of the abstract bridge's actions, or
leaves it alone: `MotorRefinement`. `DutyConverges` follows from the slew limiter's
range. `ForceComesCloser` is what ForceSettles rests on: while the request stays
the same every call makes a natural number smaller, which counts the rest of a
reversal and the distance of the duty, until side and duty are those asked for.

**Queue.** RingInvariant is inductive: the producer's entry is outside, the
consumer's inside of what is queued. Publishing and releasing move one end of a
cyclic interval by one (`BetweenPublish`, `BetweenRelease`). `PopWhole` follows.
The entries between tail and
head are then a sequence (`QueuedIsSeq`), to which storing head appends
(`PublishAppends`) and from which storing tail takes the first (`ReleaseRemoves`),
whatever the other task is doing: `QueueRefinement` to BoundedFifo, of entries
that are whole (`WholeEntries`). `EntryReceived` is liveness: a poll finds the
entry or is in the middle of taking it, and `[]PopCanRun` stands for ENABLED as
above, checked in `building_blocks`.

**Sequence lock.** SeqlockInvariant is inductive; parity is lemma `Parity`. When
the number is unchanged, everything copied is the published version, which gives
`NeverTorn` and the `SeqlockRefinement` to the register. A snapshot may retry
without end, but `SnapshotComesCloser` says that steps are not in vain: a number
of no more than `3 * FieldCount + 5` falls with every step of a publication or
snapshot that has begun. What can keep a snapshot from returning are then new
publications, and a publication that takes no step because a callback has
interrupted it.

**Sampling.** TrackInvariant says, beside the two claims about the position, how
far the wheel can be from where it was last seen: as many steps as readings
failed in a row. With SpeedAssumption a movement that is judged plausible is then
the wheel's, not one a turn away: `Tracks`. ButtonsInvariant bounds an
integrator by how long its contact has been steady, and the history of the
gesture by the integrators: between two gestures a released paddle has to fall
and to rise through the whole integrator, which is where the debounce time in
`GestureNeedsHold` comes from. AxisInvariant ties the axis to the position;
`SpringKeepsHold` is then monotony, of the scaling, of the dead band, and of a
product and its saturation.

**Configuration.** StorageInvariant says where the record the wheel runs with is
on its way to the flash while it is not yet there: behind everything else in the
queue of its source, or in the hands of the loop. CenterDecided, GestureStored
and UpdateStored are the cases of a source; without the parts about a queue that
must be empty the others could overtake. `WorkComesToAnEnd` weighs what is under
way, an update about to be queued more than a record about to be saved, and a
queue that is not looked at a little: every step of the three tasks makes the sum
smaller, but for the loop's look at two empty queues, and at zero all is settled.

**Effects.** `PlaybackInvariant == Counts(engine, age) /\ TablesAgree /\
QueueEnds`. What the engine ends up with is what the last command about a slot
makes of it; QueueEnds says that there is such a command or none, which spares
an induction over the queue. Appending and taking a command away then change the
final definition of a slot as the host's table and the engine's change
(`AppendedFinal` and its neighbours). Counts ties the start time of every
playing effect to its age, in arithmetic modulo `Wrap`: elapsed time adds up
over ticks and pauses (`SameReading`, `MovedCounts`), as long as an effect is
younger than a turn of the clock. From it follow ClockKept and `PlaysExactly`,
whole loops of a duration being lemma `LoopsPlayed`; `AnswersTrue` counts the
free slots after the queue.

**Shape of an effect.** `ForceFaithful` is arithmetic about one moment: every
one of three products truncates (`ProductTruncates`), so the three together lose
less than three units of what was asked for (`ThreeLosses`); the clamps in
between have nothing to do (`ProductMagnitude`), but the first. The mirrored
halves are the sine table read backwards and upside down at a phase half a turn
later, and half of an even period is half a turn of the phase whatever its
remainder (`PeriodMirrors`). What a step may do needs an invariant: ShapeInvariant
says that the force is that of the moment, and that a constant effect that has
become weaker in this pass is in its fade, below the attack; from there the
smaller of the two is the fade, which only falls (`AttackFade`). A ramp is
monotone in time, and so is what direction and gain make of it, with the sign
of the direction (`RampNeverTurns`). The assumption on the effects,
`EffectParameters`, is what `parse_output` lets pass: 16-bit fields, levels,
saturations and gains that are no more than One, a phase below a turn.

**Reports.** What service remembers are two readings of a clock that wraps; what
the deadlines are about is time that does not. ReportsInvariant relates them:
a state that waits was not due at the last pass, by the clock's account, or has
waited since that pass only; when the clock has come round since the last
report, it has waited for less than the clock says and a pass (StateInvariant).
The steering has been waiting since the last pass, or that pass told the state
(WheelInvariant), which is why changes of state cannot hold it up twice.

**Display.** ClockInvariant of `SimHubDisplayProofs` is of the same kind. While
the dot is green the clock tells the silence; while it is red nothing is said,
since the clock may have come round. ScreenInvariant says that the notes of what
was drawn last are what is on the screen (`IsDisplay`), and that each dirty flag
stands for the fields its own packet brings; the bar depends on packets of both
kinds and is right only when neither waits. The proof found that the period of
the display's clock has to be positive, now part of SimHubAssumption.

**Only model-checked:** `TasksCanRun` and `PopCanRun`, since each speaks of
ENABLED; `ForceSettles`, `SnapshotReturns` and `AlwaysSettles`, of which the step
is proved, that a natural number falls (ForceComesCloser, SnapshotComesCloser,
WorkComesToAnEnd), and not the induction over that number, for which the prover
has no rule; `FiniteEffectsEnd`, likewise, of which PlaysExactly is the fact
about each tick; and what no proof can show: that the interesting cases occur.

## Not modelled

* `ffb_hid_device.cpp`: forwards TinyUSB's callbacks and keeps nothing. The
  descriptor is a table of bytes.
* Answers of `get_report` other than the block load, decoding of reports apart
  from which reports change what, and the commissioning trace: output, no
  control.
* The value of the filtered velocity (floating point); only whether it is beyond
  the arming threshold matters to what is modelled.
* The sum of the effects: it is the definition `Mixed`, and no property is about
  it.
* `tools/wheel_config.py`: a host script that sends one report and prints one.
  `pico_tft_67`, `tft_espi_test`: demonstrations of a display. `EMCFFBV2`, `bom.csv`: no code.
* Pixels, texts and wording of the display.

## Plan

Done: all modules of the table, with the proofs named above. Left, in this order:

1. The sum of effects and its limit, over a small set of effects that start and
   end: the total stays in range and an effect that ends leaves what the others
   ask for. The sum is a fold, over which the prover has no induction: what the
   final limit gives can be proved, the rest is for TLC.
2. The velocity filter in integers, to replace the verdict "moving", and finding 1
   restated over it.
