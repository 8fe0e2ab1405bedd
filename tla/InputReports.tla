----------------------------- MODULE InputReports -----------------------------
(***************************************************************************)
(* The input reports (service, usb_pid.cpp): every pass of the loop task   *)
(* sends at most one, the PID state when it has changed or for too long    *)
(* has not been sent, else the wheel.  Both are paced by the millisecond   *)
(* clock, which wraps at ClockWrap here and at 2^32 in the code.           *)
(*                                                                         *)
(* The snapshot is atomic (module Seqlock); of it only the state byte is   *)
(* kept.  A report may fail to be sent, and is then tried again.           *)
(***************************************************************************)
EXTENDS Integers

CONSTANTS
    StateBytes,         \* the states of the wheel a report tells apart
    NeverSent,          \* 0xff, no state byte
    Refresh,            \* milliseconds after which an old state is repeated
    Pace,               \* milliseconds between two state reports
    ClockWrap,          \* the clock's modulus
    MaxPass             \* environment: milliseconds a pass of the loop takes

\* A pass that takes longer than Pace could have a state to report each time.
ASSUME InputReportsAssumption ==
    /\ NeverSent \notin StateBytes
    /\ {Refresh, Pace, ClockWrap, MaxPass} \subseteq Nat \ {0}
    /\ MaxPass < Pace /\ Pace <= Refresh /\ Refresh + MaxPass < ClockWrap

VARIABLES
    state,              \* the state byte of the next snapshot
    connected,          \* mounted, not suspended, and the endpoint ready
    clock,              \* esp_timer_get_time in milliseconds
    pass,               \* milliseconds since service was last called
    last_state, last_state_ms, last_wheel_ms,
    told,               \* history: the state the connected host was told last
    late,               \* history: milliseconds this has not been the state
    silent,             \* history: milliseconds without a state report
    steered,            \* history: a wheel report was sent, and none failed since
    stale               \* history: milliseconds since that report

clockVars == <<clock, pass>>
reportVars == <<state, connected, clockVars, last_state, last_state_ms, last_wheel_ms,
                told, late, silent, steered, stale>>

ReportsInit ==
    /\ state \in StateBytes
    /\ connected = FALSE
    /\ clock = 0
    /\ pass = 0
    /\ last_state = NeverSent
    /\ last_state_ms = 0
    /\ last_wheel_ms = 0
    /\ told = NeverSent
    /\ late = 0 /\ silent = 0
    /\ steered = FALSE /\ stale = 0

SinceState == (clock - last_state_ms) % ClockWrap

\* Mutant: the next time is computed ahead and compared.
StateDueAhead ==
    /\ state # last_state \/ clock >= last_state_ms + Refresh
    /\ clock >= last_state_ms + Pace

\* Mutant: a changed state is not paced.
StateDueAtOnce == state # last_state \/ SinceState >= Refresh

StateDue == (state # last_state \/ SinceState >= Refresh) /\ SinceState >= Pace

WheelDue == ~StateDue /\ clock # last_wheel_ms

StateReport ==
    /\ connected
    /\ StateDue
    /\ last_state' = state /\ last_state_ms' = clock
    /\ told' = state
    /\ late' = 0 /\ silent' = 0
    /\ UNCHANGED <<last_wheel_ms, steered, stale>>

WheelReport ==
    /\ connected
    /\ WheelDue
    /\ last_wheel_ms' = clock
    /\ steered' = TRUE /\ stale' = 0
    /\ UNCHANGED <<last_state, last_state_ms, told, late, silent>>

\* send_report gives up: nothing is noted.
ReportFails ==
    /\ connected
    /\ StateDue \/ WheelDue
    /\ late' = 0 /\ silent' = 0
    /\ steered' = FALSE /\ stale' = 0
    /\ UNCHANGED <<last_state, last_state_ms, last_wheel_ms, told>>

\* Nobody to report to, or nothing new.
NoReport ==
    /\ ~connected \/ (~StateDue /\ ~WheelDue)
    /\ UNCHANGED <<last_state, last_state_ms, last_wheel_ms, told, late, silent, steered,
                   stale>>

Service ==
    /\ StateReport \/ WheelReport \/ ReportFails \/ NoReport
    /\ pass' = 0
    /\ UNCHANGED <<state, connected, clock>>

-----------------------------------------------------------------------------
(* The control task, the USB events and the clock.                         *)

WheelChanges ==
    /\ state' \in StateBytes \ {state}
    /\ late' = IF state' = told THEN 0 ELSE late
    /\ UNCHANGED <<connected, clockVars, last_state, last_state_ms, last_wheel_ms,
                   told, silent, steered, stale>>

\* Whoever connects has been told nothing.
Connection ==
    /\ connected' = ~connected
    /\ told' = NeverSent
    /\ late' = 0 /\ silent' = 0
    /\ steered' = FALSE /\ stale' = 0
    /\ UNCHANGED <<state, clockVars, last_state, last_state_ms, last_wheel_ms>>

MillisecondPasses ==
    /\ pass < MaxPass
    /\ pass' = pass + 1
    /\ clock' = (clock + 1) % ClockWrap
    /\ late' = IF told \notin {NeverSent, state} THEN late + 1 ELSE 0
    /\ silent' = IF connected THEN silent + 1 ELSE 0
    /\ stale' = IF steered THEN stale + 1 ELSE 0
    /\ UNCHANGED <<state, connected, last_state, last_state_ms, last_wheel_ms, told, steered>>

ReportsNext == Service \/ WheelChanges \/ Connection \/ MillisecondPasses

ReportsSpec == ReportsInit /\ [][ReportsNext]_reportVars

-----------------------------------------------------------------------------

\* While reports can be sent, a host learns of a state that lasts after Pace
\* and a pass of the loop, and hears of the state every Refresh and a pass,
\* the first time too, though service remembers what it told another host.
\* (A second pass may be lost when a full turn of the clock without reports
\* seems to be no time.)
HostIsTold ==
    /\ late <= Pace + 2 * MaxPass
    /\ silent <= Refresh + 2 * MaxPass

\* However often the state changes, it never holds up the steering for more
\* than a pass of the loop.
SteeringKeepsUp == stale <= 2 * MaxPass

=============================================================================
