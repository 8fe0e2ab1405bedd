-------------------------- MODULE SimHubDisplayProofs --------------------------
(***************************************************************************)
(* The dashboard, for every set of lines, size of the buffer, interval,    *)
(* timeout, lag of the loop and modulus of the clock.                      *)
(***************************************************************************)
EXTENDS SimHubDisplay, TLAPS

Clock == 0 .. Wrap - 1

\* The remainder of a number by a modulus is the number itself, or one turn more.
LEMMA ElapsedOnClock ==
    ASSUME NEW t \in Clock, NEW since \in Clock
    PROVE  (t - since) % Wrap = IF t >= since THEN t - since ELSE t - since + Wrap
<1>1. Wrap \in Nat /\ Wrap > 0
  BY SimHubAssumption
<1>2. t - since \in Int /\ -Wrap < t - since /\ t - since < Wrap
  BY <1>1 DEF Clock
<1>3. \A x \in Int : 0 <= x /\ x < Wrap => x % Wrap = x
  BY <1>1
<1>4. \A x \in Int : -Wrap < x /\ x < 0 => x % Wrap = x + Wrap
  BY <1>1
<1> QED
  BY <1>1, <1>2, <1>3, <1>4 DEF Clock

LEMMA ClockTicks ==
    ASSUME NEW t \in Clock
    PROVE  (t + 1) % Wrap = IF t = Wrap - 1 THEN 0 ELSE t + 1
<1>1. Wrap \in Nat /\ Wrap > 0
  BY SimHubAssumption
<1>2. \A x \in Int : 0 <= x /\ x < Wrap => x % Wrap = x
  BY <1>1
<1>3. Wrap % Wrap = 0
  BY <1>1
<1>4. t \in Int /\ 0 <= t /\ t < Wrap
  BY <1>1 DEF Clock
<1>5. CASE t = Wrap - 1
  <2>1. t + 1 = Wrap
    BY <1>1, <1>5
  <2> QED
    BY <1>3, <1>5, <2>1
<1>6. CASE t # Wrap - 1
  BY <1>1, <1>2, <1>4, <1>6
<1> QED
  BY <1>5, <1>6

-----------------------------------------------------------------------------
(* The clock, and what the sketch remembers of it.                         *)

ClockTypeOK ==
    /\ {now, last_packet, last_fast_draw} \subseteq Clock
    /\ lag \in 0 .. MaxLag
    /\ connected \in BOOLEAN
    /\ silence \in 0 .. Timeout + MaxLag + 1
    /\ waiting \in Nat
    /\ resting \in 0 .. Interval

\* While the dot is green, the clock tells how long nobody has sent, and the
\* last look at it found that this was within the timeout.
DotInvariant ==
    /\ connected => Elapsed(last_packet) = silence /\ silence <= Timeout + lag
    /\ ~connected => silence > Timeout

\* The clock tells how long ago fast data was drawn, unless that was a whole
\* turn ago.  Data that has waited since before the last look at the clock
\* found the interval not over; the turn of the clock is over in one pass.
PaceInvariant ==
    /\ resting < Interval => Elapsed(last_fast_draw) = resting
    /\ "fast" \notin dirty => waiting = 0
    /\ waiting <= lag \/ Elapsed(last_fast_draw) < Interval + lag
    /\ waiting <= Elapsed(last_fast_draw) + MaxLag

ClockInvariant == ClockTypeOK /\ DotInvariant /\ PaceInvariant

LEMMA Numbers ==
    /\ Wrap \in Int /\ Timeout \in Int /\ Interval \in Int /\ MaxLag \in Int
    /\ Wrap > 0 /\ Interval > 0 /\ Timeout >= 0 /\ MaxLag >= 0
    /\ Timeout + MaxLag < Wrap /\ Interval + MaxLag < Wrap
BY SimHubAssumption

LEMMA ClockInit == Init => ClockInvariant
<1> SUFFICES ASSUME Init PROVE ClockInvariant
  OBVIOUS
<1>1. 0 \in Clock
  BY Numbers DEF Clock
<1>2. (0 - 0) % Wrap = 0
  BY <1>1, ElapsedOnClock
<1>3. Elapsed(last_fast_draw) = 0
  BY <1>2 DEF Init, Elapsed
<1>4. ClockTypeOK
  <2>1. /\ now = 0 /\ last_packet = 0 /\ last_fast_draw = 0 /\ lag = 0 /\ waiting = 0
        /\ silence = Timeout + MaxLag + 1 /\ resting = Interval
    BY DEF Init
  <2>2. connected \in BOOLEAN
    BY Zenon DEF Init
  <2>3. {now, last_packet, last_fast_draw} \subseteq Clock
    BY <1>1, <2>1
  <2>4. silence \in 0 .. Timeout + MaxLag + 1 /\ resting \in 0 .. Interval
    BY <2>1, Numbers
  <2>5. lag \in 0 .. MaxLag /\ waiting \in Nat
    BY <2>1, Numbers
  <2> QED
    BY <2>2, <2>3, <2>4, <2>5 DEF ClockTypeOK
<1>5. DotInvariant
  BY Numbers DEF Init, DotInvariant
<1>6. PaceInvariant
  BY <1>3, Numbers DEF Init, PaceInvariant
<1> QED
  BY <1>4, <1>5, <1>6 DEF ClockInvariant

\* A packet that is heard starts the silence anew.
LEMMA ClockPacket ==
    ASSUME ClockInvariant, NEW packet, ParsePacket(packet),
           UNCHANGED <<drawVars, clockVars, waiting>>
    PROVE  ClockInvariant'
<1> USE DEF ClockInvariant, ClockTypeOK, DotInvariant, PaceInvariant, Elapsed,
            drawVars, clockVars, packetVars
<1>1. dirty \subseteq dirty' /\ ("fast" \in dirty => "fast" \in dirty')
  BY DEF ParsePacket, FastPacket, StatePacket
<1>2. CASE Heard
  <2>1. (now - now) % Wrap = 0 /\ now \in Clock /\ now \in Int
    BY Numbers, ElapsedOnClock DEF Clock
  <2> QED
    BY <1>1, <1>2, <2>1, Numbers DEF Heard
<1>3. CASE UNCHANGED <<packetVars, dirty, silence>>
  BY <1>3
<1> QED
  BY <1>2, <1>3 DEF ParsePacket

LEMMA ClockRefresh == ClockInvariant /\ Refresh => ClockInvariant'
<1> SUFFICES ASSUME ClockInvariant, Refresh PROVE ClockInvariant'
  OBVIOUS
<1> USE DEF ClockInvariant, ClockTypeOK, DotInvariant, PaceInvariant, Elapsed
<1>1. /\ now' = now /\ last_packet' = last_packet /\ silence' = silence /\ lag' = 0
      /\ connected' = (connected /\ ~Expired)
  BY DEF Refresh
<1>2. now \in Clock /\ last_packet \in Clock /\ last_fast_draw \in Clock
  OBVIOUS
<1>3. DotInvariant'
  <2> DEFINE heard == Elapsed(last_packet)
  <2>1. silence \in Int /\ (connected => heard = silence) /\ (~connected => silence > Timeout)
    OBVIOUS
  <2>2. Elapsed(last_packet)' = heard
    BY <1>1
  <2> HIDE DEF ClockInvariant
  <2>3. connected' => connected /\ ~(heard > Timeout)
    BY <1>1, Zenon DEF Expired
  <2>4. ~connected' => ~connected \/ heard > Timeout
    BY <1>1, Zenon DEF Expired
  <2> HIDE DEF heard, Elapsed
  <2>5. connected' => heard = silence' /\ silence' <= Timeout + lag'
    BY <1>1, <2>1, <2>3, Numbers
  <2>6. ~connected' => silence' > Timeout
    BY <1>1, <2>1, <2>4, Numbers
  <2> QED
    BY <2>2, <2>5, <2>6
<1>4. CASE FastDue
  <2>1. last_fast_draw' = now /\ resting' = 0 /\ waiting' = 0
    BY <1>4 DEF Refresh, LastFastDrawAfter
  <2>2. (now - now) % Wrap = 0
    BY <1>2, Numbers, ElapsedOnClock DEF Clock
  <2> QED
    BY <1>1, <1>2, <1>3, <2>1, <2>2, Numbers
<1>5. CASE ~FastDue
  <2>1. /\ last_fast_draw' = last_fast_draw /\ resting' = resting /\ waiting' = waiting
        /\ "fast" \in dirty' <=> "fast" \in dirty
    BY <1>5 DEF Refresh, LastFastDrawAfter
  <2>2. waiting = 0 \/ Elapsed(last_fast_draw) < Interval
    BY <1>5, <1>2, Numbers, ElapsedOnClock DEF FastDue, Clock
  <2> QED
    BY <1>1, <1>2, <1>3, <2>1, <2>2, Numbers
<1> QED
  BY <1>4, <1>5

LEMMA ClockTime == ClockInvariant /\ TimePasses => ClockInvariant'
<1> SUFFICES ASSUME ClockInvariant, TimePasses PROVE ClockInvariant'
  OBVIOUS
<1> USE DEF ClockInvariant, ClockTypeOK, DotInvariant, PaceInvariant, Elapsed, Clock
<1>1. /\ last_packet' = last_packet /\ last_fast_draw' = last_fast_draw
      /\ connected' = connected /\ dirty' = dirty
      /\ lag < MaxLag /\ lag' = lag + 1
      /\ now' = (now + 1) % Wrap
      /\ waiting' = IF "fast" \in dirty THEN waiting + 1 ELSE 0
  BY DEF TimePasses, packetVars
<1>2. /\ silence \in Int /\ resting \in Int
      /\ silence' = IF silence = Timeout + MaxLag + 1 THEN silence ELSE silence + 1
      /\ resting' = IF resting = Interval THEN resting ELSE resting + 1
  <2> HIDE DEF DotInvariant, PaceInvariant, Elapsed
  <2>1. silence \in 0 .. Timeout + MaxLag + 1 /\ resting \in 0 .. Interval
    OBVIOUS
  <2>2. /\ silence' = Constrain(silence + 1, 0, Timeout + MaxLag + 1)
        /\ resting' = Constrain(resting + 1, 0, Interval)
    BY DEF TimePasses
  <2> HIDE DEF ClockInvariant
  <2> QED
    BY <2>1, <2>2, Numbers DEF Constrain
<1>3. now' = IF now = Wrap - 1 THEN 0 ELSE now + 1
  BY <1>1, ClockTicks
<1>4. now' \in Clock
  BY <1>3, Numbers
<1>5. \A since \in Clock :
         (now' - since) % Wrap
           = IF (now - since) % Wrap = Wrap - 1 THEN 0 ELSE ((now - since) % Wrap) + 1
  <2> TAKE since \in Clock
  <2>1. (now' - since) % Wrap = IF now' >= since THEN now' - since ELSE now' - since + Wrap
    BY <1>4, ElapsedOnClock
  <2>2. (now - since) % Wrap = IF now >= since THEN now - since ELSE now - since + Wrap
    BY ElapsedOnClock
  <2> HIDE DEF Elapsed
  <2> DEFINE after == (now' - since) % Wrap
             before == (now - since) % Wrap
  <2>3. /\ after = IF now' >= since THEN now' - since ELSE now' - since + Wrap
        /\ before = IF now >= since THEN now - since ELSE now - since + Wrap
    BY <2>1, <2>2
  <2> HIDE DEF after, before
  <2>4. after = IF before = Wrap - 1 THEN 0 ELSE before + 1
    BY <1>3, <2>3, Numbers
  <2> QED
    BY <2>4 DEF after, before
<1>6. \A since \in Clock : (now - since) % Wrap \in Clock
  BY Numbers, ElapsedOnClock
<1> DEFINE heard == (now - last_packet) % Wrap
           drawn == (now - last_fast_draw) % Wrap
<1>7. /\ heard \in Clock /\ drawn \in Clock
      /\ Elapsed(last_packet)' = IF heard = Wrap - 1 THEN 0 ELSE heard + 1
      /\ Elapsed(last_fast_draw)' = IF drawn = Wrap - 1 THEN 0 ELSE drawn + 1
      /\ Elapsed(last_packet) = heard /\ Elapsed(last_fast_draw) = drawn
  BY <1>1, <1>5, <1>6
<1> HIDE DEF heard, drawn, Elapsed
<1>8. DotInvariant'
  BY <1>1, <1>2, <1>7, Numbers
<1>9. PaceInvariant'
  BY <1>1, <1>2, <1>7, Numbers
<1> QED
  <2>1. ClockTypeOK'
    <3> HIDE DEF DotInvariant, PaceInvariant
    <3>1. now' \in Clock /\ last_packet' \in Clock /\ last_fast_draw' \in Clock
      BY <1>1, <1>4
    <3>2. /\ lag' \in 0 .. MaxLag /\ waiting' \in Nat /\ resting' \in 0 .. Interval
          /\ silence' \in 0 .. Timeout + MaxLag + 1
      BY <1>1, <1>2, Numbers
    <3> QED
      BY <1>1, <3>1, <3>2
  <2> QED
    BY <1>8, <1>9, <2>1

LEMMA ClockStep == ClockInvariant /\ [Next]_vars => ClockInvariant'
<1> SUFFICES ASSUME ClockInvariant, [Next]_vars PROVE ClockInvariant'
  OBVIOUS
<1> USE DEF ClockInvariant, ClockTypeOK, DotInvariant, PaceInvariant, Elapsed,
            packetVars, drawVars, clockVars
<1>1. ASSUME NEW line \in Lines, SendLine(line) PROVE ClockInvariant'
  BY <1>1 DEF SendLine
<1>2. CASE ReceiveField
  BY <1>2 DEF ReceiveField
<1>3. CASE ReceiveLineFeed
  BY <1>3, ClockPacket DEF ReceiveLineFeed
<1>4. CASE ReceiveDone
  BY <1>4 DEF ReceiveDone
<1>5. CASE Refresh
  BY <1>5, ClockRefresh
<1>6. CASE TimePasses
  BY <1>6, ClockTime
<1>7. CASE UNCHANGED vars
  BY <1>7 DEF vars
<1> QED
  BY <1>1, <1>2, <1>3, <1>4, <1>5, <1>6, <1>7 DEF Next

LEMMA ClockInductive == Spec => []ClockInvariant
BY ClockInit, ClockStep, PTL DEF Spec

\* The dot does not lie, whatever the clock did: green is shown at most a
\* pass of the loop too long, and red never too early.
THEOREM DotTrue == Spec => []DotIsTrue
<1>1. ClockInvariant => DotIsTrue
  BY Numbers DEF ClockInvariant, ClockTypeOK, DotInvariant, DotIsTrue
<1> QED
  BY <1>1, ClockInductive, PTL

\* Fast data that was accepted is drawn in time.
THEOREM FastShown == Spec => []ShownInTime
<1>1. ClockInvariant => ShownInTime
  <2> SUFFICES ASSUME ClockInvariant PROVE ShownInTime
    OBVIOUS
  <2>1. Elapsed(last_fast_draw) \in Int
    BY Numbers, ElapsedOnClock DEF ClockInvariant, ClockTypeOK, Elapsed, Clock
  <2> QED
    BY <2>1, Numbers DEF ClockInvariant, ClockTypeOK, PaceInvariant, ShownInTime
<1> QED
  BY <1>1, ClockInductive, PTL

\* Fast data is never drawn twice within an interval.
THEOREM FastPace == Spec => FastPaced
<1>1. ClockInvariant /\ [Next]_vars
        => ["fast" \in dirty /\ "fast" \notin dirty' => resting >= Interval]_vars
  <2> SUFFICES ASSUME ClockInvariant, [Next]_vars, "fast" \in dirty, "fast" \notin dirty'
               PROVE  resting >= Interval
    OBVIOUS
  <2>1. Refresh /\ FastDue
    BY DEF Next, vars, SendLine, ReceiveField, ReceiveLineFeed, ReceiveDone, Refresh,
           TimePasses, ParsePacket, FastPacket, StatePacket
  <2>2. Elapsed(last_fast_draw) >= Interval /\ Elapsed(last_fast_draw) \in Int
    BY <2>1, Numbers, ElapsedOnClock DEF FastDue, ClockInvariant, ClockTypeOK, Elapsed, Clock
  <2> QED
    BY <2>2, Numbers DEF ClockInvariant, ClockTypeOK, PaceInvariant
<1> QED
  BY <1>1, ClockInductive, PTL DEF Spec, FastPaced

-----------------------------------------------------------------------------
(* What is on the screen.                                                  *)

IsPicture(p) ==
    p = [rpm |-> p.rpm, number_max |-> p.number_max, lit |-> p.lit, speed |-> p.speed,
         delta |-> p.delta, gear |-> p.gear, lap |-> p.lap]

\* The sketch's record of the screen is right.
IsDisplay(d) == IsPicture(d.shown) /\ d = [shown |-> d.shown, last |-> d.shown]

IsData(d) ==
    d = [rpm |-> d.rpm, speed |-> d.speed, delta |-> d.delta, max_rpm |-> d.max_rpm,
         gear |-> d.gear, lap |-> d.lap]

\* Each flag stands for the fields its packet brings; the bar depends on both.
ScreenInvariant ==
    /\ IsDisplay(display) /\ IsData(data)
    /\ "fast" \notin dirty => /\ display.shown.rpm = data.rpm
                             /\ display.shown.speed = data.speed
                             /\ display.shown.delta = data.delta
    /\ "state" \notin dirty => /\ display.shown.number_max = data.max_rpm
                              /\ display.shown.gear = data.gear
                              /\ display.shown.lap = data.lap
    /\ dirty = {} => display.shown.lit = Lit(data)

\* Drawing a field changes this field only, or it is there already.
LEMMA FieldDrawn ==
    ASSUME NEW d, IsDisplay(d), NEW f \in {"speed", "delta", "gear", "lap"}
    PROVE  /\ IsDisplay(DrawField(d, f))
           /\ DrawField(d, f).shown = [d.shown EXCEPT ![f] = data[f]]
<1> DEFINE new == [d.shown EXCEPT ![f] = data[f]]
<1>1. IsPicture(new)
  <2>1. IsPicture(d.shown)
    BY DEF IsDisplay
  <2>2. CASE f = "speed"
    BY <2>1, <2>2 DEF IsPicture
  <2>3. CASE f = "delta"
    BY <2>1, <2>3 DEF IsPicture
  <2>4. CASE f = "gear"
    BY <2>1, <2>4 DEF IsPicture
  <2>5. CASE f = "lap"
    BY <2>1, <2>5 DEF IsPicture
  <2> QED
    BY <2>2, <2>3, <2>4, <2>5
<1>2. DrawField(d, f) = [shown |-> new, last |-> new]
  <2>1. d = [shown |-> d.shown, last |-> d.shown] /\ d.last = d.shown
    BY DEF IsDisplay
  <2>2. CASE data[f] = d.last[f]
    <3>1. new = d.shown
      BY <2>1, <2>2 DEF IsDisplay, IsPicture
    <3> QED
      BY <2>1, <2>2, <3>1 DEF DrawField
  <2>3. CASE data[f] # d.last[f]
    <3>1. DrawField(d, f) = [d EXCEPT !.last[f] = data[f], !.shown[f] = data[f]]
      BY <2>3 DEF DrawField
    <3> QED
      BY <2>1, <3>1
  <2> QED
    BY <2>2, <2>3
<1> HIDE DEF new
<1>3. IsDisplay(DrawField(d, f)) /\ DrawField(d, f).shown = new
  BY <1>1, <1>2 DEF IsDisplay
<1> QED
  BY <1>3 DEF new

LEMMA BarDrawn ==
    ASSUME NEW d, IsDisplay(d)
    PROVE  /\ IsDisplay(DrawRpmBar(d))
           /\ DrawRpmBar(d).shown = [d.shown EXCEPT !.lit = Lit(data)]
<1> DEFINE new == [d.shown EXCEPT !.lit = Lit(data)]
<1>1. IsPicture(new)
  BY DEF IsDisplay, IsPicture
<1>2. DrawRpmBar(d) = [shown |-> new, last |-> new]
  <2>1. d = [shown |-> d.shown, last |-> d.shown] /\ d.last = d.shown
    BY DEF IsDisplay
  <2>2. CASE Lit(data) = d.last.lit /\ data.max_rpm = d.last.number_max
    <3>1. new = d.shown
      BY <2>1, <2>2 DEF IsDisplay, IsPicture
    <3> QED
      BY <2>1, <2>2, <3>1 DEF DrawRpmBar
  <2>3. CASE ~(Lit(data) = d.last.lit /\ data.max_rpm = d.last.number_max)
    <3>1. DrawRpmBar(d) = [d EXCEPT !.last.lit = Lit(data), !.shown.lit = Lit(data)]
      BY <2>3 DEF DrawRpmBar
    <3> QED
      BY <2>1, <3>1
  <2> QED
    BY <2>2, <2>3
<1> HIDE DEF new
<1>3. IsDisplay(DrawRpmBar(d)) /\ DrawRpmBar(d).shown = new
  BY <1>1, <1>2 DEF IsDisplay
<1> QED
  BY <1>3 DEF new

LEMMA NumberDrawn ==
    ASSUME NEW d, IsDisplay(d)
    PROVE  /\ IsDisplay(DrawRpmNumber(d))
           /\ DrawRpmNumber(d).shown
                = [d.shown EXCEPT !.rpm = data.rpm, !.number_max = data.max_rpm]
<1> DEFINE new == [d.shown EXCEPT !.rpm = data.rpm, !.number_max = data.max_rpm]
<1>1. IsPicture(new)
  <2>1. IsPicture(d.shown)
    BY DEF IsDisplay
  <2> DEFINE mid == [d.shown EXCEPT !.rpm = data.rpm]
  <2>2. IsPicture(mid)
    BY <2>1 DEF IsPicture
  <2>3. new = [mid EXCEPT !.number_max = data.max_rpm]
    BY <2>1 DEF IsPicture
  <2> HIDE DEF mid, new
  <2> QED
    BY <2>2, <2>3 DEF IsPicture
<1>2. DrawRpmNumber(d) = [shown |-> new, last |-> new]
  <2>1. d = [shown |-> d.shown, last |-> d.shown] /\ d.last = d.shown
    BY DEF IsDisplay
  <2>2. CASE data.rpm = d.last.rpm /\ data.max_rpm = d.last.number_max
    <3>1. new = d.shown
      BY <2>1, <2>2 DEF IsDisplay, IsPicture
    <3> QED
      BY <2>1, <2>2, <3>1 DEF DrawRpmNumber
  <2>3. CASE ~(data.rpm = d.last.rpm /\ data.max_rpm = d.last.number_max)
    <3>1. DrawRpmNumber(d)
            = [d EXCEPT !.last.rpm = data.rpm, !.last.number_max = data.max_rpm,
                        !.shown.rpm = data.rpm, !.shown.number_max = data.max_rpm]
      BY <2>3 DEF DrawRpmNumber
    <3> QED
      BY <2>1, <3>1
  <2> QED
    BY <2>2, <2>3
<1> HIDE DEF new
<1>3. IsDisplay(DrawRpmNumber(d)) /\ DrawRpmNumber(d).shown = new
  BY <1>1, <1>2 DEF IsDisplay
<1> QED
  BY <1>3 DEF new

\* What the two drawings leave on the screen, whatever was there before.
LEMMA FastDrawn ==
    ASSUME NEW d, IsDisplay(d)
    PROVE  /\ IsDisplay(RenderFastData(d))
           /\ RenderFastData(d).shown
                = [d.shown EXCEPT !.lit = Lit(data), !.rpm = data.rpm,
                                  !.number_max = data.max_rpm, !.speed = data.speed,
                                  !.delta = data.delta]
<1> DEFINE bar == DrawRpmBar(d)
           number == DrawRpmNumber(bar)
           speed == DrawField(number, "speed")
<1>1. IsDisplay(bar) /\ bar.shown = [d.shown EXCEPT !.lit = Lit(data)]
  BY BarDrawn
<1>2. IsDisplay(number)
      /\ number.shown = [bar.shown EXCEPT !.rpm = data.rpm, !.number_max = data.max_rpm]
  BY <1>1, NumberDrawn
<1>3. IsDisplay(speed) /\ speed.shown = [number.shown EXCEPT !.speed = data.speed]
  BY <1>2, FieldDrawn
<1>4. IsDisplay(DrawField(speed, "delta"))
      /\ DrawField(speed, "delta").shown = [speed.shown EXCEPT !.delta = data.delta]
  BY <1>3, FieldDrawn
<1>5. RenderFastData(d) = DrawField(speed, "delta")
  BY DEF RenderFastData
<1> HIDE DEF bar, number, speed
<1> QED
  BY <1>1, <1>2, <1>3, <1>4, <1>5

LEMMA StateDrawn ==
    ASSUME NEW d, IsDisplay(d)
    PROVE  /\ IsDisplay(RenderStateData(d))
           /\ RenderStateData(d).shown
                = [d.shown EXCEPT !.lit = Lit(data), !.rpm = data.rpm,
                                  !.number_max = data.max_rpm, !.gear = data.gear,
                                  !.lap = data.lap]
<1> DEFINE gear == DrawField(d, "gear")
           lap == DrawField(gear, "lap")
           bar == DrawRpmBar(lap)
<1>1. IsDisplay(gear) /\ gear.shown = [d.shown EXCEPT !.gear = data.gear]
  BY FieldDrawn
<1>2. IsDisplay(lap) /\ lap.shown = [gear.shown EXCEPT !.lap = data.lap]
  BY <1>1, FieldDrawn
<1>3. IsDisplay(bar) /\ bar.shown = [lap.shown EXCEPT !.lit = Lit(data)]
  BY <1>2, BarDrawn
<1>4. IsDisplay(DrawRpmNumber(bar))
      /\ DrawRpmNumber(bar).shown
           = [bar.shown EXCEPT !.rpm = data.rpm, !.number_max = data.max_rpm]
  BY <1>3, NumberDrawn
<1>5. RenderStateData(d) = DrawRpmNumber(bar)
  BY DEF RenderStateData
<1> HIDE DEF bar, gear, lap
<1>6. bar.shown = [d.shown EXCEPT !.gear = data.gear, !.lap = data.lap, !.lit = Lit(data)]
  BY <1>1, <1>2, <1>3
<1>7. DrawRpmNumber(bar).shown
        = [d.shown EXCEPT !.lit = Lit(data), !.rpm = data.rpm, !.number_max = data.max_rpm,
                          !.gear = data.gear, !.lap = data.lap]
  BY <1>4, <1>6
<1> QED
  BY <1>4, <1>5, <1>7

LEMMA ScreenInit == Init => ScreenInvariant
BY DEF Init, ScreenInvariant, IsDisplay, IsPicture, IsData, Picture, NoData

LEMMA ScreenRefresh == ScreenInvariant /\ Refresh => ScreenInvariant'
<1> SUFFICES ASSUME ScreenInvariant, Refresh PROVE ScreenInvariant'
  OBVIOUS
<1> DEFINE fast == IF FastDue THEN RenderFastData(display) ELSE display
<1>1. /\ data' = data /\ Lit(data') = Lit(data)
      /\ display' = IF "state" \in dirty THEN RenderStateData(fast) ELSE fast
      /\ dirty' = IF FastDue THEN {} ELSE dirty \ {"state"}
  BY DEF Refresh
<1>2. IsDisplay(display) /\ IsData(data)
  BY DEF ScreenInvariant
<1>3. IsDisplay(fast)
  BY <1>2, FastDrawn
<1>4. FastDue => "fast" \in dirty
  BY DEF FastDue
<1>5. /\ FastDue \/ "fast" \notin dirty => fast.shown.rpm = data.rpm
                                       /\ fast.shown.speed = data.speed
                                       /\ fast.shown.delta = data.delta
      /\ "state" \notin dirty => /\ fast.shown.number_max = data.max_rpm
                                /\ fast.shown.gear = data.gear
                                /\ fast.shown.lap = data.lap
      /\ FastDue \/ dirty = {} => fast.shown.lit = Lit(data)
  <2>1. CASE FastDue
    <3>1. fast.shown = [display.shown EXCEPT !.lit = Lit(data), !.rpm = data.rpm,
                                             !.number_max = data.max_rpm,
                                             !.speed = data.speed, !.delta = data.delta]
      BY <1>2, <2>1, FastDrawn
    <3>2. IsPicture(display.shown)
      BY <1>2 DEF IsDisplay
    <3> HIDE DEF fast
    <3> QED
      BY <2>1, <3>1, <3>2 DEF ScreenInvariant, IsPicture
  <2>2. CASE ~FastDue
    BY <2>2 DEF ScreenInvariant
  <2> QED
    BY <2>1, <2>2
<1> HIDE DEF fast
<1>6. CASE "state" \in dirty
  <2>1. /\ IsDisplay(display')
        /\ display'.shown
             = [fast.shown EXCEPT !.lit = Lit(data), !.rpm = data.rpm,
                                  !.number_max = data.max_rpm, !.gear = data.gear,
                                  !.lap = data.lap]
    BY <1>1, <1>3, <1>6, StateDrawn
  <2> QED
    BY <1>1, <1>2, <1>3, <1>4, <1>5, <2>1 DEF ScreenInvariant, IsDisplay, IsPicture
<1>7. CASE "state" \notin dirty
  BY <1>1, <1>2, <1>3, <1>4, <1>5, <1>7 DEF ScreenInvariant
<1> QED
  BY <1>6, <1>7

LEMMA ScreenPacket ==
    ASSUME ScreenInvariant, NEW packet, ParsePacket(packet), UNCHANGED drawVars
    PROVE  ScreenInvariant'
<1>1. display' = display
  BY DEF drawVars
<1>2. CASE FastPacket(packet)
  BY <1>1, <1>2 DEF FastPacket, ScreenInvariant, IsData
<1>3. CASE StatePacket(packet)
  BY <1>1, <1>3 DEF StatePacket, ScreenInvariant, IsData
<1>4. CASE UNCHANGED <<data, dirty>>
  BY <1>1, <1>4 DEF ScreenInvariant, Lit
<1> QED
  BY <1>2, <1>3, <1>4 DEF ParsePacket, packetVars

LEMMA ScreenStep == ScreenInvariant /\ [Next]_vars => ScreenInvariant'
<1> SUFFICES ASSUME ScreenInvariant, [Next]_vars PROVE ScreenInvariant'
  OBVIOUS
<1>1. CASE UNCHANGED <<data, dirty, display>>
  BY <1>1 DEF ScreenInvariant, Lit
<1>2. CASE ReceiveLineFeed
  <2>1. CASE UNCHANGED <<packetVars, dirty, silence>>
    BY <1>1, <1>2, <2>1 DEF ReceiveLineFeed, packetVars, drawVars
  <2>2. CASE ParsePacket(buffer)
    BY <1>2, <2>2, ScreenPacket DEF ReceiveLineFeed
  <2> QED
    BY <1>2, <2>1, <2>2 DEF ReceiveLineFeed
<1>3. CASE Refresh
  BY <1>3, ScreenRefresh
<1>4. ASSUME NEW line \in Lines, SendLine(line) PROVE ScreenInvariant'
  BY <1>1, <1>4 DEF SendLine, packetVars, drawVars
<1>5. CASE ReceiveField \/ ReceiveDone \/ TimePasses \/ UNCHANGED vars
  BY <1>1, <1>5 DEF ReceiveField, ReceiveDone, TimePasses, vars, packetVars, drawVars
<1> QED
  BY <1>2, <1>3, <1>4, <1>5 DEF Next

\* Once nothing waits to be drawn the screen shows the data, though every
\* field is drawn only when the sketch does not believe it there.
THEOREM ScreenCurrent == Spec => []ScreenIsCurrent
<1>1. ScreenInvariant => ScreenIsCurrent
  BY DEF ScreenInvariant, ScreenIsCurrent, IsDisplay, IsPicture, Picture
<1>2. Spec => []ScreenInvariant
  BY ScreenInit, ScreenStep, PTL DEF Spec
<1> QED
  BY <1>1, <1>2, PTL

=============================================================================
