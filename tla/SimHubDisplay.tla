---------------------------- MODULE SimHubDisplay -----------------------------
(***************************************************************************)
(* The dashboard sketch (simhub_tft.ino): one loop that takes what has     *)
(* arrived on the serial line, draws what has changed, and shows by a dot  *)
(* whether anybody is still sending.                                       *)
(*                                                                         *)
(* A line is a sequence of fields; the separators belong to the fields and *)
(* a CR, which is skipped, is left out.  A field that is a number is that  *)
(* number, and NotFinite stands for what strtof reads as infinite or NaN;  *)
(* any other value a conversion makes of a text is left out.  The buffer   *)
(* holds fields instead of characters.  Delta times are in the steps they  *)
(* are displayed in.  The clock wraps at Wrap, at 2^32 in the code.        *)
(***************************************************************************)
EXTENDS Integers, Sequences

CONSTANTS
    Lines,              \* the lines the host may send
    Fast, State,        \* the two packet types
    NotFinite,          \* a delta that is no number
    LineFeed,
    BufferSize,         \* RX_BUFFER_SIZE, in fields
    Interval,           \* FAST_DRAW_INTERVAL_MS
    Timeout,            \* milliseconds after which the dot turns red
    Segments,           \* RPM_SEGMENTS
    HighestRpm,         \* 50000
    HighestSpeed,       \* 999
    HighestDelta,       \* 999 seconds
    DefaultMaxRpm,      \* 8000
    Wrap,               \* the clock's modulus
    MaxLag              \* environment: milliseconds from one look at the
                        \* clock in the loop to the next

ASSUME SimHubAssumption ==
    /\ {BufferSize, Segments, HighestRpm, DefaultMaxRpm, Interval, Wrap}
         \subseteq Nat \ {0}
    /\ {Timeout, HighestSpeed, HighestDelta, MaxLag} \subseteq Nat
    /\ DefaultMaxRpm <= HighestRpm
    /\ Timeout + MaxLag < Wrap /\ Interval + MaxLag < Wrap

VARIABLES
    at,                 \* "receive" or "draw"
    incoming,           \* the rest of the line that is arriving
    buffer,             \* rxBuffer, up to rxLength
    data,               \* rpm, speedKmh, deltaSeconds, maxRpm, gear, lastLap
    dirty,              \* the flags fastDirty and stateDirty that are set
    display,            \* the screen, and the sketch's record of it
    connected,          \* serialConnected, and the colour of the dot
    last_packet,        \* lastPacketMs
    last_fast_draw,     \* lastFastDrawMs
    now,                \* millis()
    lag                 \* milliseconds since the loop last read the clock

VARIABLES
    oversized,          \* history: the line being received did not fit
    silence,            \* history: milliseconds since the last packet
    waiting,            \* history: milliseconds fast data has been waiting
    resting             \* history: milliseconds since fast data was drawn

lineVars == <<incoming, buffer, oversized>>
packetVars == <<data, connected, last_packet>>
drawVars == <<display, last_fast_draw, resting>>
clockVars == <<now, lag>>
vars == <<at, lineVars, packetVars, drawVars, clockVars, dirty, silence, waiting>>

Constrain(value, low, high) ==
    IF value < low THEN low ELSE IF value > high THEN high ELSE value

\* The data of the sketch before any packet.
NoData ==
    [rpm |-> 0, speed |-> 0, delta |-> 0, max_rpm |-> DefaultMaxRpm,
     gear |-> "N", lap |-> "--"]

\* What drawRpmBar makes of the data: a turning engine lights one at least.
Lit(d) ==
    LET lit == (Constrain(d.rpm, 0, d.max_rpm) * Segments) \div d.max_rpm
    IN  IF d.rpm > 0 /\ lit = 0 THEN 1 ELSE lit

\* The values on the screen for some data.
Picture(d) ==
    [rpm |-> d.rpm, number_max |-> d.max_rpm, lit |-> Lit(d), speed |-> d.speed,
     delta |-> d.delta, gear |-> d.gear, lap |-> d.lap]

\* After setup(), which draws everything; lastFastDrawMs is still 0.
Init ==
    /\ at = "receive"
    /\ incoming = <<>>
    /\ buffer = <<>>
    /\ data = NoData
    /\ dirty = {}
    /\ display = [shown |-> Picture(NoData), last |-> Picture(NoData)]
    /\ connected = FALSE
    /\ last_packet = 0
    /\ last_fast_draw = 0
    /\ now = 0
    /\ lag = 0
    /\ oversized = FALSE
    /\ silence = Timeout + MaxLag + 1
    /\ waiting = 0
    /\ resting = Interval

-----------------------------------------------------------------------------
(* receiveSerial and parsePacket.                                          *)

\* parseFastPacket: three fields at least, and a delta that is a number.
FastPacket(packet) ==
    /\ Len(packet) >= 4
    /\ packet[4] # NotFinite
    /\ data' = [data EXCEPT !.rpm = Constrain(packet[2], 0, HighestRpm),
                            !.speed = Constrain(packet[3], 0, HighestSpeed),
                            !.delta = Constrain(packet[4], -HighestDelta, HighestDelta)]
    /\ dirty' = dirty \cup {"fast"}

\* parseStatePacket: a maximum out of range leaves the old one.
StatePacket(packet) ==
    /\ Len(packet) >= 4
    /\ data' = [data EXCEPT !.gear = packet[2],
                            !.lap = packet[3],
                            !.max_rpm = IF packet[4] \in 1 .. HighestRpm
                                        THEN packet[4] ELSE @]
    /\ dirty' = dirty \cup {"state"}

\* A packet of a known type counts as a sign of life, though it be useless.
Heard ==
    /\ last_packet' = now
    /\ connected' = TRUE
    /\ silence' = 0

ParsePacket(packet) ==
    \/ packet[1] = Fast /\ FastPacket(packet) /\ Heard
    \/ packet[1] = State /\ StatePacket(packet) /\ Heard
    \/ /\ packet[1] \in {Fast, State}
       /\ Len(packet) < 4 \/ (packet[1] = Fast /\ packet[4] = NotFinite)
       /\ Heard
       /\ UNCHANGED <<data, dirty>>
    \/ packet[1] \notin {Fast, State} /\ UNCHANGED <<packetVars, dirty, silence>>

\* The host begins a line; it ends with a line feed.
SendLine(line) ==
    /\ at = "receive"
    /\ incoming = <<>>
    /\ incoming' = Append(line, LineFeed)
    /\ UNCHANGED <<at, buffer, oversized, packetVars, drawVars, clockVars, dirty,
                   silence, waiting>>

\* One field; one too many empties the buffer.
ReceiveField ==
    /\ at = "receive"
    /\ incoming # <<>> /\ Head(incoming) # LineFeed
    /\ incoming' = Tail(incoming)
    /\ IF Len(buffer) < BufferSize - 1
         THEN buffer' = Append(buffer, Head(incoming)) /\ UNCHANGED oversized
         ELSE buffer' = <<>> /\ oversized' = TRUE
    /\ UNCHANGED <<at, packetVars, drawVars, clockVars, dirty, silence, waiting>>

ReceiveLineFeed ==
    /\ at = "receive"
    /\ incoming # <<>> /\ Head(incoming) = LineFeed
    /\ incoming' = Tail(incoming)
    /\ IF buffer = <<>> THEN UNCHANGED <<packetVars, dirty, silence>>
                        ELSE ParsePacket(buffer)
    /\ buffer' = <<>>
    /\ oversized' = FALSE
    /\ UNCHANGED <<at, drawVars, clockVars, waiting>>

\* Nothing more is available for the moment.
ReceiveDone ==
    /\ at = "receive"
    /\ at' = "draw"
    /\ UNCHANGED <<lineVars, packetVars, drawVars, clockVars, dirty, silence, waiting>>

-----------------------------------------------------------------------------
(* The rest of loop().                                                     *)

\* A field of the display is drawn when it is not what was drawn last.
DrawField(d, field) ==
    IF data[field] = d.last[field] THEN d
    ELSE [d EXCEPT !.last[field] = data[field], !.shown[field] = data[field]]

\* Mutant: the bar takes note of the maximum, too, before the number does.
DrawRpmBarTakingMax(d) ==
    IF Lit(data) = d.last.lit /\ data.max_rpm = d.last.number_max THEN d
    ELSE [d EXCEPT !.last.lit = Lit(data), !.last.number_max = data.max_rpm,
                   !.shown.lit = Lit(data)]

DrawRpmBar(d) ==
    IF Lit(data) = d.last.lit /\ data.max_rpm = d.last.number_max THEN d
    ELSE [d EXCEPT !.last.lit = Lit(data), !.shown.lit = Lit(data)]

DrawRpmNumber(d) ==
    IF data.rpm = d.last.rpm /\ data.max_rpm = d.last.number_max THEN d
    ELSE [d EXCEPT !.last.rpm = data.rpm, !.last.number_max = data.max_rpm,
                   !.shown.rpm = data.rpm, !.shown.number_max = data.max_rpm]

RenderFastData(d) ==
    DrawField(DrawField(DrawRpmNumber(DrawRpmBar(d)), "speed"), "delta")

RenderStateData(d) ==
    DrawRpmNumber(DrawRpmBar(DrawField(DrawField(d, "gear"), "lap")))

Elapsed(since) == (now - since) % Wrap

\* Mutant: the next drawing time is computed ahead and compared.
FastDueAhead == "fast" \in dirty /\ now >= last_fast_draw + Interval

FastDue == "fast" \in dirty /\ Elapsed(last_fast_draw) >= Interval

\* Mutant: the dot is looked after only when nothing is drawn.
ExpiredWhenIdle == dirty = {} /\ connected /\ Elapsed(last_packet) > Timeout

Expired == connected /\ Elapsed(last_packet) > Timeout

\* Mutant: drawings are kept to a fixed grid of intervals.
LastFastDrawOnGrid ==
    IF FastDue THEN (last_fast_draw + Interval) % Wrap ELSE last_fast_draw

LastFastDrawAfter == IF FastDue THEN now ELSE last_fast_draw

\* The loop reads the clock, draws, and checks for silence.
Refresh ==
    LET fast == IF FastDue THEN RenderFastData(display) ELSE display
    IN  /\ at = "draw"
        /\ display' = IF "state" \in dirty THEN RenderStateData(fast) ELSE fast
        /\ dirty' = IF FastDue THEN {} ELSE dirty \ {"state"}
        /\ last_fast_draw' = LastFastDrawAfter
        /\ resting' = IF FastDue THEN 0 ELSE resting
        /\ waiting' = IF FastDue THEN 0 ELSE waiting
        /\ connected' = (connected /\ ~Expired)
        /\ lag' = 0
        /\ at' = "receive"
        /\ UNCHANGED <<lineVars, data, last_packet, now, silence>>

\* Drawing takes time, and so does receiving.
TimePasses ==
    /\ lag < MaxLag
    /\ lag' = lag + 1
    /\ now' = (now + 1) % Wrap
    /\ silence' = Constrain(silence + 1, 0, Timeout + MaxLag + 1)
    /\ waiting' = IF "fast" \in dirty THEN waiting + 1 ELSE 0
    /\ resting' = Constrain(resting + 1, 0, Interval)
    /\ UNCHANGED <<at, lineVars, packetVars, display, last_fast_draw, dirty>>

Next ==
    \/ \E line \in Lines : SendLine(line)
    \/ ReceiveField
    \/ ReceiveLineFeed
    \/ ReceiveDone
    \/ Refresh
    \/ TimePasses

Spec == Init /\ [][Next]_vars

-----------------------------------------------------------------------------

\* A green dot means a packet within the timeout and one pass of the loop; a
\* red one, that there was none for the timeout: whatever the clock did.
DotIsTrue ==
    /\ connected => silence <= Timeout + MaxLag
    /\ ~connected => silence > Timeout

\* Fast data that was accepted is on the screen after the interval and a pass
\* of the loop.  A second pass may be lost after a full turn of the clock since
\* the last drawing, when that seems to be just over.
ShownInTime == waiting <= Interval + 2 * MaxLag

\* The screen shows the last packets once nothing waits to be drawn: the
\* number, the bar and the fields, though every one is skipped when the
\* sketch thinks it is there already, and two pairs share a note of that.
ScreenIsCurrent == dirty = {} => display.shown = Picture(data)

\* README "coalesced to roughly 30 FPS": fast data is not drawn again before
\* the interval is over.  That is renderFastData; renderStateData draws the
\* rpm too, whenever a state packet came, at no pace.
FastPaced == []["fast" \in dirty /\ "fast" \notin dirty' => resting >= Interval]_vars

\* simhub_tft.ino:247 "Drop an oversized/corrupt packet and resynchronize at
\* the next LF": no packet is taken out of a line that did not fit.
ResynchronizesAtLineFeed == [][oversized /\ ReceiveLineFeed => UNCHANGED packetVars]_vars

=============================================================================
