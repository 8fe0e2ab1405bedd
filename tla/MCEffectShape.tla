---------------------------- MODULE MCEffectShape -----------------------------
(* A small instance of EffectShape for TLC: every type of effect, with      *)
(* envelopes that overlap, extreme parameters and odd periods.             *)
EXTENDS EffectShape

Envelope(level, attack, fade) ==
    [attack_level |-> level, fade_level |-> level, attack_ms |-> attack, fade_ms |-> fade]
NoEnvelope == Envelope(One, 0, 0)
Envelopes == {NoEnvelope, Envelope(0, 3, 0), Envelope(2, 4, 6), Envelope(0, 2, 3)}

NoCondition ==
    [center |-> 0, positive_coefficient |-> 0, negative_coefficient |-> 0,
     positive_saturation |-> One, negative_saturation |-> One, dead_band |-> 0]
ShapedConditions ==
    {[NoCondition EXCEPT !.positive_coefficient = p, !.negative_coefficient = n,
                         !.negative_saturation = s, !.center = c, !.dead_band = 1] :
        p \in {One, -4}, n \in {3, -One - 1}, s \in {0, 2, One}, c \in {0, 3, -One - 1}}

Plain(type) ==
    [type |-> type, duration |-> Endless, direction |-> One, gain |-> One,
     envelope |-> NoEnvelope, condition |-> NoCondition, magnitude |-> 5, offset |-> 0,
     phase |-> 0, period |-> 4, ramp_start |-> 0, ramp_end |-> 0]

Constants ==
    {[Plain("constant") EXCEPT !.magnitude = m, !.duration = d, !.envelope = e, !.gain = g,
                               !.direction = r] :
        m \in {4, -One - 1}, d \in {0, 5, Endless}, e \in Envelopes, g \in {3, One},
        r \in {-5, One}}
Ramps ==
    {[Plain("ramp") EXCEPT !.ramp_start = a, !.ramp_end = b, !.duration = d, !.gain = g,
                           !.direction = r] :
        a \in {-One - 1, 0, 6}, b \in {-3, One}, d \in {0, 3, 5, Endless}, g \in {4, One},
        r \in {-One, 5}}
Waves ==
    {[Plain(type) EXCEPT !.offset = o, !.phase = p, !.period = t, !.duration = d] :
        type \in Periodic, o \in {-One, 0, 4}, p \in {0, 3, 10}, t \in {0, 1, 3, 4, 6},
        d \in {5, Endless}}
Reactions ==
    {[Plain(type) EXCEPT !.condition = c] : type \in Conditional, c \in ShapedConditions}

EveryEffect == Constants \cup Ramps \cup Waves \cup Reactions
SomeMotions == {-One, -4, 0, 2, One}
Sevenths == <<0, 3, 5, 6, 7>>
QuarterOfSeven == [i \in 0 .. 4 |-> Sevenths[i + 1]]
=============================================================================
