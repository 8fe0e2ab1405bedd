--------------------------- MODULE MCSimHubDisplay ----------------------------
(* Small instances of SimHubDisplay for TLC. *)
EXTENDS SimHubDisplay

CONSTANTS F, S, X, nan

\* Fast packets, good, out of range and without a delta; state packets with a
\* new, a refused and no maximum; another type; one
\* that does not fit.
EveryKindOfLine ==
    {<<F, 1, 0, 1>>, <<F, 9, 2, 0>>, <<F, 3, 1, nan>>,
     <<S, "1", "a", 2>>, <<S, "1", "b", 0>>, <<S, "2", "a">>, <<X, 1>>,
     <<X, 1, 1, 1, 1, 1, 1>>}

\* A line two fields too long, which end like a packet of their own.
OversizedLine == {<<X, 1, 1, 1, 1, 1, F, 1, 1, 1>>, <<F, 1, 0, 1>>}
=============================================================================
