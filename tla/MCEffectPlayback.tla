--------------------------- MODULE MCEffectPlayback ---------------------------
(* A small instance of EffectPlayback for TLC. *)
EXTENDS EffectPlayback

CONSTANT constant

OnePass == [type |-> constant, duration |-> 1, delay |-> 1]

\* A finite effect in the first slot.
OneDownload == {[i \in Slots |-> IF i = 1 THEN OnePass ELSE NoDefinition]}
=============================================================================
