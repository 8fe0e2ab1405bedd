----------------------------- MODULE MCBothBuilds -----------------------------
(* A small instance of BothBuilds for TLC, with the constants of MCControlCore. *)
EXTENDS BothBuilds, MCControlCore
=============================================================================
