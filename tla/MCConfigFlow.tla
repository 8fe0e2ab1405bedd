---------------------------- MODULE MCConfigFlow -----------------------------
(* A small instance of ConfigFlow for TLC. *)
EXTENDS ConfigFlow

CONSTANTS l1, a1

Factory == [limits |-> l1, zero |-> a1]
=============================================================================
