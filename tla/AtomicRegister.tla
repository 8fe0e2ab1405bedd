--------------------------- MODULE AtomicRegister ----------------------------
(***************************************************************************)
(* A record written as a whole and read as a whole: what a reader sees is  *)
(* what was last written when it saw it.  Which records are written is the *)
(* writer's affair.                                                        *)
(***************************************************************************)

CONSTANT First  \* the record before anything is written

VARIABLES
    value,      \* the record last written
    seen        \* the record the reader saw last

Init == value = First /\ seen = First

Write == value' # value /\ UNCHANGED seen

Read == seen' = value /\ UNCHANGED value

Next == Write \/ Read

Spec == Init /\ [][Next]_<<value, seen>>

=============================================================================
