---------------------------- MODULE BoundedFifo ------------------------------
(***************************************************************************)
(* What a queue between two tasks promises: every accepted value is        *)
(* received once, whole and in order, and a push is turned down only       *)
(* because the queue is full at that moment.                               *)
(***************************************************************************)
EXTENDS Sequences, Naturals

CONSTANTS Values, Size, Nothing

VARIABLES
    queue,      \* accepted values not yet received
    answer,     \* what the last push returned
    received    \* what the last pop returned, Nothing when it found none

Init == queue = <<>> /\ answer = TRUE /\ received = Nothing

Accept(v) ==
    /\ Len(queue) < Size
    /\ queue' = Append(queue, v)
    /\ answer' = TRUE
    /\ UNCHANGED received

TurnDown ==
    /\ Len(queue) = Size
    /\ answer' = FALSE
    /\ UNCHANGED <<queue, received>>

Receive ==
    /\ queue # <<>>
    /\ received' = Head(queue)
    /\ queue' = Tail(queue)
    /\ UNCHANGED answer

FindNone ==
    /\ queue = <<>>
    /\ received' = Nothing
    /\ UNCHANGED <<queue, answer>>

Next == (\E v \in Values : Accept(v)) \/ TurnDown \/ Receive \/ FindNone

Spec == Init /\ [][Next]_<<queue, answer, received>>

=============================================================================
