----------------------------- MODULE SpscQueue -------------------------------
(***************************************************************************)
(* wheel::SpscQueue, the lock-free ring between one producer task and one  *)
(* consumer task on two cores.                                             *)
(*                                                                         *)
(* Each load or store of head_ and tail_ is a step.  An entry is larger    *)
(* than a word, so copying one takes two steps in either task, one per     *)
(* half; a value is whole when its halves agree.  The release stores and   *)
(* acquire loads of head_ and tail_ order the copies with respect to the   *)
(* indices, which is what interleaving the steps in program order assumes. *)
(***************************************************************************)
EXTENDS Naturals, Sequences

CONSTANTS
    Capacity,   \* entries of the array, one of which stays unused
    Values,     \* the values pushed
    Nothing     \* pop found the queue empty

ASSUME SpscAssumption ==
    /\ Capacity \in Nat \ {0, 1}
    /\ Nothing \notin Values

VARIABLES
    entries,    \* per index the two halves of an entry
    head,       \* next index to write
    tail,       \* next index to read
    producer,   \* [at, index, value]: push's place, its local head and argument
    consumer,   \* [at, index, copy]: pop's place, its local tail and result
    answer,     \* what the last push returned
    received    \* what the last pop returned

queueVars == <<entries, head, tail, producer, consumer, answer, received>>

Indices == 0 .. Capacity - 1

Increment(i) == IF i + 1 = Capacity THEN 0 ELSE i + 1

ProducerPoints == {"idle", "write", "writing", "publish"}
ConsumerPoints == {"idle", "read", "reading", "release"}
Halves == Values \cup {Nothing}
NoEntry == <<Nothing, Nothing>>

QueueTypeOK ==
    /\ entries \in [Indices -> Halves \X Halves]
    /\ head \in Indices
    /\ tail \in Indices
    /\ producer \in [at : ProducerPoints, index : Indices, value : Halves]
    /\ consumer \in [at : ConsumerPoints, index : Indices, copy : Halves \X Halves]
    /\ answer \in BOOLEAN
    /\ received \in Halves \X Halves

QueueInit ==
    /\ entries = [i \in Indices |-> NoEntry]
    /\ head = 0
    /\ tail = 0
    /\ producer = [at |-> "idle", index |-> 0, value |-> Nothing]
    /\ consumer = [at |-> "idle", index |-> 0, copy |-> NoEntry]
    /\ answer = TRUE
    /\ received = NoEntry

-----------------------------------------------------------------------------
(* push *)

Full == Increment(head) = tail

\* Mutant: the entry is published before it is written.
PushCheckPublishing(v) ==
    /\ producer.at = "idle"
    /\ IF Full
         THEN answer' = FALSE /\ UNCHANGED <<producer, head>>
         ELSE /\ producer' = [at |-> "write", index |-> head, value |-> v]
              /\ head' = Increment(head)
              /\ UNCHANGED answer
    /\ UNCHANGED <<entries, tail, consumer, received>>

PushCheck(v) ==
    /\ producer.at = "idle"
    /\ IF Full
         THEN answer' = FALSE /\ UNCHANGED producer
         ELSE producer' = [at |-> "write", index |-> head, value |-> v] /\ UNCHANGED answer
    /\ UNCHANGED <<entries, head, tail, consumer, received>>

WriteFirstHalf ==
    /\ producer.at = "write"
    /\ entries' = [entries EXCEPT ![producer.index][1] = producer.value]
    /\ producer' = [producer EXCEPT !.at = "writing"]
    /\ UNCHANGED <<head, tail, consumer, answer, received>>

WriteSecondHalf ==
    /\ producer.at = "writing"
    /\ entries' = [entries EXCEPT ![producer.index][2] = producer.value]
    /\ producer' = [producer EXCEPT !.at = "publish"]
    /\ UNCHANGED <<head, tail, consumer, answer, received>>

Publish ==
    /\ producer.at = "publish"
    /\ head' = Increment(producer.index)
    /\ producer' = [producer EXCEPT !.at = "idle"]
    /\ answer' = TRUE
    /\ UNCHANGED <<entries, tail, consumer, received>>

-----------------------------------------------------------------------------
(* pop *)

\* Mutant: a single entry is left alone.
PopCheckLast ==
    /\ consumer.at = "idle"
    /\ IF tail = head \/ Increment(tail) = head
         THEN received' = NoEntry /\ UNCHANGED consumer
         ELSE /\ consumer' = [consumer EXCEPT !.at = "read", !.index = tail]
              /\ UNCHANGED received
    /\ UNCHANGED <<entries, head, tail, producer, answer>>

\* Mutant: the consumer waits for the producer, as a lock around both would have it.
PopCheckLocked ==
    /\ consumer.at = "idle"
    /\ producer.at = "idle"
    /\ IF tail = head
         THEN received' = NoEntry /\ UNCHANGED consumer
         ELSE /\ consumer' = [consumer EXCEPT !.at = "read", !.index = tail]
              /\ UNCHANGED received
    /\ UNCHANGED <<entries, head, tail, producer, answer>>

PopCheck ==
    /\ consumer.at = "idle"
    /\ IF tail = head
         THEN received' = NoEntry /\ UNCHANGED consumer
         ELSE /\ consumer' = [consumer EXCEPT !.at = "read", !.index = tail]
              /\ UNCHANGED received
    /\ UNCHANGED <<entries, head, tail, producer, answer>>

ReadFirstHalf ==
    /\ consumer.at = "read"
    /\ consumer' = [consumer EXCEPT !.at = "reading", !.copy[1] = entries[consumer.index][1]]
    /\ UNCHANGED <<entries, head, tail, producer, answer, received>>

ReadSecondHalf ==
    /\ consumer.at = "reading"
    /\ consumer' = [consumer EXCEPT !.at = "release", !.copy[2] = entries[consumer.index][2]]
    /\ UNCHANGED <<entries, head, tail, producer, answer, received>>

Release ==
    /\ consumer.at = "release"
    /\ tail' = Increment(consumer.index)
    /\ received' = consumer.copy
    /\ consumer' = [consumer EXCEPT !.at = "idle"]
    /\ UNCHANGED <<entries, head, producer, answer>>

-----------------------------------------------------------------------------

PushStep == WriteFirstHalf \/ WriteSecondHalf \/ Publish
PopStep == PopCheck \/ ReadFirstHalf \/ ReadSecondHalf \/ Release

QueueNext == (\E v \in Values : PushCheck(v)) \/ PushStep \/ PopStep

QueueSpec == QueueInit /\ [][QueueNext]_queueVars

\* A task that entered push or pop leaves it; the consumer polls.
QueueLiveSpec == QueueSpec /\ WF_queueVars(PushStep) /\ WF_queueVars(PopStep)

-----------------------------------------------------------------------------

Writing == producer.at # "idle"
Reading == consumer.at # "idle"

\* Between(i): entry i is queued.
Between(i) == IF tail <= head THEN tail <= i /\ i < head ELSE tail <= i \/ i < head
Distance == IF head >= tail THEN head - tail ELSE head + Capacity - tail

\* A producer at work has room beyond head_, a consumer at work has an entry
\* at tail_: the two never have the same entry in their hands.  What is
\* queued is whole, and what either copied so far is what it should be.
RingInvariant ==
    /\ \A i \in Indices :
          Between(i) => entries[i][1] = entries[i][2] /\ entries[i][1] \in Values
    /\ Writing => producer.index = head /\ ~Full /\ producer.value \in Values
    /\ Reading => consumer.index = tail /\ head # tail
    /\ producer.at \in {"writing", "publish"} => entries[head][1] = producer.value
    /\ producer.at = "publish" => entries[head][2] = producer.value
    /\ consumer.at \in {"reading", "release"} => consumer.copy[1] = entries[tail][1]
    /\ consumer.at = "release" => consumer.copy[2] = entries[tail][2]

\* pop never returns an entry half overwritten.
ReceivedWhole == received[1] = received[2]

\* Where the k-th queued entry is, and all of them.
Position(k) == IF tail + k - 1 < Capacity THEN tail + k - 1 ELSE tail + k - 1 - Capacity
Queued == [k \in 1 .. Distance |-> entries[Position(k)]]

\* The entries a push writes.
WholeEntries == {<<v, v>> : v \in Values}

Fifo == INSTANCE BoundedFifo WITH
    Values <- WholeEntries, Size <- Capacity - 1, Nothing <- NoEntry, queue <- Queued

\* push and pop take effect at once when they store head_ and tail_, and a
\* refusal or an empty answer when they load the other task's index.  A value
\* the queue accepts is whole, so pop never returns one half overwritten.
ImplementsFifo == Fifo!Spec

\* A pop never waits for the producer: while something is queued it can be
\* begun, and gone on with.
PopCanRun == head # tail => ENABLED <<PopStep>>_queueVars

\* A consumer that keeps polling gets what was pushed.
EntryIsReceived == \A i \in Indices : (tail = i /\ head # tail) ~> (tail # i)

=============================================================================
