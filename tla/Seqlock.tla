------------------------------ MODULE Seqlock --------------------------------
(***************************************************************************)
(* The two sequence locks of RuntimeShared: publish_configuration with     *)
(* configuration_snapshot, and publish with snapshot.  The control task    *)
(* publishes a record field by field between two increments of a sequence  *)
(* number; another task copies the fields and tries again unless the       *)
(* number was even and is still the same.                                  *)
(*                                                                         *)
(* A record is the version it belongs to, so a copy is torn when its       *)
(* fields hold different versions.  Every atomic access is a step, in      *)
(* program order: the loads are relaxed, but neither the compiler nor the  *)
(* in-order cores of the ESP32-S3 move one across the acquire load after   *)
(* it.  The 32-bit number does not wrap here: a reader would have to be    *)
(* held up for exactly a multiple of 2^31 publications.                    *)
(*                                                                         *)
(* Tasks are scheduled by priority.  The control task is pinned to core 1  *)
(* with the second highest; snapshots are also taken in callbacks of the   *)
(* TinyUSB task, which Arduino-ESP32 (external) creates with the highest   *)
(* and pins to no core.  `reader` is a snapshot that runs beside the       *)
(* writer, in any task; `callback` is one that has taken the core from the *)
(* writer, which does not go on before it returns.                         *)
(***************************************************************************)
EXTENDS Naturals

CONSTANTS
    FieldCount,         \* atomics per record
    MaxPublications     \* bound: versions published

ASSUME SeqlockAssumption == FieldCount \in Nat \ {0} /\ MaxPublications \in Nat

VARIABLES
    sequence,   \* config_sequence, telemetry_sequence
    fields,     \* the record's atomics
    writer,     \* [at, next]: the field publish stores next
    reader,     \* [at, before, next, copy]: a snapshot under way
    callback,   \* a snapshot is under way on the writer's core, above it
    published,  \* history: the version last published to the end
    returned    \* the version of each field in the last snapshot returned

seqlockVars == <<sequence, fields, writer, reader, callback, published, returned>>

Fields == 1 .. FieldCount
Record(version) == [f \in Fields |-> version]
Even(n) == n % 2 = 0

SeqlockTypeOK ==
    /\ sequence \in Nat
    /\ fields \in [Fields -> Nat]
    /\ writer \in [at : {"idle", "store"}, next : 1 .. FieldCount + 1]
    /\ reader \in [at : {"idle", "load", "copy"}, before : Nat,
                   next : 1 .. FieldCount + 1, copy : [Fields -> Nat]]
    /\ callback \in BOOLEAN
    /\ published \in Nat
    /\ returned \in [Fields -> Nat]

SeqlockInit ==
    /\ sequence = 0
    /\ fields = Record(0)
    /\ writer = [at |-> "idle", next |-> 1]
    /\ reader = [at |-> "idle", before |-> 0, next |-> 1, copy |-> Record(0)]
    /\ callback = FALSE
    /\ published = 0
    /\ returned = Record(0)

-----------------------------------------------------------------------------
(* publish                                                                 *)

BeginPublish ==
    /\ ~callback
    /\ writer.at = "idle"
    /\ published < MaxPublications
    /\ sequence' = sequence + 1
    /\ writer' = [at |-> "store", next |-> 1]
    /\ UNCHANGED <<fields, reader, callback, published, returned>>

StoreField ==
    /\ ~callback
    /\ writer.at = "store"
    /\ writer.next <= FieldCount
    /\ fields' = [fields EXCEPT ![writer.next] = published + 1]
    /\ writer' = [writer EXCEPT !.next = writer.next + 1]
    /\ UNCHANGED <<sequence, reader, callback, published, returned>>

\* Mutant: the number is left odd.
EndPublishOdd ==
    /\ ~callback
    /\ writer.at = "store"
    /\ writer.next > FieldCount
    /\ published' = published + 1
    /\ writer' = [at |-> "idle", next |-> 1]
    /\ UNCHANGED <<sequence, fields, reader, callback, returned>>

EndPublish ==
    /\ ~callback
    /\ writer.at = "store"
    /\ writer.next > FieldCount
    /\ sequence' = sequence + 1
    /\ published' = published + 1
    /\ writer' = [at |-> "idle", next |-> 1]
    /\ UNCHANGED <<fields, reader, callback, returned>>

-----------------------------------------------------------------------------
(* snapshot                                                                *)

BeginSnapshot ==
    /\ reader.at = "idle"
    /\ reader' = [reader EXCEPT !.at = "load"]
    /\ UNCHANGED <<sequence, fields, writer, callback, published, returned>>

\* An odd number is loaded again.
LoadBefore ==
    /\ reader.at = "load"
    /\ Even(sequence)
    /\ reader' = [reader EXCEPT !.at = "copy", !.before = sequence, !.next = 1]
    /\ UNCHANGED <<sequence, fields, writer, callback, published, returned>>

CopyField ==
    /\ reader.at = "copy"
    /\ reader.next <= FieldCount
    /\ reader' = [reader EXCEPT !.copy[reader.next] = fields[reader.next],
                                !.next = reader.next + 1]
    /\ UNCHANGED <<sequence, fields, writer, callback, published, returned>>

\* Mutant: an even number is taken for an unchanged one.
CheckAfterEven ==
    /\ reader.at = "copy"
    /\ reader.next > FieldCount
    /\ IF Even(sequence)
         THEN /\ returned' = reader.copy
              /\ reader' = [reader EXCEPT !.at = "idle"]
         ELSE /\ reader' = [reader EXCEPT !.at = "load"]
              /\ UNCHANGED returned
    /\ UNCHANGED <<sequence, fields, writer, callback, published>>

CheckAfter ==
    /\ reader.at = "copy"
    /\ reader.next > FieldCount
    /\ IF reader.before = sequence
         THEN /\ returned' = reader.copy
              /\ reader' = [reader EXCEPT !.at = "idle"]
         ELSE /\ reader' = [reader EXCEPT !.at = "load"]
              /\ UNCHANGED returned
    /\ UNCHANGED <<sequence, fields, writer, callback, published>>

\* A report handler of the TinyUSB task preempts the control task, in the
\* middle of a publication or between two.
BeginCallback ==
    /\ ~callback
    /\ callback' = TRUE
    /\ UNCHANGED <<sequence, fields, writer, reader, published, returned>>

\* Its snapshot is alone with the record: the first attempt succeeds, unless
\* the number is odd, and then it is odd at every attempt.
FinishCallback ==
    /\ callback
    /\ Even(sequence)
    /\ callback' = FALSE
    /\ returned' = fields
    /\ UNCHANGED <<sequence, fields, writer, reader, published>>

-----------------------------------------------------------------------------

WriterStep == StoreField \/ EndPublish
ReaderStep == LoadBefore \/ CopyField \/ CheckAfter

SeqlockNext ==
    \/ BeginPublish \/ WriterStep
    \/ BeginSnapshot \/ ReaderStep
    \/ BeginCallback \/ FinishCallback

SeqlockSpec == SeqlockInit /\ [][SeqlockNext]_seqlockVars

\* A task inside publish or snapshot gets to run as long as nothing has taken
\* its core from it, as a callback does from the writer: WriterStep waits for
\* the callback, so its fairness promises nothing meanwhile.  Nobody has to
\* call publish or snapshot.
SeqlockLiveSpec ==
    /\ SeqlockSpec
    /\ WF_seqlockVars(WriterStep)
    /\ WF_seqlockVars(ReaderStep)
    /\ WF_seqlockVars(FinishCallback)

-----------------------------------------------------------------------------

\* The number is even exactly between publications, when the fields hold the
\* last version; during one they hold the next version up to the field being
\* stored.  What a reader copied is that version unless its number is stale.
SeqlockInvariant ==
    /\ Even(sequence) <=> writer.at = "idle"
    /\ \A f \in Fields :
          fields[f] = IF writer.at = "store" /\ f < writer.next
                      THEN published + 1 ELSE published
    /\ reader.at = "copy" =>
          /\ Even(reader.before)
          /\ reader.before <= sequence
          /\ reader.before = sequence =>
                \A f \in Fields : f < reader.next => reader.copy[f] = published

Register == INSTANCE AtomicRegister WITH
    First <- Record(0), value <- Record(published), seen <- returned

\* A snapshot that returns is one version, whole.
SnapshotWhole == \A f \in Fields : returned[f] = returned[1]

\* A snapshot is the whole record that was current when it returned: neither
\* a mixture nor a stale one, however often publish overtook the copying.
ImplementsRegister == Register!Spec

\* A callback found the number odd and keeps the writer from making it even.
Interrupted == callback /\ writer.at = "store"

\* snapshot() and configuration_snapshot() retry without a bound, yet return
\* once publications pause, on whichever core and at whichever moment of a
\* publication they are called.  One moment is excepted, and no other: a
\* callback that preempts the control task between the two increments waits
\* for it, and it for the callback, for good, and so does every snapshot.
SnapshotReturns ==
    /\ reader.at # "idle" ~> (reader.at = "idle" \/ Interrupted)
    /\ callback ~> (~callback \/ Interrupted)

=============================================================================
