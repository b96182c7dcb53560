--------------------------- MODULE TelemetryStore ---------------------------
(***************************************************************************)
(* Where a telemetry sample is stored.  A local deployment has the         *)
(* telemetry service's write-behind buffer                                 *)
(* (telemetry-writer.service.ts); in the cloud that writer is off and a    *)
(* queue feeds the telemetry-ingest function (infra/lambda), which reports *)
(* the records it failed on.  Samples are all different; columns and       *)
(* credentials are left out.                                               *)
(*                                                                         *)
(* External: the IoT rule, Postgres, and the queue: a standard one, which  *)
(* hands out a record again until it was received MAX_RECEIVE times, may   *)
(* hand out one that was deleted, and drops what it has kept for an hour.  *)
(***************************************************************************)
EXTENDS Naturals, FiniteSetsExt

CONSTANTS
    Sample,
    Malformed,     \* samples without a required field, or no JSON at all
    Mistyped,      \* samples with a value the table does not take
    THRESHOLD,     \* FLUSH_THRESHOLD
    MAX_RECEIVE,   \* maxReceiveCount
    MaxAgain       \* bound: invocations that die, and deliveries too many

ASSUME StoreAssumption ==
    /\ Malformed \subseteq Sample /\ Mistyped \subseteq Sample
    /\ THRESHOLD \in Nat \ {0} /\ MAX_RECEIVE \in Nat \ {0} /\ MaxAgain \in Nat

VARIABLES
    persist,    \* TELEMETRY_PERSIST, the deployment
    sent,       \* samples published so far
    ready,      \* the writer's table is confirmed
    buffer,     \* buffer
    batches,    \* batches of flush that wait for their insert
    place,      \* per sample, in the cloud: none, queue, taken, done, dlq, expired
    receives,   \* per sample: times it was received
    invoked,    \* batches of the invocations under way
    rows,       \* per sample: its rows
    outage,     \* history: an insert has failed
    refused,    \* history: samples of inserts that a value was refused in
    again       \* history: invocations that died, and deliveries too many

writerVars == <<ready, buffer, batches>>
queueVars == <<place, receives, invoked>>
storeVars == <<persist, sent, writerVars, queueVars, rows, outage, refused, again>>

StoreInit ==
    /\ persist \in BOOLEAN /\ sent = {}
    /\ ready = FALSE /\ buffer = {} /\ batches = {}
    /\ place = [s \in Sample |-> "none"] /\ receives = [s \in Sample |-> 0]
    /\ invoked = {} /\ rows = [s \in Sample |-> 0]
    /\ outage = FALSE /\ refused = {} /\ again = 0

AddRows(B) == rows' = [s \in Sample |-> rows[s] + (IF s \in B THEN 1 ELSE 0)]

-----------------------------------------------------------------------------
(* The writer of the telemetry service *)

\* Mutant: the buffer is emptied when the insert has succeeded.
FlushKeeping(b) == batches' = batches \cup {b} /\ buffer' = b

\* flush up to its await, with samples b in the buffer.
Flush(b) == batches' = batches \cup {b} /\ buffer' = {}

\* enqueue, of a sample that passed the schema.
Enqueue(s) ==
    IF ~persist \/ ~ready \/ s \in Malformed \cup Mistyped
    THEN UNCHANGED <<buffer, batches>>
    ELSE IF Cardinality(buffer) + 1 >= THRESHOLD THEN Flush(buffer \cup {s})
    ELSE buffer' = buffer \cup {s} /\ UNCHANGED batches

\* A sample is published: the service gets it, and so does the rule's queue.
Publish(s) ==
    /\ s \notin sent /\ sent' = sent \cup {s}
    /\ Enqueue(s)
    /\ place' = IF persist THEN place ELSE [place EXCEPT ![s] = "queue"]
    /\ UNCHANGED <<persist, ready, receives, invoked, rows, outage, refused, again>>

TryEnsureSchema ==
    /\ persist /\ ~ready /\ ready' = TRUE
    /\ UNCHANGED <<persist, sent, buffer, batches, queueVars, rows, outage, refused, again>>

FlushTimer ==
    /\ buffer # {} /\ Flush(buffer)
    /\ UNCHANGED <<persist, sent, ready, queueVars, rows, outage, refused, again>>

\* The batched insert succeeds, or fails and is logged.
FlushInsert(b) ==
    /\ batches' = batches \ {b}
    /\ \/ AddRows(b) /\ UNCHANGED outage
       \/ outage' = TRUE /\ UNCHANGED rows
    /\ UNCHANGED <<persist, sent, ready, buffer, queueVars, refused, again>>

\* The service goes down; its inserts may have reached the database.  The
\* flush of an orderly shutdown is a FlushTimer before it.
WriterRestart ==
    /\ persist /\ ready' = FALSE /\ buffer' = {} /\ batches' = {}
    /\ \E done \in SUBSET batches : AddRows(UNION done)
    /\ UNCHANGED <<persist, sent, queueVars, outage, refused, again>>

-----------------------------------------------------------------------------
(* The ingest function *)

\* Records F of the batch B come back, or are given up; the others are deleted.
Return(B, F) ==
    /\ place' = [s \in Sample |->
                   IF s \notin B THEN place[s]
                   ELSE IF s \notin F THEN "done"
                   ELSE IF receives[s] >= MAX_RECEIVE THEN "dlq" ELSE "queue"]
    /\ invoked' = invoked \ {B}
    /\ UNCHANGED receives

Invoke(B) ==
    /\ B # {} /\ \A s \in B : place[s] = "queue"
    /\ place' = [s \in Sample |-> IF s \in B THEN "taken" ELSE place[s]]
    /\ receives' = [s \in Sample |-> receives[s] + (IF s \in B THEN 1 ELSE 0)]
    /\ invoked' = invoked \cup {B}
    /\ UNCHANGED <<persist, sent, writerVars, rows, outage, refused, again>>

\* Mutant: a record that toRow throws on fails the invocation.
NoRowsOfBadBatch(B) == IF B \cap Malformed = {} THEN B ELSE {}

\* toRow: the records of B that make a row.
Rows(B) == B \ Malformed

\* batchItemFailures.
Failures(B, inserted) == IF inserted THEN B \ Rows(B) ELSE B

\* handler: one insert for all the rows, which one bad value refuses.
Handle(B) ==
    \E inserted \in BOOLEAN :
        /\ inserted => Rows(B) \cap Mistyped = {}
        /\ IF inserted THEN AddRows(Rows(B)) ELSE UNCHANGED rows
        /\ outage' = (outage \/ (~inserted /\ Rows(B) # {} /\ Rows(B) \cap Mistyped = {}))
        /\ refused' = IF ~inserted /\ Rows(B) \cap Mistyped # {}
                      THEN refused \cup Rows(B) ELSE refused
        /\ Return(B, Failures(B, inserted))
        /\ UNCHANGED <<persist, sent, writerVars, again>>

\* The invocation times out or crashes, before or after its insert, or loses
\* the connection before it hears of it: every record comes back.
Die(B) ==
    /\ again < MaxAgain /\ again' = again + 1
    /\ \/ UNCHANGED rows
       \/ Rows(B) \cap Mistyped = {} /\ AddRows(Rows(B))
    /\ Return(B, B)
    /\ UNCHANGED <<persist, sent, writerVars, outage, refused>>

\* The queue hands out a record it was told to delete.
Redeliver(s) ==
    /\ again < MaxAgain /\ again' = again + 1
    /\ place[s] = "done" /\ place' = [place EXCEPT ![s] = "queue"]
    /\ UNCHANGED <<persist, sent, writerVars, receives, invoked, rows, outage,
                   refused>>

\* message_retention_seconds: a record that no invocation has taken is dropped.
Expire(s) ==
    /\ place[s] = "queue" /\ place' = [place EXCEPT ![s] = "expired"]
    /\ UNCHANGED <<persist, sent, writerVars, receives, invoked, rows, outage,
                   refused, again>>

-----------------------------------------------------------------------------
StoreNext ==
    \/ \E s \in Sample : Publish(s) \/ Redeliver(s) \/ Expire(s)
    \/ TryEnsureSchema \/ FlushTimer \/ WriterRestart
    \/ \E b \in batches : FlushInsert(b)
    \/ \E B \in SUBSET Sample : Invoke(B)
    \/ \E B \in invoked : Handle(B) \/ Die(B)

StoreSpec == StoreInit /\ [][StoreNext]_storeVars

-----------------------------------------------------------------------------
(* Properties *)

\* telemetry-ingest/index.mjs:10-19 and telemetry-writer.service.ts:25-28, the
\* single-writer rule: in either deployment a sample gets a second row only by
\* an invocation that died or a delivery too many.  Timers and full buffers
\* that flush at once, and flushes that wait for the database together, write
\* nothing twice.
SingleWriter == \A s \in Sample : rows[s] <= 1 + again

\* index.mjs:15-20, "good rows in the same batch are never lost".  Whatever
\* fails, the function lets the queue delete only what is stored; and a record
\* that makes a row is given up to the dead letters only if the database or an
\* invocation failed or it was received with a mistyped one, not for the
\* malformed ones of its batches.  What it never receives, retention drops.
StoredBeforeDeleted ==
    \A s \in Sample :
        /\ place[s] = "done" => rows[s] > 0
        /\ place[s] = "dlq" /\ ~outage /\ again = 0 => s \in Malformed \cup refused

\* Not kept.  index.mjs:69-71, "a malformed row must fail alone, not poison the
\* batch": a value of a wrong type passes toRow and fails the insert of all.
MistypedFailsAlone ==
    ~outage /\ again = 0 =>
        \A s \in Sample \ (Malformed \cup Mistyped) : place[s] # "dlq"
=============================================================================
