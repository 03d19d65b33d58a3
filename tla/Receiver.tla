------------------------------ MODULE Receiver ------------------------------
(***************************************************************************)
(* An OTLP receiver of the collector (otlp-receiver.ts, logs-receiver.ts)  *)
(* for one project: a request is decoded and cut to the per-request cap,   *)
(* stored in one batch of INSERT OR IGNORE statements, and answered.       *)
(* Spans are stored under their own identity; a log record gets a fresh id *)
(* each time it arrives, so the same record can be stored again.           *)
(*                                                                         *)
(* ingestBatch of the log store prepares one statement and binds it once   *)
(* per record.  D1's bind returns a statement of its own each time; the    *)
(* bind of PostgresStatement changes the one object and returns it, so the *)
(* batch then runs with the values of the last record only.                *)
(***************************************************************************)
EXTENDS Integers, Sequences

CONSTANTS
    Items,           \* spans or log records
    Requests,        \* request handlers that can be active at a time
    MaxPerRequest,   \* MAX_SPANS_PER_REQUEST / MAX_LOGS_PER_REQUEST
    Idempotent,      \* rows are keyed by what the producer sent (spans)
    SharedStatement, \* the batch is one statement bound many times, on Postgres
    MaxStoreFaults   \* bound: batches the store fails

VARIABLES
    handler,     \* the batch and the position of each active handler
    rows,        \* number of rows stored for each item
    storeFaults  \* failed batches so far

receiverVars == <<handler, rows, storeFaults>>

Idle == [pc |-> "idle", batch |-> <<>>, rejected |-> 0]

ReceiverInit ==
    /\ handler = [q \in Requests |-> Idle]
    /\ rows = [i \in Items |-> 0]
    /\ storeFaults = 0

-----------------------------------------------------------------------------
SmallerOf(a, b) == IF a < b THEN a ELSE b

\* The request is read and decoded; what exceeds the cap is counted, not kept.
Receive(q, batch) ==
    LET kept == SubSeq(batch, 1, SmallerOf(Len(batch), MaxPerRequest)) IN
    /\ handler[q].pc = "idle"
    /\ handler' = [handler EXCEPT ![q] =
            [pc |-> "store", batch |-> kept, rejected |-> Len(batch) - Len(kept)]]
    /\ UNCHANGED <<rows, storeFaults>>

\* Rows of item i after it is stored once more.
Inserted(i) == IF Idempotent THEN 1 ELSE rows[i] + 1

\* The items whose values the batch of statements runs with.
Executed(batch) ==
    {batch[n] : n \in {m \in DOMAIN batch : SharedStatement => m = Len(batch)}}

\* The rows once the batch has run.
RowsAfter(batch) ==
    [i \in Items |-> IF i \in Executed(batch) THEN Inserted(i) ELSE rows[i]]

\* store.ingest / ingestBatch: the batch runs as one transaction.
Store(q) ==
    /\ handler[q].pc = "store"
    /\ rows' = RowsAfter(handler[q].batch)
    /\ handler' = [handler EXCEPT ![q].pc = "ok"]
    /\ UNCHANGED storeFaults

\* Mutant of StoreFails: the error is logged and the request answered 200.
StoreFailsQuietly(q) ==
    /\ handler[q].pc = "store" /\ storeFaults < MaxStoreFaults
    /\ storeFaults' = storeFaults + 1
    /\ handler' = [handler EXCEPT ![q].pc = "ok"]
    /\ UNCHANGED rows

\* The try block throws and otlpRetryableError answers 503.  The batch was
\* rolled back, or it took effect: the answer to COMMIT or D1's response was
\* lost, or something behind the write threw.
StoreFails(q) ==
    /\ handler[q].pc = "store" /\ storeFaults < MaxStoreFaults
    /\ storeFaults' = storeFaults + 1
    /\ handler' = [handler EXCEPT ![q].pc = "unavailable"]
    /\ rows' = RowsAfter(handler[q].batch) \/ UNCHANGED rows

\* The response is returned: 200, with partial_success when some were
\* rejected, or 503.
Respond(q) ==
    /\ handler[q].pc \in {"ok", "unavailable"}
    /\ handler' = [handler EXCEPT ![q] = Idle]
    /\ UNCHANGED <<rows, storeFaults>>
=============================================================================
