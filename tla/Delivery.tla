------------------------------ MODULE Delivery ------------------------------
(***************************************************************************)
(* An SDK exporter and the collector's receiver, composed over HTTP.  A    *)
(* fetch may never reach the collector, may be turned away before the      *)
(* receiver (authentication, body limit), and may time out after 10 s      *)
(* while the collector goes on to store the batch: the exporter then puts  *)
(* it back and sends it again.                                             *)
(***************************************************************************)
EXTENDS Exporter

CONSTANTS
    Requests,        \* request handlers of the collector
    MaxPerRequest, Idempotent, SharedStatement, MaxStoreFaults  \* as in Receiver

ASSUME DeliveryAssumption ==
    /\ MaxPerRequest \in Nat \ {0}
    /\ Idempotent \in BOOLEAN /\ SharedStatement \in BOOLEAN
    /\ MaxStoreFaults \in Nat

VARIABLES
    handler, rows, storeFaults,  \* the receiver
    link  \* per handler "none", "open" while the fetch waits, "cut" after its timeout

receiver == <<handler, rows, storeFaults>>
allVars == <<vars, receiver, link>>

R == INSTANCE Receiver

DeliveryInit ==
    /\ Init
    /\ R!ReceiverInit
    /\ link = [q \in Requests |-> "none"]

-----------------------------------------------------------------------------
\* What the exporter does between its fetches.
Producing ==
    /\ InitExporter \/ Enqueue \/ TimerFlush \/ ManualFlush \/ Shutdown \/ ShutdownReturns
    /\ UNCHANGED <<receiver, link>>

Waiting == \A q \in Requests : link[q] # "open"  \* no handler serves the fetch

\* The handler a new request gets.  Handlers differ in nothing but their state,
\* so it does not matter which free one it is.
FreeHandler == CHOOSE q \in Requests : link[q] = "none"

\* The request of the outstanding fetch reaches the receiver.
Arrive(q, batch) ==
    /\ Waiting /\ link[q] = "none" /\ q = FreeHandler
    /\ R!Receive(q, batch)
    /\ link' = [link EXCEPT ![q] = "open"]
    /\ UNCHANGED vars

\* The receiver stores the batch, or answers that it could not.
Serve(q) ==
    /\ R!Store(q) \/ R!StoreFails(q)
    /\ UNCHANGED <<vars, link>>

\* The response ends the fetch that waits for it.
Answer(q, batch) ==
    /\ link[q] = "open"
    /\ IF handler[q].pc = "ok" THEN FetchOk(batch) ELSE FetchErrorStatus(batch)
    /\ R!Respond(q)
    /\ link' = [link EXCEPT ![q] = "none"]

\* The response to a fetch that has timed out goes nowhere.
AnswerLate(q) ==
    /\ link[q] = "cut"
    /\ R!Respond(q)
    /\ link' = [link EXCEPT ![q] = "none"]
    /\ UNCHANGED vars

\* Turned away with an error status before the receiver.
TurnedAway(batch) ==
    /\ Waiting
    /\ FetchErrorStatus(batch)
    /\ UNCHANGED <<receiver, link>>

\* The connection fails, or the timeout fires while a handler is at work.
Timeout(batch) ==
    /\ FetchThrows(batch)
    /\ link' = [q \in Requests |-> IF link[q] = "open" THEN "cut" ELSE link[q]]
    /\ UNCHANGED receiver

Network ==
    \E batch \in flights :
        \/ \E q \in Requests : Arrive(q, batch) \/ Answer(q, batch)
        \/ TurnedAway(batch) \/ Timeout(batch)

DeliveryNext ==
    \/ Producing
    \/ Network
    \/ \E q \in Requests : Serve(q) \/ AnswerLate(q)

\* The timer, the shutdown call and the network go on; a handler that has
\* started finishes.
DeliverySpec ==
    /\ DeliveryInit /\ [][DeliveryNext]_allVars
    /\ WF_allVars(TimerFlush /\ UNCHANGED <<receiver, link>>)
    /\ WF_allVars(ShutdownReturns /\ UNCHANGED <<receiver, link>>)
    /\ WF_allVars(Network)
    /\ \A q \in Requests : WF_allVars(Serve(q)) /\ WF_allVars(AnswerLate(q))

-----------------------------------------------------------------------------
Stored == {i \in Items : rows[i] > 0}

\* A record can be stored more than once, but never more often than fetches
\* threw, plus once: only a batch whose fetch threw is sent again, and a handler
\* that outlives its fetch stores the batch it was given once.  A 503 may well
\* stand for a batch that was stored, and must not be followed by a retry.
CopiesBounded == \A i \in Items : rows[i] <= failures + 1

A == INSTANCE AtLeastOnce
    WITH produced <- made, stored <- Stored, delivered <- acked,
         givenUp <- lost \cup dropped

\* The exporter and the receiver implement the promise of AtLeastOnce: nothing
\* counts as delivered that the collector did not store, and nothing delivered
\* is given up, under timeouts, retries, store failures and late handlers.  That
\* is so where every bind makes a statement of its own, on D1.
ImplementsAtLeastOnce == A!Spec
=============================================================================
