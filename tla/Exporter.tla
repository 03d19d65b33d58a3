------------------------------ MODULE Exporter ------------------------------
(***************************************************************************)
(* The buffered exporters of the telemetry SDK: logger.ts, span.ts and     *)
(* ai.ts keep the same three pieces of module state (config, buffer, the   *)
(* in-progress flag) and the same flush/requeue code.  They differ in the  *)
(* cap, in the auto-flush threshold, and in that the span exporter refuses *)
(* spans without a config and clears its config on shutdown.               *)
(*                                                                         *)
(* JavaScript runs to completion between awaits: the only await of a flush *)
(* is its fetch, so a flush is one action that takes the batch and one     *)
(* that settles the fetch.  Items are numbered in the order they are made. *)
(***************************************************************************)
EXTENDS Integers, Sequences, FiniteSets

CONSTANTS
    Cap,            \* MAX_BUFFER_SIZE / MAX_SPAN_BUFFER_SIZE
    AutoFlush,      \* buffer length that triggers a flush, 0 for never (spans)
    SpanExporter,   \* the span exporter's config rules apply (BOOLEAN)
    MaxItems,       \* bound: items ever produced
    MaxFailures     \* bound: fetches that throw

ASSUME ExporterAssumption ==
    /\ Cap \in Nat \ {0}
    /\ AutoFlush \in Nat
    /\ SpanExporter \in BOOLEAN
    /\ MaxItems \in Nat /\ MaxFailures \in Nat

VARIABLES
    config,    \* "on" once initialised; the span exporter's shutdown clears it
    timer,     \* the flush lifecycle (interval, pagehide, beforeExit hooks)
    buffer,    \* logBuffer / spanBuffer / aiBuffer
    flushing,  \* flushInProgress
    flights,   \* batches handed to fetch and not settled
    closing,   \* a shutdown call: "none", "wait" for its flush, "return"
    made,      \* number of items produced so far
    failures,  \* fetches that threw so far
    acked,     \* history: items of fetches that resolved with a 2xx status
    lost,      \* history: items of fetches that resolved with an error status
    dropped    \* history: items cut off at the cap

vars == <<config, timer, buffer, flushing, flights, closing, made, failures,
          acked, lost, dropped>>

Items == 1..MaxItems
Elems(s) == {s[i] : i \in DOMAIN s}
Oldest(s, n) == {s[i] : i \in 1..n}  \* the first n entries, none when n <= 0
InFlight == UNION {Elems(b) : b \in flights}

Init ==
    /\ config = "off" /\ timer = "off"
    /\ buffer = <<>>
    /\ flushing = "no"
    /\ flights = {}
    /\ closing = "none"
    /\ made = 0 /\ failures = 0
    /\ acked = {} /\ lost = {} /\ dropped = {}

-----------------------------------------------------------------------------
\* Array.splice(0, n): what is left of s.
Splice(s, n) == SubSeq(s, n + 1, Len(s))

\* Mutant of CanFlush: no in-progress check.
CanFlushUnguarded(buf) == config = "on" /\ buf # <<>>

\* The early return of flushLogs / flushSpans / flushAICalls.
CanFlush(buf) == config = "on" /\ buf # <<>> /\ flushing = "no"

\* A flush up to its await, starting from buffer contents buf.
Flush(buf) ==
    IF CanFlush(buf)
    THEN buffer' = <<>> /\ flushing' = "yes" /\ flights' = flights \cup {buf}
    ELSE buffer' = buf /\ UNCHANGED <<flushing, flights>>

\* Mutants of MakeRoom: one entry too many kept.
MakeRoomOffByOne(s) == IF Len(s) >= Cap THEN Splice(s, Len(s) - Cap) ELSE s

\* Room for one more entry at the hard cap: the oldest go.
MakeRoom(s) == IF Len(s) >= Cap THEN Splice(s, Len(s) - Cap + 1) ELSE s

\* Mutants of Requeue: the batch is appended behind newer items; it is
\* forgotten; the cap cuts off the newest.
RequeueBehind(batch) ==
    LET all == buffer \o batch IN IF Len(all) > Cap THEN Splice(all, Len(all) - Cap) ELSE all
RequeueForgotten(batch) == buffer
RequeueCutNewest(batch) ==
    LET all == batch \o buffer IN IF Len(all) > Cap THEN SubSeq(all, 1, Cap) ELSE all

\* requeueLogs / requeueSpans / requeueAICalls.
Requeue(batch) ==
    LET all == batch \o buffer IN IF Len(all) > Cap THEN Splice(all, Len(all) - Cap) ELSE all

-----------------------------------------------------------------------------
\* initLogger / initSpanExporter / initAI; may be called again at any time.
InitExporter ==
    /\ config' = "on" /\ timer' = "on"
    /\ UNCHANGED <<buffer, flushing, flights, closing, made, failures, acked, lost, dropped>>

\* A log record, an ended request span or an AI call is buffered, followed by
\* the auto-flush.  The span exporter returns early when not configured.
Enqueue ==
    /\ made < MaxItems
    /\ SpanExporter => config = "on"
    /\ made' = made + 1
    /\ LET kept == MakeRoom(buffer)
           buf  == Append(kept, made + 1)
       IN  /\ dropped' = dropped \cup Oldest(buffer, Len(buffer) - Cap + 1)
           /\ IF AutoFlush > 0 /\ Len(buf) >= AutoFlush
              THEN Flush(buf)
              ELSE buffer' = buf /\ UNCHANGED <<flushing, flights>>
    /\ UNCHANGED <<config, timer, closing, failures, acked, lost>>

\* Mutant of TimerFlush: waits for the threshold, as the auto-flush does.
TimerFlushFull ==
    /\ timer = "on"
    /\ CanFlush(buffer) /\ Len(buffer) >= AutoFlush
    /\ Flush(buffer)
    /\ UNCHANGED <<config, timer, closing, made, failures, acked, lost, dropped>>

\* The interval timer, pagehide, beforeExit or signal hook fires.
TimerFlush ==
    /\ timer = "on"
    /\ CanFlush(buffer)
    /\ Flush(buffer)
    /\ UNCHANGED <<config, timer, closing, made, failures, acked, lost, dropped>>

\* The application calls flushLogs / flushSpans / flushAICalls itself.
ManualFlush ==
    /\ CanFlush(buffer)
    /\ Flush(buffer)
    /\ UNCHANGED <<config, timer, closing, made, failures, acked, lost, dropped>>

\* The finally block, and the return of the flush a shutdown awaits.
Settle(batch) ==
    /\ flights' = flights \ {batch}
    /\ flushing' = "no"
    /\ closing' = IF closing = "wait" THEN "return" ELSE closing
    /\ UNCHANGED <<config, timer, made>>

FetchOk(batch) ==
    /\ acked' = acked \cup Elems(batch)
    /\ Settle(batch)
    /\ UNCHANGED <<buffer, failures, lost, dropped>>

\* Mutant of FetchErrorStatus: the batch is put back to be sent again.
FetchErrorStatusRequeues(batch) ==
    /\ buffer' = Requeue(batch)
    /\ dropped' = dropped \cup Oldest(batch \o buffer, Len(batch) + Len(buffer) - Cap)
    /\ Settle(batch)
    /\ UNCHANGED <<acked, lost, failures>>

\* fetch resolves with a 4xx or 5xx status: the status is never looked at.
FetchErrorStatus(batch) ==
    /\ lost' = lost \cup Elems(batch)
    /\ Settle(batch)
    /\ UNCHANGED <<buffer, failures, acked, dropped>>

\* fetch throws: unreachable, or the 10 s timeout, after which the collector
\* may or may not have stored the batch.
FetchThrows(batch) ==
    /\ failures < MaxFailures
    /\ failures' = failures + 1
    /\ buffer' = Requeue(batch)
    /\ dropped' = dropped \cup Oldest(batch \o buffer, Len(batch) + Len(buffer) - Cap)
    /\ Settle(batch)
    /\ UNCHANGED <<acked, lost>>

\* shutdownLogger / shutdownSpanExporter / shutdownAI up to the await: when the
\* flush returns early the call goes straight on.
Shutdown ==
    /\ closing = "none"
    /\ timer' = "off"
    /\ closing' = IF CanFlush(buffer) THEN "wait" ELSE "return"
    /\ Flush(buffer)
    /\ UNCHANGED <<config, made, failures, acked, lost, dropped>>

\* The shutdown call finishes; shutdownSpanExporter clears the config now.
ShutdownReturns ==
    /\ closing = "return"
    /\ closing' = "none"
    /\ config' = IF SpanExporter THEN "off" ELSE config
    /\ UNCHANGED <<timer, buffer, flushing, flights, made, failures, acked, lost, dropped>>

Settling == \E batch \in flights : FetchOk(batch) \/ FetchErrorStatus(batch) \/ FetchThrows(batch)

Next ==
    \/ InitExporter \/ Enqueue \/ TimerFlush \/ ManualFlush
    \/ Settling
    \/ Shutdown \/ ShutdownReturns

Spec == Init /\ [][Next]_vars

-----------------------------------------------------------------------------
\* The buffer never exceeds the hard cap, on the enqueue path and when a failed
\* batch is put back in front of what arrived meanwhile.
TypeOK ==
    /\ config \in {"on", "off"} /\ timer \in {"on", "off"}
    /\ buffer \in Seq(Nat) /\ Len(buffer) <= Cap
    /\ flushing \in {"yes", "no"}
    /\ flights \in SUBSET Seq(Nat)
    /\ closing \in {"none", "wait", "return"}
    /\ made \in Nat /\ failures \in Nat

\* The in-progress flag is up exactly while one fetch is outstanding, across
\* timers, auto-flush, manual flushes and shutdowns that race each other.
SingleFlight ==
    /\ flushing = "yes" <=> flights # {}
    /\ \A b, c \in flights : b = c

\* Every item ever made is in exactly one place: buffered, in flight,
\* acknowledged, lost to an error status, or dropped at the cap.
Accounting ==
    LET places == <<Elems(buffer), InFlight, acked, lost, dropped>> IN
    /\ UNION Elems(places) = 1..made
    /\ \A i, j \in DOMAIN places : i # j => places[i] \cap places[j] = {}

Increasing(s) == \A i, j \in DOMAIN s : i < j => s[i] < s[j]

\* A failed batch goes back in front: what is in flight and what is buffered
\* are together in the order in which the items were made.
OrderKept == \A b \in flights \cup {<<>>} : Increasing(b \o buffer)

\* The cap only ever costs the oldest items: everything buffered is newer than
\* everything that was dropped, although a batch in flight, older than the
\* buffer, can come back while the buffer overflows.
DropsOldest == \A i \in dropped, j \in Elems(buffer) : i < j

\* While the exporter stays initialised, every buffered item leaves: it is
\* sent or dropped, whatever finitely many fetches throw.
EventuallyLeaves ==
    <>[](config = "on" /\ timer = "on" /\ closing = "none") =>
        \A i \in Items : (i \in Elems(buffer) \cup InFlight) ~> (i \notin Elems(buffer) \cup InFlight)
=============================================================================
