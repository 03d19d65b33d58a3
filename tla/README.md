# obs-unified: TLA+ models and proofs

This directory holds TLA+ models of the parts of obs-unified whose correctness
depends on the order in which things happen: overlapping cron ticks, awaits
between a read and a write, failed statements, killed isolates, fetches that time
out while the collector goes on, batches split and repeated by retries, a Map
that changes under its iteration, overlapping async handlers, page loads and
session rotations. TLC checks them on small instances; TLAPS proves all of their
safety properties for every value of the constants as well.

Contents: [the system](#1-the-system) · [the plan](#2-the-plan) ·
[the modules](#3-the-modules-and-the-code) · [the runs](#4-what-the-runs-check) ·
[the proofs](#5-what-is-proved) · [code and documents](#6-where-code-and-documents-disagree) ·
[what is not modelled](#7-what-is-not-modelled)

## 1. The system

SDKs in the browser and on the server buffer telemetry and POST it to a
collector (a Cloudflare Worker on D1/R2, or a Node process on Postgres/S3). The
collector validates it, writes it to SQL tables and blobs, and serves query
routes to a dashboard, an MCP server and a CLI. Cron triggers
(`apps/collector/wrangler.toml:14`: every minute, every five minutes, hourly)
drive alert evaluation, analyses and retention.

| Component | State | Operations | What is hard | What makes it correct |
| --- | --- | --- | --- | --- |
| **Analyses scheduler** (`analyses-runner.ts`, `analyses-store.ts`, `analyses-routes.ts`) | `analysis_definitions` (with `last_run_at` and the lease `last_started_at`), `analysis_results` | cron tick: upsert the registry, read what is due, workers claim, run, insert, mark or release; on-demand run; purge | ticks overlap, the lease expires, a tick is killed between two statements, the on-demand path takes no claim | one run at a time per analysis; `last_run_at` names a stored result and moves forward; a lost lease comes back |
| **Alerts** (`alerts-evaluator.ts`, `alerts-store.ts`, `alerts-routes.ts`) | `alert_rules`, `alert_state`, `alert_evaluations` | tick: snapshot the rules, workers evaluate, read the state, notify, transition, record; create, patch, delete | ticks overlap, notice and transition are not atomic, queries hang, rules change under a tick, foreign keys | notices alternate; `alert_state` is what was last said; the state catches up with the metric |
| **SDK exporters** (`logger.ts`, `span.ts`, `ai.ts`, `flush-lifecycle.ts`) | config, buffer, in-progress flag, timer | enqueue, auto-flush, timer, manual flush, requeue, init, shutdown | a batch in flight comes back into a buffer that has filled up; flushes race; shutdown during a flush | bounded buffer, one batch in flight, nothing unaccounted for, order kept, the oldest go first |
| **Interaction context** (`interaction.ts`, `auto-correlate.ts`) | one module-level stack, XHR contexts, the installer's count | event listener with a microtask cascade, sync and async wrappers, fetch/XHR patches, install and cleanup | async bodies overlap on one stack; microtasks run between event listeners | every context entered is left; left in order, the stack is right; the patches stay as long as anyone needs them |
| **Usage tracker** (`usage-tracker.ts`, `usage-tracker/helpers.ts`) | session in sessionStorage, deduplication in memory, the rrweb recorder and its buffer | track, page view, once, startReplay, stopReplay, flush, emit, 401, page load | a rotation can happen inside any of them and restarts the recorder from within | sessions respect idle timeout and hard cap; no repeats; one recorder; replay events once and in order |
| **Ingest pipeline** (`otlp-receiver.ts`, `logs-receiver.ts`, `store/ingest.ts`) | the telemetry tables | decode, cap, process, insert a batch, answer | retries of batches that were stored, or are being stored; a 503 for a batch that took effect; one prepared statement bound for every record | nothing counts as delivered that is not stored; duplicates come from thrown fetches only |
| **Agent action graph** (`action-graph-processor.ts`, `action-identity.ts`) | agent runs, actions, detail rows | upsert runs and actions from each batch of spans | the spans of a run arrive in any order, split, merged and repeated; the graph write may fail | stored spans are in the graph and linked; totals count nothing twice |
| **Profiles and retention** (`profile-routes.ts`, `framework/collector.ts`, `store/retention.ts`) | profile blobs, rows and index; expiry of every table | upload, purge | three writes without a transaction; the purge lists 500 rows and deletes all; two ways to compare times | rows have blobs; nothing goes early; everything expired goes |
| **Live tail** (`tail-hub.ts`, `tail-routes.ts`) | the subscriber map of a durable object | subscribe, abort, heartbeat, broadcast | the broadcast awaits each subscriber while the map changes | nobody is skipped or served twice because another one left; a publish ends |
| **Ingest authentication** (`ingest-auth.ts`, `projects-store.ts`) | keys, the key cache, the bootstrap latch | verify, bootstrap, create, revoke | a cached verdict is stale; first requests race | a revoked key stops working within the cache's lifetime; the race turns nobody away |
| **Eval runs** (`eval-cases-routes.ts`, `eval-cases-store.ts`) | cases, runs with counts, results | create a case or a run, post a result | check, insert and recompute are separate statements | what was answered is counted; counts never go down |
| **Replay storage** (`replay-receiver.ts`, `replay-query-routes.ts`) | chunks (blobs) and metadata rows | store a chunk, read, delete | a delete races an upload; blob and row are not atomic | see section 7 |
| Queries, overview, evidence, ask, MCP, CLI, dashboard, adapters | none, or single-statement CRUD | read and shape | – | data, not control |

How they interact: the browser SDK's interaction id travels in a header to the
backend SDK and, as an attribute of spans, into the collector; exporters POST to
the receivers; the receivers write the tables that the rules and the analyses
count; the hourly cron purges what the analyses and the receivers wrote. Between
processes the only shared state is the database, so an interaction between two
handlers is an interleaving of their statements.

## 2. The plan

In order of importance, and with what is done:

1. `Analyses`, `Alerts`: the collector's scheduled work. **Modelled, checked, proved.**
2. `Exporter`: the delivery path every SDK shares. **Modelled, checked, proved.**
3. `Interaction`, `UsageTracker`: the browser SDK. **Modelled, checked, proved.**
4. `Receiver`, and `Delivery` = `Exporter` composed with it over HTTP, shown to
   implement `AtLeastOnce`. **Modelled, checked, proved, the refinement included.**
5. `Auth`, `Retention`, `TailHub`, `EvalRuns`: the collector's shared state.
   **Modelled, checked, proved.**
6. `ActionGraph`: the processor inside the trace receiver, composed with
   `Receiver`. **Modelled, checked, proved.**

Every safety property a run checks is now also a theorem; what is left is liveness
(section 5). Left to model: an abstract lease (one holder until expiry, whoever asks)
that `Analyses` implements while nothing is `unguarded`, and an abstract notifier
that `Alerts` implements for undisturbed rules.

## 3. The modules and the code

In all models one action is the code between two awaits (one SQL statement, one
fetch, one synchronous stretch of script), which is what JavaScript's
run-to-completion and the atomicity of a statement give: on D1 exactly, on Postgres
up to the snapshots of READ COMMITTED (under `EvalRuns` below). Local
variables that live across an await are part of the state, so a value that is
stale when it is used is stale in the model. Variables commented `history` are
not in the code: they only record what happened for the properties.

### Analyses

`defs`, `lastRun`, `lastStart` and `results` are the tables. A tick
(`runAllDueAnalyses`) reads `Date.now()` once (`StartTick`), upserts the
registry's definitions one by one (`Upsert`; a failed one is logged and skipped,
`UpsertFails`), reads what is due (`GetDue`) and lets its workers share the
queue. A worker takes an id and reads `Date.now()` *before* it awaits the claim
(`Shift`), so the lease can be dated earlier than it is granted; then
`Claim`/`Skip`, `RunSql`, `Insert`, `Mark`, or `RunFails` and `Release`. A
`releaseClaim` that throws inside the catch block ends the worker
(`ReleaseFails`). `Crash` kills a tick anywhere. The on-demand route
(`StartRequest` … `RequestMark`) takes no claim. `rowToDefinition` is modelled
by what it returns: a definition without its narrate spec, because no column
holds one.

`unguarded` collects the analyses whose lease was outlived by its holder or
cleared by an on-demand run. The code's exclusion argument is void for exactly
those, and the properties exclude exactly those.

### Alerts

`row`, `rule`, `state` and `evals` are the three tables with their foreign keys.
A tick snapshots the enabled rules (`StartTick`); a worker takes one (`Take`),
evaluates it (`Evaluate`, or `EvaluateTimeout` after 10 s), reads the prior
state (`GetState`), calls the channels if it changes (`Notify`), then
`Transition` and `Record`. `StoreFails` is a store error at any of these awaits
with the code's catch block, `Crash` a killed isolate. `PATCH` is a read and a
write (`PatchRead`, `PatchWrite`), `DELETE` three statements (`DeleteRule` or
`DeleteNoMatch`, `DeleteState`, `DeleteEvals`). What a rule counts is `metric`,
which changes at will; `Stuck` rules never get an answer.

`disturbed` collects the rules on which two workers decided at the same time,
whose transition failed or was cut off after its notice, or whose state was wiped.

### Exporter

One module for the three exporters, which share their code: constants choose the
cap, the auto-flush threshold (0: none, as for spans) and the span exporter's
rules (no spans without a config, shutdown clears it): the run below takes the
log exporter, the proofs cover every choice. Items are numbers in
order of creation. A flush takes the whole buffer and raises the flag (`Flush`);
its fetch resolves (`FetchOk`), resolves with an error status that nobody looks
at (`FetchErrorStatus`), or throws and is requeued (`FetchThrows`). `Shutdown`
runs to its await, `ShutdownReturns` is the rest.

### Interaction

`stack` is the module's handler stack; a context is its id, because action ids
coalesce with interaction ids. `Click` is the capture listener for a trusted
event, `MicrotaskCheckpoint` the browser's microtask checkpoint behind it, which
runs the whole cascade (each microtask queued by a microtask runs in the same
checkpoint), and `EventDone` the end of the page's handlers. A body is a pending
async function: it enters by `WithInteractionContextAsync`, `WrapAsync` or inside
a synchronous `WithInteractionContext`, and settles (`Settle`). The patched `fetch`
only reads the top of the stack (`Current`) and is no step of its own. `XhrOpen` is
the patched `open`, which keeps an earlier context when there is no active one;
`Install` and `Cleanup` are the reference-counted installer.

### UsageTracker

`sid`, `startTs`, `lastAct` and `onceStored` are sessionStorage and survive
`Reload`; `lastPagePath`, `onceKey`, `dispatchDisabled` and `rec` are memory and
do not. Every public method is one step, with everything it calls: `Track` is
`ensureSessionCurrent` (which may rotate, stop the recorder, flush its buffer
under the new id and start it again) followed by `dispatch`. `Flushed` empties
the buffer and only then checks the session, as `flushReplays` does. The flush
threshold is below the buffer's hard cap, so the cap never cuts and is not in
the model.

### Receiver, Delivery, AtLeastOnce

`Receiver` is the state and the steps of a trace or log receiver: a request is
decoded and cut to its cap (`Receive`), stored in one atomic batch of `INSERT OR
IGNORE` (`Store`), and answered (`Respond`). `StoreFails` is anything that throws in
the receiver's try block and becomes a 503: the batch was rolled back, or it took
effect and the answer to `COMMIT`, or D1's response, was lost, or code behind the
write threw. `SharedStatement` is the Postgres host's reuse of one statement object
(section 6): the items whose values the batch runs with (`Executed`) are then the
last one alone. Spans are keyed by what the producer sent (`Idempotent`), log
records get a fresh id at every arrival. It has no specification of its own:
`Delivery` and `ActionGraph` instantiate it.

`Delivery` extends `Exporter` and joins the two. Its `Arrive` hands the batch in
flight to a handler; `Answer` ends the fetch with the handler's answer;
`Timeout` makes the fetch throw while the handler goes on (its link is `cut`, and
`AnswerLate` answers nobody); `TurnedAway` is an error status from in front of
the receiver. `AtLeastOnce` is what this path promises: produced, stored,
delivered and given up, where only stored items are delivered and delivered ones
are never given up. The refinement mapping takes `made`, the items with a row,
`acked`, and `lost` with `dropped`.

### ActionGraph

Batches of spans of one trace go through `Receive`, then the processor
(`Process`, or `ProcessFails`, which is only logged), then `Store`. Attributes
are constants per span: its kind, the id it states (several spans may state one),
whether it names an agent, the run, root and cause it states, its parent, its cost,
and the detail tables it has attributes for.
`ActionId`, `AgentRunId`, `RootActionId` and `CausedByActionId` are the identity
rules of `action-identity.ts` and the processor; `RunTotal` is the total of a
run over one batch. `Bound` is the set of records a batch makes, a table and a span
each; `Written` what the batch leaves of them: of two records for one row, and with
`SharedStatement` of all records of one table, only the one bound last (`Clash`).
Which one that is follows from how the awaits of `Promise.all` come out and is left
open, for each table by itself, which allows a little more than the code does.
`WriteGraph` is the upserts, all or nothing; `ProcessFails` may come before or after
they took effect. The span store prepares a statement per span, so `SharedStatement`
is `FALSE` in this module's `Receiver`.

### Auth

`row` and `revokedAt` are the table, `order` and `expires` the cache (a Map, in
insertion order), `latch` the bootstrap flag. A request moves through
`BootSelect`, `BootInsert`, `BootReturns`, `Hashed`, `Lookup` and `Resolved`,
one per await; it keeps the clock reading it made before the hash. `Restart`
replaces the isolate.

### TailHub

One object's Map. `Publish` starts a walk that writes to the next interested
subscriber and waits; `Read` settles the oldest write of a reading client and
lets the broadcast behind it walk on; `Reject` does so for a client that has
gone, and drops it. `Stall` is a client that stops reading and stays.
`Subscribe`, `Heartbeat`, `Disconnect` and `Abort` are the other events.

### Retention

An upload is `Put`, `InsertRow`, `InsertIndex`, or `UploadFails` between them. A
cleanup issues the DELETEs of all tables together (`CleanupStarts`,
`PurgeTable`, `PurgeTableFails`), lists expired profiles (`SelectExpired`),
deletes blobs (`DeleteBlob`, `DeleteBlobFails`) and then rows (`DeleteRows`). The
two comparisons of expiry times are `SqlExpired` and `IsoExpired`. `overrun`
records the cases in which the code leaves a blob behind without any failure.

### EvalRuns

A post is `GetCase`, `GetRun`, `InsertResult`, `Refresh`; a creation is
`CheckRun`, `InsertRun`; `PostFails` ends a post at any of its awaits. What the
post remembers of the run it read (`saw`) decides about the refresh. `Refresh` is
one UPDATE with COUNT subqueries, atomic on D1. Under Postgres' READ COMMITTED an
UPDATE that waited for another one's row lock may combine that row with counts from
its own older snapshot; that narrow race is not in the model, so `AnsweredIsCounted`
and `CountsGrow` are statements about D1.

## 4. What the runs check

| Run | Property | What it says |
| --- | --- | --- |
| `analyses_safety` | `TypeOK` | columns and locals have their types; a handler has set what it is about to use |
| | `ExclusiveRun` | at most one worker of all ticks is between claim and release, unless the analysis is `unguarded` |
| | `RanOnlyAfterResult` | `last_run_at` names a result that was inserted, on both paths, through crashes |
| | `LastRunForward` | `last_run_at` never moves back while the lease guards |
| `analyses_live` | `LeaseReclaimed` | a lease nobody will release does not last |
| | `FirstRunHappens` | a registered analysis is eventually run and marked, or a fault has left a lease on it for good that ends after the clock's bound |
| `alerts_race` | `TypeOK` | types; no worker is busy outside a running tick |
| | `Alternates` | no repeated notice, except for `disturbed` rules |
| | `StateIsLastNotice` | the stored state is what was last said, or a worker is about to store it |
| `alerts_live` | `StateCatchesUp` | a metric that stays on one side ends in that state, beside a rule whose query hangs |
| `delivery` | `TypeOK` | the buffer respects its cap |
| | `SingleFlight` | the flag is up exactly while one batch is in flight |
| | `Accounting` | every item is in exactly one place |
| | `OrderKept` | flight and buffer together are in order |
| | `DropsOldest` | the cap costs only the oldest |
| | `CopiesBounded` | a record has at most one row more than fetches were thrown: an error status, which may stand for a stored batch, leads to no second copy |
| | `EventuallyLeaves` | nothing stays buffered while the exporter runs |
| | `ImplementsAtLeastOnce` | exporter, network and receiver together implement `AtLeastOnce`, on D1 |
| `interaction_stack` | `Unwinds` | as many entries as pending contexts: each way out pops one |
| | `Nested` | left innermost first, the stack is the list of pending contexts |
| | `InstalledWhileHeld` | the patches are in place exactly while a caller holds its cleanup function, and the count is the number of holders |
| `usage_tracker` | `SessionBounded` | sends under one id respect hard cap and idle timeout |
| | `OncePerSession` | a once-interaction is sent at most once in a session |
| | `OneRecorder` | recording means exactly one recorder |
| | `ReplayInOrder` | replay events are sent at most once and in order |
| | `PageViewOnce` | no repeated page view, except behind one that rotated the session |
| `auth_keys` | `RevocationTakesHold` | a revoked key is out one cache lifetime after its revocation, by the request's own clock reading |
| | `LegacyKeyWorks` | the race of first requests turns the legacy key away from nobody |
| `tail_hub` | `Complete` | a broadcast that returned was read by everyone it was for, except those who left |
| | `InOrder` | nobody is sent a broadcast twice, and broadcasts do not overtake each other, except where a subscriber ahead left |
| | `PublishReturns` | a publish ends unless a client neither reads nor leaves |
| `retention` | `RowHasBlob` | a row without its blob has expired |
| | `NoOrphans` | without faults and overruns every blob has its row |
| | `NeverEarly` | nothing is deleted before its expiry time, by either comparison |
| | `ExpiredGoes` | what has expired is deleted in the end |
| `action_graph` | `RunTotalsBounded` | a run's total lies between what it reports and what it and its children cost |
| | `StoredSpansGraphed` | on D1, stored action spans are in the graph with their details, unless a graph write failed |
| | `CausesResolve` | on D1, parent and child are linked, whichever came first |
| `eval_runs` | `AnsweredIsCounted` | a summary misses only unfinished, failed or too early posts |
| | `CountsGrow` | recomputed counts never go down |

`TypeOK` is a property of the runs in which it says more than types. The other
modules define one as well, and their proofs start from it or from the part of it
that they need.

### Bounds, and why they are enough

* `analyses_safety`: one analysis, two ticks of one worker, one on-demand request,
  one fault, three instants of time with a lease and a refresh of one. Analyses do
  not interact except through a worker's queue; two ticks give every pairwise
  race; the clock lets a lease expire and a second refresh come due.
  `analyses_live` drops the request and allows two faults, so that a lease can be
  lost and the tick that would reclaim it fail as well. The purge runs there; in
  `analyses_safety` the retention outlasts the clock, since no property of that run
  reads the rows a purge removes.
* `alerts_race`: one rule, since rules share nothing but the workers; two ticks,
  an edit, a delete and a fault; three metric values on both sides of the
  thresholds. `alerts_live` has two rules, one of which never answers.
* `delivery`: a buffer cap, an auto-flush and a request cap of 2, so that a full
  batch is in flight while the buffer fills, overflows and meets the batch that
  comes back; 4 items, 2 thrown fetches and two handlers let a batch be stored
  late by one handler while its retry is stored by the other, and be cut and
  merged in between; one store fault meets either of them.
* `interaction_stack`: three bodies (the fewest with an innermost, a middle and an
  outer one), three installers, one XHR object, two ids.
* `usage_tracker`: idle 1, cap 2, clock 4: a session can end either way and
  another start; four replay events and a threshold of 3 reach a flush by
  threshold, by interval, by rotation and by stop.
* `auth_keys`: two requests give the bootstrap race and the race between a miss
  and a store; two keys and a cache of one entry make every second key evict; a
  lifetime of 2 and a clock of 3 let an entry outlive its key and expire.
* `tail_hub`: three subscriptions, two at a time, so that one can join in the place
  of one that left during a walk; two broadcasts can wait at different
  subscribers; one that asks for nothing is walked over; one heartbeat.
* `retention`: two profiles and a listing limit of one exceed the limit; a retention
  of 1, days of 2 ticks and a clock of 3 put an expiry inside a day and after it;
  one table for each comparison; one fault anywhere.
* `action_graph`: a run, a step that names it, a tool call that names it as its
  root, and a span that is no action, in any single, any ordered pair, and all four
  in two orders against a cap of three; the tool call names an agent, so it gets a
  run row too; four requests, two at a time, and one failure each of graph and
  store. The two handlers are interchangeable.
* `eval_runs`: one run, since runs share nothing; three posts, two of which can
  finish around the third; two creators, one of which repeats the other.

Every bound is a constant named `Max…` in a guard, or the size of a set of
requests, posts or uploads. Symmetry is used in the safety runs with
interchangeable ticks, requests or posts; never with liveness. Deadlock is checked except
in `tail_hub`, `retention`, `action_graph` and `eval_runs`: there everything
that may happen can have happened (all posts made, all clients gone), and the
system really may stop.

### Fairness

* `Analyses`, `Alerts`: cron fires again and again (`StartTick`), awaits of a
  running tick settle (a D1/Postgres statement returns or throws; an alert
  query that does not is cut off by `withTimeout`), the clock runs. Requests,
  edits, faults and metric changes are never obliged to happen; faults are bounded.
* `Delivery`: `setInterval` fires while the timer is installed;
  `AbortSignal.timeout(10_000)` settles every fetch, whatever the network does; an
  awaited promise resumes its caller; a handler of the collector finishes.
  Nothing obliges the application to enqueue, flush or shut down.
* `TailHub`: a client that reads goes on reading until it stalls or leaves, both of
  which it is free to do; a rejected promise runs its handlers.
* `Retention`: the hourly cron keeps firing and a cleanup that started goes on, or
  fails. Uploads and records are not obliged to happen, and the clock may stop.

`LeaseReclaimed` has premises that keep the lease's expiry and the next due time
inside the clock's bound. `FirstRunHappens` has one excuse, for the same reason: a
lease that no worker holds, that expires after the last instant of the clock, and
that stays for ever (`[]Stranded`). Only a fault leaves one. A claim, a run or a
stored result late in the clock's range is not excused: the run must be marked.

## 5. What is proved

| Module | Theorems | Inductive invariant |
| --- | --- | --- |
| `AnalysesProof` | `TypeCorrect`, `ExclusiveRunHolds`, `RanOnlyAfterResultHolds`, `LastRunForwardHolds` | `LeaseInv` |
| `AlertsProof` | `TypeCorrect`, `AlternatesHolds`, `StateIsLastNoticeHolds` | `AlertInv` |
| `DeliveryProof`, first part | `BufferBounded`, `SingleFlightHolds`, `OrderKeptHolds`, `DropsOldestHolds`, `AccountingHolds` | `ExportInv`, `Placed` |
| `DeliveryProof`, second part | `DeliveryImplementsExporter`, `DeliverySingleFlight`, `DeliveryOrderKept`, `DeliveryDropsOldest`, `DeliveryAccounting` | those of `Exporter` |
| | `CopiesBoundedHolds`, `DeliveryIsAtLeastOnce` | `DeliveryInv` |
| `CollectorProof`, action graph | `StoredSpansGraphedHolds`, `CausesResolveHolds`, `GraphTypeOKHolds`, `RunTotalsBoundedHolds` | `GraphInv`, `GraphBounds` |
| `CollectorProof`, eval runs | `AnsweredIsCountedHolds`, `CountsGrowHolds`, `EvalTypeOKHolds` | `EvalInv` |
| `CollectorProof`, live tail | `CompleteHolds`, `InOrderHolds`, `HubTypeOKHolds` | `HubInv`, `Roomy` |
| `AuthProof` | `RevocationHolds`, `LegacyKeyHolds` | `AuthInv` |
| `RetentionProof` | `RowHasBlobHolds`, `NoOrphansHolds`, `NeverEarlyHolds` | `RetentionInv` |
| `InteractionProof` | `UnwindsHolds`, `NestedHolds`, `InstalledWhileHeldHolds` | `InteractionInv` |
| `UsageTrackerProof` | `TypesHold`, `SessionBoundedHolds`, `OncePerSessionHolds`, `OneRecorderHolds`, `ReplayInOrderHolds`, `PageViewOnceHolds` | `UsageInv` |

They hold for any sets of analyses, ticks, workers, requests, rules, editors,
profiles, bodies, keys, spans, posts and subscriptions, any lease, refresh, retention, timeout, cap and
threshold, under the `ASSUME` of the component's module (types of the constants; for
`Analyses` that the epoch is longer ago than a refresh window; for `Exporter` and
the receivers that the caps are positive; for `ActionGraph` that a trace is finite and
an exporter buffers a span once; for `Interaction` that bodies and installers are
finitely many; for `EvalRuns` that the posts are). `SharedStatement` may be either
unless a theorem says otherwise. `StoredSpansGraphed`, `CausesResolve` and one
conjunct of `ActionGraph`'s `TypeOK` say `~SharedStatement` themselves: they are
statements about D1, and with `SharedStatement = TRUE` TLC refutes them as soon as
that premise is taken away. `DeliveryIsAtLeastOnce` assumes `~SharedStatement` as
well, and `Cap <= MaxPerRequest`, without which the receiver counts away items that
the exporter takes for delivered. The code's constants satisfy it for logs (500 against 1000,
`logger.ts:61`, `logs-receiver.ts:17`) and for spans (200 against 500, `span.ts:30`,
`otlp-receiver.ts:16`) as long as a buffered request carries one span; section 6 has
the case in which it does not.

* **Leases.** `ExclusiveRun` is not inductive: nothing in it prevents a second
  claim. What does is that the lease in the row is the holder's own
  (`HolderInRow`: while an analysis is guarded, `last_started_at` is the
  timestamp the active worker wrote), that no timestamp lies in the future
  (`PastTimes`), so that a claim carrying an older `Date.now()` is refused as
  long as the lease has not been outlived, that the holder's result is at least as
  new as `last_run_at` (`HolderNewest`), which gives `LastRunForward`, and that a
  worker or request about to mark has stored its result (`MarkHasResult`).
* **Alerts.** Two workers that decide on one rule at once put it into
  `disturbed`; for the others there is one decider at a time (`OneChanges`),
  what it is about to announce is not what was last announced (`NewsOnly`), and
  what it is about to store is (`ToldFirst`). `Alternates` and
  `StateIsLastNotice` follow together.
* **Exporter.** Items are numbered by creation and never exceed `made`
  (`Numbered`), the batch in flight precedes the buffer (`InOrder`), and a
  dropped item can only be newer than something in flight if the buffer is full
  (`FlightOrFull`), in which case the requeue cuts the whole batch away. The last
  is what `DropsOldest` needs: dropping from the buffer while an older batch is in
  flight breaks the order until that batch settles.
  `Accounting` counts, and counts are not inductive: what is, is that the places an
  item can be in are disjoint and together hold `1..made` (`Placed`), so every move
  takes items out of one place into another.
* **Composition.** Every step of `Delivery` is a step of `Exporter` or leaves its
  variables alone (`ExporterStep`): the network settles a fetch only in the three
  ways `Exporter` allows. So the composition implements `Exporter`, and its
  invariants hold in `Delivery` with any number of handlers, any request cap and
  any store.
* **Delivery.** `DeliveryInv` says where a batch is while its fetch is pending: at
  most one handler can still answer, and what it holds is in flight (`Wired`); one
  that will answer 200 has stored all it holds, which is the whole batch when the
  cap fits into a request and its records do not share a statement (`Answered`).
  `CopiesBounded` is not inductive, since a handler may be about to store a record
  once more. What is: an item's rows, and the handlers that hold it and have yet to
  store it, are together no more than the fetches thrown so far, and one more once
  the item has reached a handler that still answers, or has left the exporter
  (`Copies`). An error status moves nothing there, stored or not, because the
  batch is given up. The refinement of
  `AtLeastOnce` is then one case per action (`RefinementStep`): acknowledging
  delivers only what `Answered` says is stored, and what is given up was never
  acknowledged, because the places are disjoint.
* **Action graph.** `StoredSpansGraphed` is about stored spans; what makes it hold
  is that the graph of a request's batch is written while the request is still
  before its store (`ProcessedGraphed`), and that no upsert takes a row out.
  `CausesResolve` needs that a row is always the one its own span makes
  (`RowsRight`), whichever request wrote it last, among the spans that state that
  id; its premise `Alone` leaves one. Both rest on a batch writing, of the records
  that go to one row, exactly one, and all others (`WrittenFacts`). `RunTotalsBounded` is inductive as it stands, because a total is
  replaced and never added to: what carries it is that the children found in a batch
  are children in the trace (`RunTotalFacts`) and that more spans cost no less
  (`CostOfFacts`). The sum is a fold over a set, so this is induction over data,
  for which the prover can instantiate no induction theorem; it is done by least
  counterexample instead. A smallest number of elements for which the fold is not
  defined (`SumsExist`), and a smallest set whose sum depends on the order
  (`SumsInAnyOrder`), exceeds that of a larger one (`SumsMonotone`) or differs in
  another domain (`SumsAgree`), would exist by well-foundedness, and one element
  taken out of it refutes it.
* **Eval runs.** `AnsweredIsCounted` compares counts with sets and is not inductive:
  a number says nothing of whose results it counts. `Counted` names the set: the counts
  of a run are those of some set of its results that leaves out no result whose post
  saw the run and was answered (`CountsAre`). A refresh takes all results there are,
  its own among them; an insert, or an answer without a refresh, leaves the set as it
  is, and the post is not one that both saw the run and finished. `Placed` says how far a post has
  got when its result exists, and that a run it saw stays. `CountsGrow` follows: the
  set before a refresh is a subset of the one after it.
* **Live tail.** A broadcast is in at most one stream, that of the subscription it
  awaits, and whoever has read it lies before that one (`Awaiting`); whoever is owed
  it has read it, has gone, or is still ahead and wants it (`Ahead`), which is
  `Complete` at the end of the walk. All actions are one of two kinds of step: one
  that moves no broadcast (`QuietStep`), or one in which one broadcast walks from a
  subscription to the next that wants it and is there (`WalkStep`); the latter rests
  on the least element of the Map's entries ahead (`MinFacts`, `StopFacts`). `InOrder`
  needs to know of pairs that are not yet in one stream: a later broadcast is beyond
  an earlier one of its topic only past a subscription that has gone (`Overtaken`),
  and `Left`, that who is not in the Map has gone, tells why.
* **Auth.** A request accepts from the cache or by a lookup. No clock reading lies
  in the future (`PastReadings`), a cache entry of a revoked key expires within one
  lifetime of the revocation (`EntriesExpire`), and a lookup that found the key
  unrevoked was made by a request whose reading is older than the revocation
  (`FoundInTime`). `Bootstrapped` says who may assume the legacy key's row exists.
* **Retention.** A cleanup lists only expired rows (`Listing`), and the clock only
  moves forward, so a row that has lost its blob has expired (`BlobsGoLate`).
  `AllListed` is the reverse, while nothing failed or overran: of the rows the DELETE
  will take, those that still have their blob are on the list. `NeverEarly` is an
  action property; the SQL comparison, by day, never calls expired what the ISO
  comparison does not (`SqlIsLate`).
* **Interaction.** `Nested` implies `Unwinds` only until two bodies cross; after
  that the heights still agree, since every exit pops one entry (`PopFacts`,
  `PopIdFacts`). `LiveIsPending` says that `live` lists the pending bodies, each
  once, so that its length is their number. The installer's count is the number of
  holders (`InstallInv`), which is why the last one to leave, and no other, brings it
  to zero.
* **Usage tracker.** The four groups of state meet only in `EnsureSessionCurrent`.
  `SessionBounded` speaks of all sessions; the invariant that carries it speaks of
  the current one: its stored timestamps cover its sends (`Covered`), and an id that
  is not minted yet has none (`Fresh`). `PageNoted` ties the last page view to the
  path remembered in memory while dispatching is enabled; `OnceNoted` says that the
  stored key precedes the send; `Ordered` relates the numbers posted, those buffered
  and the number of events made, and is closed under emit, drop and post.

Only model-checked: all liveness properties (`LeaseReclaimed`, `FirstRunHappens`,
`StateCatchesUp`, `EventuallyLeaves`, `PublishReturns`, `ExpiredGoes`), since
fairness and `ENABLED` are outside the prover's reach. Of the type invariants that are no
property of a run, the order of `Auth`'s cache is not proved either: it filters a
sequence with `SelectSeq`, whose definition is recursive.

## 6. Where code and documents disagree

Seen while the code was translated. The models follow the code; no property
claims what the quoted text says.

* The narrate spec of a definition is never stored, and the runner works on
  definitions read back from the table: scheduled analyses are never narrated
  (`analyses-store.ts:59`, against `narrate-gate.ts:159`).
* `deleteRule` deletes the parent row before the children that reference it; for a
  rule that was evaluated once the first statement throws and nothing is deleted
  (`alerts-store.ts:220`, against `:224`).
* A shutdown during a flush awaits nothing: it resolves with items buffered and in
  flight, and the timer is gone (`span.ts:64`, against `docs/archive/issues.md:92`
  and `:100`).
* For a real user event the microtask cascade runs out between the SDK's listener
  and the page's handlers, which find no interaction (`auto-correlate.ts:147`,
  against `:7`). Tests that dispatch events from script cannot see it.
* On Postgres `bind` changes the one statement object and returns it
  (`sql-db-postgres.ts:105-108`), where D1's returns a statement of its own
  (`sql-db.ts:149`). The adapter says it exposes "the same `prepare → bind → …`
  chain as `D1Adapter`" (`sql-db-postgres.ts:4-5`), and `SqlDb.batch` promises "one
  result per statement in input order, mirroring D1's `batch`" (`sql-db.ts:21-22`).
  Code that prepares once and binds per record then runs a batch of N copies of the
  last record, which succeeds: of a log request only the last record is stored and
  all count as accepted (`logs-store.ts:64-96`), and of an action-graph batch only
  the last row of each table (`action-graph-processor.ts:903-1155`). The same
  pattern is in `ai-store/calls.ts:16-46`, `ai-store/evaluations.ts:19`,
  `metrics-store.ts:87`, `:94` and `:276`, `ai-span-payloads-processor.ts:127` and
  `profile-routes.ts:217`; the span and usage stores prepare per row. This is
  `SharedStatement`: with `TRUE`, TLC refutes `ImplementsAtLeastOnce` on a log
  request of two records, and `StoredSpansGraphed` and `CausesResolve`, without
  their premise, on a batch of two actions.
* A request outside any interaction "carries no header" (`interaction.ts:27-30`),
  but an XMLHttpRequest that was opened in an interaction before and is opened
  again outside one keeps the earlier context, and `patchedSend` sends it
  (`auto-correlate.ts:185`). `XhrOpen` models this; no property speaks of it, since
  one that leaves the case out would only repeat the assignment.
* A rotation does not remove the once key from sessionStorage; the interaction is
  silent in every later session of the tab (`usage-tracker.ts:571`, against `:562`
  and `docs/archive/issues.md:363`).

Further behaviours seen in the models, which the provisos of the properties name:

* `markRan` and `releaseClaim` clear `last_started_at` whoever wrote it, so after
  an on-demand run, or a run that outlived its lease, a claim can be granted inside
  another worker's unexpired lease (`analyses-store.ts:212`; the comment at `:222`
  says otherwise). This is what `unguarded` records.
* `.finally(popInteraction)` pops without an id: of two overlapping async bodies
  the one that settles first takes the other's entry, and the rest of the other
  runs under the wrong id (`interaction.ts:178`, against `:163`). This is what
  `crossed` records.
* When a session rotates while recording, the old buffer is sent under the new
  id, ahead of the new session's snapshot (`usage-tracker.ts:442`, against `:240`).
* A page view that itself rotates the session forgets the path it has just
  noted, so the same view can be sent again (`usage-tracker.ts:199`). This is the
  exception in `PageViewOnce`.
* The cleanup statements of `deleteRule` carry no project: a DELETE that matches
  no row still wipes the state of the rule with that id (`alerts-store.ts:225`).
  Such rules are `disturbed`.
* The collector answers a failed write with a retryable 503, and no exporter looks
  at the status: only a fetch that throws is sent again (`logger.ts:101`). The 503
  does not mean that nothing was stored: the answer to `COMMIT` may be lost
  (`sql-db-postgres.ts:86-90`), or code behind the write throw
  (`otlp-receiver.ts:88-92`). An exporter that retried on it would store log records
  twice; `CopiesBounded` shows that this one does not.
* Logs are stored again when a batch is retried after a timeout; spans are not
  (`store/ingest.ts:15`). `rows` counts the copies in `Delivery`.
* A failed span batch is put back with what arrived meanwhile; the merged payload can
  exceed the receiver's 500 spans, and what exceeds it is answered 200 with a
  partial success nobody reads (`span.ts:111`, `otlp-receiver.ts:56`).
* The cleanup lists at most 500 expired profiles and then deletes the rows of all of
  them; ignores failed blob deletions; and evaluates "now" a second time in the
  DELETE. Each leaves blobs no cleanup will find (`framework/collector.ts:375`,
  `:379`, `:387`). `NoOrphans` excludes exactly these.
* On SQLite, ISO expiry times are compared with `datetime('now')`, which has a space
  in the place of the T: such rows live until the end of their day
  (`sql-db.ts:101`). Nothing goes early, as `NeverEarly` shows.
* A failed graph write is only logged and never repeated, since the spans are stored
  all the same (`action-graph-processor.ts:1160`). The graph properties exclude it.
* A cause is derived from the parent span's id even when that span states an action id
  of its own, and then names no action (`action-identity.ts:88`); `CausesResolve`
  excludes it, and spans of one trace that state the same id and overwrite each
  other's row (`action-graph-processor.ts:910`).
* A run's total is that of the batch that arrived last: delivered again without its
  children, a run falls back to what it reports itself
  (`action-graph-processor.ts:851`).
* `updateRule` reads, merges and writes all columns in two statements: of two
  concurrent PATCHes of different fields one is lost (`alerts-store.ts:175`).
* A webhook that fails is noted in the evaluation and never sent again
  (`alerts-evaluator.ts:195`).
* An `initSpanExporter` between a shutdown and its return is undone by it
  (`span.ts:60`).
* A cleanup function of the installer called twice counts down twice
  (`auto-correlate.ts:292`); the model lets each be called once.
* A publish request waits as long as one client neither reads nor leaves
  (`tail-hub.ts:152`), and a broadcast can overtake another at a subscriber that
  aborted. These are the exceptions in `PublishReturns` and `InOrder`.
* A result posted before its run is created is stored and not counted until the next
  post of that run (`eval-cases-routes.ts:409`).

## 7. What is not modelled

* Data: SQL text of the rules' and analyses' queries, record and span contents,
  OTLP and pprof decoding, normalisation, redaction, response shapes.
* Within the modelled parts: ask-evidence rows and list routes of the analyses;
  clock synchronisation, `identify`, blocked storage and event contents of the
  usage tracker; whether a webhook was delivered (the code makes no promise).
* Session replay storage: a chunk is put under a key of its own and one metadata row
  is upserted per session; the delete route removes chunks, then the row. An upload
  that interleaves leaves one without the other, and nothing in the source says which
  of the two is allowed, so there is no property to check. The hourly cleanup does
  not touch replays.
* The usage, metric, AI and identity receivers: one validated batch insert each, of
  the shape `Receiver` has.
* Dashboard authentication: signed cookies that are checked without state, and a cache
  of project ids that is replaced as a whole.
* Read-only routes, dashboard, MCP server, CLI, templates and framework adapters
  have no state of their own worth a model; SQL and blob adapters enter as the
  atomicity of one statement or batch, and as `SharedStatement`. The hourly cleanup
  runs on the Worker only (`apps/collector/src/index.ts:123`): on Postgres its
  comparison of a TEXT column with CURRENT_TIMESTAMP would be an error. Together with generated protobuf code, seed scripts and
  the building of records and responses they are by far the larger part of the
  repository's lines, which is why the models map to a small share of them.
* The components listed as `not_modelled` in `PROJECT.json`, each with its reason.
