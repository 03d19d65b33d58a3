------------------------------ MODULE Analyses ------------------------------
(***************************************************************************)
(* The analyses scheduler of the collector: the rows of                    *)
(* analysis_definitions and analysis_results, the cron ticks that run the  *)
(* due analyses (runAllDueAnalyses), the workers inside a tick that share  *)
(* one queue, and the on-demand POST /internal/analyses/:id/run handler.   *)
(*                                                                         *)
(* Every await of the code is a boundary between two actions, so a tick,   *)
(* its workers, other ticks and on-demand requests interleave there.  One  *)
(* global clock `now` stands for Date.now() on every machine.              *)
(***************************************************************************)
EXTENDS Integers, FiniteSets

CONSTANTS
    Analyses,       \* analysis ids the in-process registry can produce
    Scheduled,      \* those with refresh_seconds IS NOT NULL
    PageViews,      \* those with view = "page" (on-demand runs allowed)
    LlmConfigured,  \* an LLM api key is set (BOOLEAN)
    Ticks,          \* slots for concurrently running scheduled handlers
    Workers,        \* the CONCURRENCY workers of one tick
    Requests,       \* slots for concurrent on-demand requests
    Refresh,        \* refresh_seconds of a scheduled analysis
    Lease,          \* CLAIM_LEASE_MS
    Retention,      \* retentionHours
    StartTime,      \* Date.now() when the system starts
    MaxTime,        \* bound: the clock stops here
    MaxFaults,      \* bound: failed statements plus crashes
    NULL

ASSUME AnalysesAssumption ==
    /\ Scheduled \subseteq Analyses
    /\ PageViews \subseteq Analyses
    /\ LlmConfigured \in BOOLEAN
    /\ Refresh \in Nat /\ Lease \in Nat /\ Retention \in Nat
    /\ StartTime \in Nat /\ MaxTime \in Nat /\ MaxFaults \in Nat
    /\ StartTime > Refresh  \* the epoch is far longer ago than any refresh window
    /\ NULL \notin Nat
    /\ NULL \notin Analyses

VARIABLES
    now,        \* Date.now()
    defs,       \* ids with a row in analysis_definitions
    lastRun,    \* column last_run_at
    lastStart,  \* column last_started_at: the lease
    results,    \* rows of analysis_results, per analysis
    tick,       \* scheduled handlers in flight
    work,       \* their workers
    req,        \* on-demand requests in flight
    faults,     \* failed statements and crashes so far (bounded by MaxFaults)
    inserted,   \* history: generated_at of every result ever inserted
    unguarded   \* history: analyses whose lease was outlived by its holder or
                \*          cleared by an on-demand run

store == <<defs, lastRun, lastStart, results>>
vars  == <<now, defs, lastRun, lastStart, results, tick, work, req, faults,
           inserted, unguarded>>

Time   == Nat
Narratives == {"none", "written"}  \* column narrative: NULL or some text
Procs  == Ticks \X Workers

\* A worker that holds a claim and has not given it up yet.
Holding == {"sql", "insert", "mark", "release"}
Active(p, a) == work[p].pc \in Holding /\ work[p].a = a

Off == [pc |-> "off", a |-> NULL, at |-> NULL, gen |-> NULL, text |-> "none"]
IdleTick == [pc |-> "idle", now |-> NULL, todo |-> {}, queue |-> {}]
IdleReq  == [pc |-> "idle", a |-> NULL, gen |-> NULL, exp |-> NULL]

Init ==
    /\ now = StartTime
    /\ defs = {}
    /\ lastRun = [a \in Analyses |-> NULL]
    /\ lastStart = [a \in Analyses |-> NULL]
    /\ results = [a \in Analyses |-> {}]
    /\ tick = [t \in Ticks |-> IdleTick]
    /\ work = [p \in Procs |-> Off]
    /\ req = [r \in Requests |-> IdleReq]
    /\ faults = 0
    /\ inserted = [a \in Analyses |-> {}]
    /\ unguarded = {}

-----------------------------------------------------------------------------
(* The statements of AnalysesStore.                                        *)

Fault == faults < MaxFaults /\ faults' = faults + 1

\* rowToDefinition: analysis_definitions has no column for the narrate spec,
\* so a definition read back from the store never carries one.
RowToDefinition(a) == [id |-> a, narrate |-> FALSE]

\* Mutant of IsDue: a NULL last_run_at compares as unknown, as it would in SQL.
IsDueNullUnknown(a, at) ==
    a \in defs \cap Scheduled /\ lastRun[a] # NULL /\ lastRun[a] + Refresh < at

\* getDueAnalyses for one row: last_run_at NULL counts as epoch 0.
IsDue(a, at) ==
    /\ a \in defs \cap Scheduled
    /\ (IF lastRun[a] = NULL THEN 0 ELSE lastRun[a]) + Refresh < at

GetDueAnalyses(at) == {a \in Analyses : IsDue(a, at)}

\* Mutants of LeaseFree: the WHERE clause dropped; the expiry arm dropped.
LeaseFreeUnchecked(a, at) == TRUE
LeaseFreeNoExpiry(a, at) == lastStart[a] = NULL

\* WHERE clause of claimAnalysis's UPDATE; `at` is the caller's Date.now().
LeaseFree(a, at) ==
    \/ lastStart[a] = NULL
    \/ lastStart[a] # NULL /\ lastStart[a] < at - Lease

MarkRan(a, ranAt) ==
    /\ lastRun' = [lastRun EXCEPT ![a] = ranAt]
    /\ lastStart' = [lastStart EXCEPT ![a] = NULL]

ReleaseClaim(a) ==
    /\ lastStart' = [lastStart EXCEPT ![a] = NULL]
    /\ UNCHANGED lastRun

InsertResult(a, gen, exp, text) ==
    /\ results' = [results EXCEPT ![a] = @ \cup {[gen |-> gen, exp |-> exp, text |-> text]}]
    /\ inserted' = [inserted EXCEPT ![a] = @ \cup {gen}]

-----------------------------------------------------------------------------
(* runAllDueAnalyses: one scheduled handler.                               *)

\* The cron fires: `now` is read once, and the registry produces some set of
\* definitions (none when loading it throws).
StartTick(t) ==
    /\ tick[t].pc = "idle"
    /\ \E S \in SUBSET Analyses :
         tick' = [tick EXCEPT ![t] = [pc |-> "refresh", now |-> now, todo |-> S, queue |-> {}]]
    /\ UNCHANGED <<now, store, work, req, faults, inserted, unguarded>>

\* One upsertDefinition of the loop.  A conflict keeps last_run_at and
\* last_started_at, so only the existence of the row can change.
Upsert(t, a) ==
    /\ tick[t].pc = "refresh" /\ a \in tick[t].todo
    /\ defs' = defs \cup {a}
    /\ tick' = [tick EXCEPT ![t].todo = @ \ {a}]
    /\ UNCHANGED <<now, lastRun, lastStart, results, work, req, faults, inserted, unguarded>>

\* upsertDefinition throws: logged, and the loop goes on.
UpsertFails(t, a) ==
    /\ tick[t].pc = "refresh" /\ a \in tick[t].todo
    /\ Fault
    /\ tick' = [tick EXCEPT ![t].todo = @ \ {a}]
    /\ UNCHANGED <<now, store, work, req, inserted, unguarded>>

\* getDueAnalyses against the tick's own `now`; nothing due ends the tick,
\* otherwise the workers are started on a queue of the due definitions.
GetDue(t) ==
    /\ tick[t].pc = "refresh" /\ tick[t].todo = {}
    /\ LET due == GetDueAnalyses(tick[t].now) IN
         IF due = {}
         THEN tick' = [tick EXCEPT ![t] = IdleTick] /\ UNCHANGED work
         ELSE /\ tick' = [tick EXCEPT ![t] = [pc |-> "run", now |-> tick[t].now, todo |-> {}, queue |-> due]]
              /\ work' = [p \in Procs |-> IF p[1] = t THEN [Off EXCEPT !.pc = "pick"] ELSE work[p]]
    /\ UNCHANGED <<now, store, req, faults, inserted, unguarded>>

\* queue.shift() and the Date.now() passed to claimAnalysis.  The SELECT has
\* no ORDER BY, so the queue is in any order.
Shift(p, a) ==
    /\ work[p].pc = "pick" /\ a \in tick[p[1]].queue
    /\ tick' = [tick EXCEPT ![p[1]].queue = @ \ {a}]
    /\ work' = [work EXCEPT ![p] = [Off EXCEPT !.pc = "claim", !.a = a, !.at = now]]
    /\ UNCHANGED <<now, store, req, faults, inserted, unguarded>>

\* The UPDATE of claimAnalysis takes effect.  The lease counts from the
\* Date.now() read before the call, so it may be granted already outlived.
Claim(p) ==
    /\ work[p].pc = "claim"
    /\ LeaseFree(work[p].a, work[p].at)
    /\ lastStart' = [lastStart EXCEPT ![work[p].a] = work[p].at]
    /\ work' = [work EXCEPT ![p].pc = "sql"]
    /\ unguarded' = IF work[p].at + Lease < now THEN unguarded \cup {work[p].a} ELSE unguarded
    /\ UNCHANGED <<now, defs, lastRun, results, tick, req, faults, inserted>>

\* meta.changes = 0: skipped, the worker takes the next definition.
Skip(p) ==
    /\ work[p].pc = "claim"
    /\ ~LeaseFree(work[p].a, work[p].at)
    /\ work' = [work EXCEPT ![p] = [Off EXCEPT !.pc = "pick"]]
    /\ UNCHANGED <<now, store, tick, req, faults, inserted, unguarded>>

\* claimAnalysis throws outside the try block: the worker's promise rejects.
ClaimFails(p) ==
    /\ work[p].pc = "claim"
    /\ Fault
    /\ work' = [work EXCEPT ![p] = Off]
    /\ UNCHANGED <<now, store, tick, req, inserted, unguarded>>

\* Mutants of RunSql: generated_at taken from the start of the run; the result
\* left without generated_at; the result marked before it is inserted.
RunSqlStartedAt(p) ==
    /\ work[p].pc = "sql"
    /\ work' = [work EXCEPT ![p].pc = "insert", ![p].gen = work[p].at]
    /\ UNCHANGED <<now, store, tick, req, faults, inserted, unguarded>>
RunSqlNoTimestamp(p) ==
    /\ work[p].pc = "sql"
    /\ work' = [work EXCEPT ![p].pc = "insert"]
    /\ UNCHANGED <<now, store, tick, req, faults, inserted, unguarded>>
RunSqlMarkFirst(p) ==
    /\ work[p].pc = "sql"
    /\ work' = [work EXCEPT ![p].pc = "mark", ![p].gen = now]
    /\ UNCHANGED <<now, store, tick, req, faults, inserted, unguarded>>

\* runSqlAnalysis, with generated_at read after the query, then the narrate
\* pass, which runs only for a definition that carries a narrate spec.
RunSql(p) ==
    /\ work[p].pc = "sql"
    /\ work' = [work EXCEPT ![p] =
                  [pc |-> "insert", a |-> work[p].a, at |-> work[p].at, gen |-> now,
                   text |-> IF RowToDefinition(work[p].a).narrate /\ LlmConfigured
                            THEN "written" ELSE "none"]]
    /\ UNCHANGED <<now, store, tick, req, faults, inserted, unguarded>>

Insert(p) ==
    /\ work[p].pc = "insert"
    /\ InsertResult(work[p].a, work[p].gen, tick[p[1]].now + Retention, work[p].text)
    /\ work' = [work EXCEPT ![p].pc = "mark"]
    /\ UNCHANGED <<now, defs, lastRun, lastStart, tick, req, faults, unguarded>>

\* Mutant of Mark: the claim is given up and last_run_at stays as it is.
MarkReleases(p) ==
    /\ work[p].pc = "mark"
    /\ ReleaseClaim(work[p].a)
    /\ work' = [work EXCEPT ![p] = [Off EXCEPT !.pc = "pick"]]
    /\ UNCHANGED <<now, defs, results, tick, req, faults, inserted, unguarded>>

Mark(p) ==
    /\ work[p].pc = "mark"
    /\ MarkRan(work[p].a, work[p].gen)
    /\ work' = [work EXCEPT ![p] = [Off EXCEPT !.pc = "pick"]]
    /\ UNCHANGED <<now, defs, results, tick, req, faults, inserted, unguarded>>

\* The query, insertResult or markRan throws: the catch block is entered.
RunFails(p) ==
    /\ work[p].pc \in {"sql", "insert", "mark"}
    /\ Fault
    /\ work' = [work EXCEPT ![p].pc = "release"]
    /\ UNCHANGED <<now, store, tick, req, inserted, unguarded>>

Release(p) ==
    /\ work[p].pc = "release"
    /\ ReleaseClaim(work[p].a)
    /\ work' = [work EXCEPT ![p] = [Off EXCEPT !.pc = "pick"]]
    /\ UNCHANGED <<now, defs, results, tick, req, faults, inserted, unguarded>>

\* releaseClaim throws inside the catch block: the worker's promise rejects
\* and the lease stays until it expires.
ReleaseFails(p) ==
    /\ work[p].pc = "release"
    /\ Fault
    /\ work' = [work EXCEPT ![p] = Off]
    /\ UNCHANGED <<now, store, tick, req, inserted, unguarded>>

\* while (queue.length > 0) falls through.
WorkerDone(p) ==
    /\ work[p].pc = "pick" /\ tick[p[1]].queue = {}
    /\ work' = [work EXCEPT ![p] = Off]
    /\ UNCHANGED <<now, store, tick, req, faults, inserted, unguarded>>

\* Promise.all(workers) settles.
TickDone(t) ==
    /\ tick[t].pc = "run"
    /\ \A p \in Procs : p[1] = t => work[p].pc = "off"
    /\ tick' = [tick EXCEPT ![t] = IdleTick]
    /\ UNCHANGED <<now, store, work, req, faults, inserted, unguarded>>

\* The runtime kills the handler (wall-time cap, deploy, crash): no cleanup.
Crash(t) ==
    /\ tick[t].pc # "idle"
    /\ Fault
    /\ tick' = [tick EXCEPT ![t] = IdleTick]
    /\ work' = [p \in Procs |-> IF p[1] = t THEN Off ELSE work[p]]
    /\ UNCHANGED <<now, store, req, inserted, unguarded>>

-----------------------------------------------------------------------------
(* POST /internal/analyses/:id/run: no claim is taken.                     *)

StartRequest(r, a) ==
    /\ req[r].pc = "idle"
    /\ a \in defs \cap PageViews
    /\ req' = [req EXCEPT ![r] = [pc |-> "sql", a |-> a, gen |-> NULL, exp |-> now + Retention]]
    /\ UNCHANGED <<now, store, tick, work, faults, inserted, unguarded>>

RequestSql(r) ==
    /\ req[r].pc = "sql"
    /\ req' = [req EXCEPT ![r].pc = "insert", ![r].gen = now]
    /\ UNCHANGED <<now, store, tick, work, faults, inserted, unguarded>>

RequestInsert(r) ==
    /\ req[r].pc = "insert"
    /\ InsertResult(req[r].a, req[r].gen, req[r].exp, "none")
    /\ req' = [req EXCEPT ![r].pc = "mark"]
    /\ UNCHANGED <<now, defs, lastRun, lastStart, tick, work, faults, unguarded>>

RequestMark(r) ==
    /\ req[r].pc = "mark"
    /\ MarkRan(req[r].a, req[r].gen)
    /\ unguarded' = unguarded \cup {req[r].a}
    /\ req' = [req EXCEPT ![r] = IdleReq]
    /\ UNCHANGED <<now, defs, results, tick, work, faults, inserted>>

\* Any await throws: 500, nothing is undone.
RequestFails(r) ==
    /\ req[r].pc # "idle"
    /\ Fault
    /\ req' = [req EXCEPT ![r] = IdleReq]
    /\ UNCHANGED <<now, store, tick, work, inserted, unguarded>>

-----------------------------------------------------------------------------
\* AnalysesStore.purgeExpired, from the retention cron.
PurgeExpired ==
    /\ \E a \in Analyses : \E x \in results[a] : x.exp <= now
    /\ results' = [a \in Analyses |-> {x \in results[a] : x.exp > now}]
    /\ UNCHANGED <<now, defs, lastRun, lastStart, tick, work, req, faults, inserted, unguarded>>

\* Time passes.  The history records the analyses whose holder outlives its lease.
Advance ==
    /\ now < MaxTime
    /\ now' = now + 1
    /\ unguarded' = unguarded \cup
         {a \in Analyses : \E p \in Procs : Active(p, a) /\ work[p].at + Lease < now + 1}
    /\ UNCHANGED <<store, tick, work, req, faults, inserted>>

TickStep(t) ==
    \/ StartTick(t) \/ GetDue(t) \/ TickDone(t)
    \/ \E a \in Analyses : Upsert(t, a)

WorkerStep(p) ==
    \/ \E a \in Analyses : Shift(p, a)
    \/ Claim(p) \/ Skip(p) \/ RunSql(p) \/ Insert(p) \/ Mark(p) \/ Release(p)
    \/ WorkerDone(p)

RequestStep(r) == RequestSql(r) \/ RequestInsert(r) \/ RequestMark(r)

Failure ==
    \/ \E t \in Ticks : Crash(t) \/ \E a \in Analyses : UpsertFails(t, a)
    \/ \E p \in Procs : ClaimFails(p) \/ RunFails(p) \/ ReleaseFails(p)
    \/ \E r \in Requests : RequestFails(r)

Next ==
    \/ \E t \in Ticks : TickStep(t)
    \/ \E p \in Procs : WorkerStep(p)
    \/ \E r \in Requests : RequestStep(r) \/ \E a \in Analyses : StartRequest(r, a)
    \/ Failure
    \/ PurgeExpired
    \/ Advance

Spec == Init /\ [][Next]_vars

\* The cron keeps firing, every await settles and the clock runs; requests and
\* faults are never obliged to happen.
Fairness ==
    /\ WF_vars(Advance)
    /\ \A t \in Ticks : WF_vars(TickStep(t))
    /\ \A p \in Procs : WF_vars(WorkerStep(p))
    /\ \A r \in Requests : WF_vars(RequestStep(r))

FairSpec == Spec /\ Fairness
-----------------------------------------------------------------------------
(* Properties.                                                             *)

TimeOrNull == Time \cup {NULL}

StoreOK ==
    /\ now \in Time
    /\ defs \subseteq Analyses
    /\ lastRun \in [Analyses -> TimeOrNull]
    /\ lastStart \in [Analyses -> TimeOrNull]
    /\ results \in [Analyses -> SUBSET [gen : Time, exp : Time, text : Narratives]]
    /\ faults \in Nat
    /\ inserted \in [Analyses -> SUBSET Time]
    /\ unguarded \subseteq Analyses

TicksOK ==
    /\ tick \in [Ticks -> [pc : {"idle", "refresh", "run"}, now : TimeOrNull,
                           todo : SUBSET Analyses, queue : SUBSET Analyses]]
    /\ \A t \in Ticks : tick[t].pc # "idle" => tick[t].now \in Time
    /\ \A p \in Procs : work[p].pc # "off" => tick[p[1]].pc = "run"

WorkersOK ==
    /\ work \in [Procs -> [pc : {"off", "pick", "claim"} \cup Holding,
                           a : Analyses \cup {NULL}, at : TimeOrNull,
                           gen : TimeOrNull, text : Narratives]]
    /\ \A p \in Procs :
         /\ work[p].pc \in {"claim"} \cup Holding => work[p].a \in Analyses /\ work[p].at \in Time
         /\ work[p].pc \in {"insert", "mark"} => work[p].gen \in Time

RequestsOK ==
    /\ req \in [Requests -> [pc : {"idle", "sql", "insert", "mark"},
                             a : Analyses \cup {NULL}, gen : TimeOrNull, exp : TimeOrNull]]
    /\ \A r \in Requests :
         /\ req[r].pc # "idle" => req[r].a \in Analyses /\ req[r].exp \in Time
         /\ req[r].pc \in {"insert", "mark"} => req[r].gen \in Time

\* The columns and the handlers' local variables have their types, and a
\* handler that is about to use `gen`, `at` or the id has really set it.
TypeOK == StoreOK /\ TicksOK /\ WorkersOK /\ RequestsOK

\* claimAnalysis (analyses-store.ts:229) keeps overlapping ticks off one
\* analysis: as long as no run outlives the lease and no on-demand run clears
\* it, at most one worker of all ticks is between its claim and its release,
\* through every failed statement, killed tick and stale claim timestamp.
ExclusiveRun ==
    \A a \in Analyses \ unguarded : \A p, q \in Procs :
        Active(p, a) /\ Active(q, a) => p = q

\* last_run_at always names the generated_at of a result that was stored: the
\* insert precedes markRan on both paths, so a crash between them reruns the
\* analysis and never marks a run whose row is missing.
RanOnlyAfterResult ==
    \A a \in Analyses : lastRun[a] # NULL => lastRun[a] \in inserted[a]

LastRunStep ==
    \A a \in Analyses \ unguarded' :
        lastRun[a] # NULL => lastRun'[a] # NULL /\ lastRun'[a] >= lastRun[a]

\* last_run_at never moves back to an older run while the lease guards the
\* analysis, although claims carry a Date.now() read before the UPDATE.
LastRunForward == [][LastRunStep]_vars

\* A lease whose holder crashed, or failed to release it, is reclaimed by a
\* later tick ("a worker crash unblocks the row", analyses-runner.ts:374):
\* no lease lasts forever.  The premises only keep the lease's expiry and the
\* next due time inside the clock's bound.
LeaseReclaimed ==
    \A a \in Scheduled : \A s \in StartTime..MaxTime :
        (lastStart[a] = s /\ s + Lease < MaxTime /\ IsDue(a, MaxTime)) ~> (lastStart[a] # s)

\* A fault has left a lease that no worker holds and that expires only after the
\* clock's bound.
Stranded(a) ==
    /\ lastStart[a] # NULL /\ lastStart[a] + Lease >= MaxTime
    /\ \A p \in Procs : ~Active(p, a)

\* A registered analysis that never ran is eventually run and marked, whatever
\* finitely many faults happen.  A claim, a run or a stored result is not enough,
\* early or late: the only excuse is a lease that is stranded for good, which is
\* the clock's bound and not the code's doing.
FirstRunHappens ==
    \A a \in Scheduled : (a \in defs) ~> (lastRun[a] # NULL \/ []Stranded(a))
=============================================================================
