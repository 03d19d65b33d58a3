---------------------------- MODULE ActionGraph -----------------------------
(***************************************************************************)
(* The trace receiver with its action-graph processor                      *)
(* (action-graph-processor.ts, action-identity.ts), composed: spans of one *)
(* trace arrive in batches, in any order, split, merged and repeated by    *)
(* the exporters' retries, in several requests at a time.  The processor   *)
(* turns the action spans of a batch into rows of the graph and writes     *)
(* them in one batch of upserts; when that fails it only logs, and the     *)
(* request goes on to store its spans.  An agent run gets its total cost   *)
(* from the actions that happen to be in the same batch.                   *)
(*                                                                         *)
(* The processor prepares one statement per table and binds it once per    *)
(* record.  On D1 each bind makes a statement of its own; on Postgres they *)
(* are one object, and the batch runs with the last record of each table.  *)
(***************************************************************************)
EXTENDS Integers, Sequences, FiniteSets, FiniteSetsExt

CONSTANTS
    Spans,          \* the spans of a trace
    Kind,           \* what a span's attributes say it is: a "run", a "step" or "plain"
    Parts,          \* the detail tables each span has attributes for
    StatedId,       \* the valid obs.action.id a span carries, or None
    AgentIds,       \* spans that carry an agent id
    RunOf,          \* the span whose action id is this one's agent run id, or None
    RootOf,         \* the span whose action id it states as its root, or None
    Parent,         \* the parent span, or None, also when it states a null cause
    Cause,          \* the span whose action id it states as its cause, or None
    Cost,           \* total cost attribute of each span
    Batches,        \* sequences of spans a request can carry
    Requests, MaxPerRequest, MaxStoreFaults,  \* as in Receiver
    MaxPosts,       \* bound: requests
    MaxGraphFaults, \* bound: graph batches that fail
    SharedStatement, \* the statements of a table are one object, on Postgres
    None            \* no span, no id

ASSUME ActionGraphAssumption ==
    /\ IsFiniteSet(Spans)
    /\ Kind \in [Spans -> {"run", "step", "plain"}]
    /\ Parts \in [Spans -> SUBSET {"tool_calls", "retrieval_events", "eval_results", "artifacts"}]
    /\ AgentIds \subseteq Spans /\ DOMAIN StatedId = Spans
    /\ SharedStatement \in BOOLEAN
    /\ None \notin Spans
    /\ {RunOf, RootOf, Parent, Cause} \subseteq [Spans -> Spans \cup {None}]
    /\ Cost \in [Spans -> Nat]
    /\ \A batch \in Batches :  \* an exporter buffers a span once
        batch \in Seq(Spans) /\ \A m, n \in DOMAIN batch : m # n => batch[m] # batch[n]
    /\ MaxPerRequest \in Nat \ {0} /\ MaxStoreFaults \in Nat
    /\ MaxPosts \in Nat /\ MaxGraphFaults \in Nat

VARIABLES
    handler, rows, storeFaults,  \* the receiver
    posts,        \* requests so far
    processed,    \* handlers whose processors have run
    actions,      \* rows of actions, by id: their span, root and cause
    runs,         \* rows of agent_runs, by id: the total cost
    details,      \* rows of the detail tables: table and span
    graphFaults   \* failed graph batches so far

receiver == <<handler, rows, storeFaults>>
graph == <<actions, runs, details>>
vars == <<receiver, posts, processed, graph, graphFaults>>

\* The span store prepares a statement for every span, on either host.
R == INSTANCE Receiver
    WITH Items <- Spans, Idempotent <- TRUE, SharedStatement <- FALSE

NoRows == [id \in {} |-> 0]

Init ==
    /\ R!ReceiverInit
    /\ posts = 0
    /\ processed = {}
    /\ actions = NoRows /\ runs = NoRows /\ details = {}
    /\ graphFaults = 0

-----------------------------------------------------------------------------
Content(batch) == {batch[n] : n \in DOMAIN batch}

\* Spans without any action attribute pass through.
IsActionSpan(s) == Kind[s] # "plain"

\* The id the span states, else one derived from project, trace and span.
ActionId(s) ==
    IF StatedId[s] # None THEN <<"explicit", StatedId[s]>> ELSE <<"derived", s>>

\* An action that says it is a run or names its agent.
IsAgentRun(s) == IsActionSpan(s) /\ (Kind[s] = "run" \/ s \in AgentIds)

NoAction == <<"none">>

\* The run a span belongs to: the one it names, or itself.
AgentRunId(s) ==
    CASE RunOf[s] # None -> ActionId(RunOf[s])
      [] RunOf[s] = None /\ Kind[s] = "run" -> ActionId(s)
      [] OTHER -> NoAction

\* The root: the stated one, the run, or an id derived from the trace.
RootActionId(s) ==
    CASE RootOf[s] # None -> ActionId(RootOf[s])
      [] RootOf[s] = None /\ AgentRunId(s) # NoAction -> AgentRunId(s)
      [] OTHER -> <<"trace">>

\* Mutant of CausedByActionId: derived from the trace, as the root is.
CausedByActionIdTrace(s) == IF Cause[s] = None THEN <<"trace">> ELSE ActionId(Cause[s])

\* The cause: the action it states, else the id derived from its parent span,
\* whatever id that span states for itself.
CausedByActionId(s) ==
    CASE Cause[s] # None -> ActionId(Cause[s])
      [] Cause[s] = None /\ Parent[s] # None -> <<"derived", Parent[s]>>
      [] OTHER -> NoAction

\* The actions of a batch that count towards run r, r aside.
ChildActions(r, batch) ==
    {s \in Content(batch) :
        /\ IsActionSpan(s) /\ ActionId(s) # ActionId(r)
        /\ RootActionId(s) = ActionId(r) \/ AgentRunId(s) = ActionId(r)}

CostOf(spans) == MapThenSumSet(LAMBDA s : Cost[s], spans)

LargerOf(a, b) == IF a > b THEN a ELSE b

\* Mutant of RunTotal: children are added to what the row held before.
RunTotalSummed(r, batch) ==
    CostOf(ChildActions(r, batch))
        + (IF ActionId(r) \in DOMAIN runs THEN runs[ActionId(r)] ELSE Cost[r])

\* total_cost_usd of run r in this batch.
RunTotal(r, batch) == LargerOf(Cost[r], CostOf(ChildActions(r, batch)))

\* f with the entries of g put in place of its own.
Upsert(f, g) == [x \in DOMAIN f \cup DOMAIN g |-> IF x \in DOMAIN g THEN g[x] ELSE f[x]]

-----------------------------------------------------------------------------
\* The records of a batch, each a table and the span it is made from.
Bound(batch) ==
    LET actionSpans == {s \in Content(batch) : IsActionSpan(s)}
        found == {s \in actionSpans : IsAgentRun(s)}
    IN  ({"actions"} \X actionSpans) \cup ({"agent_runs"} \X found)
            \cup UNION {Parts[s] \X {s} : s \in actionSpans}

\* The id of a record's row: a detail row has its span's.
RowId(x) == IF x[1] \in {"actions", "agent_runs"} THEN ActionId(x[2]) ELSE x[2]

\* Two records of which the batch writes only the one bound last: they go to one
\* row, or have one statement.
Clash(x, y) == x[1] = y[1] /\ (SharedStatement \/ RowId(x) = RowId(y))

\* The records the batch writes: of those that clash the last bound, and which
\* that is depends on how the awaits for each span come out (Promise.all).
Written(batch) ==
    LET rivals == {x \in Bound(batch) : \E y \in Bound(batch) \ {x} : Clash(x, y)} IN
    {(Bound(batch) \ rivals) \cup last : last \in
        {k \in SUBSET rivals : \A x \in rivals : \E y \in k : \A z \in k : Clash(x, z) <=> z = y}}

\* The spans whose record of a table is among those written.
Of(table, written) == {x[2] : x \in {x \in written : x[1] = table}}

\* The rows written, by id.
ActionRows(spans) ==
    [id \in {ActionId(s) : s \in spans} |->
        LET s == CHOOSE s \in spans : ActionId(s) = id IN
        [span |-> s, root |-> RootActionId(s), cause |-> CausedByActionId(s)]]

\* A run's total counts the whole batch, whatever of it is written.
RunRows(found, batch) ==
    [id \in {ActionId(r) : r \in found} |->
        RunTotal(CHOOSE r \in found : ActionId(r) = id, batch)]

\* Tool calls, retrievals, evaluations and artifacts, each under its span's id.
DetailRows(written) == {x \in written : x[1] \notin {"actions", "agent_runs"}}

\* Mutant of WriteGraph: nothing is written for a batch without a run.
WriteGraphOfRuns(batch) ==
    \E written \in Written(batch) :
        IF Of("agent_runs", written) # {}
        THEN /\ actions' = Upsert(actions, ActionRows(Of("actions", written)))
             /\ runs' = Upsert(runs, RunRows(Of("agent_runs", written), batch))
             /\ details' = details \cup DetailRows(written)
        ELSE UNCHANGED graph

\* The batch of upserts, all or nothing.
WriteGraph(batch) ==
    \E written \in Written(batch) :
        /\ actions' = Upsert(actions, ActionRows(Of("actions", written)))
        /\ runs' = Upsert(runs, RunRows(Of("agent_runs", written), batch))
        /\ details' = details \cup DetailRows(written)

-----------------------------------------------------------------------------
\* POST /v1/traces up to the processors.
Post(q, batch) ==
    /\ posts < MaxPosts
    /\ posts' = posts + 1
    /\ R!Receive(q, batch)
    /\ UNCHANGED <<processed, graph, graphFaults>>

\* runSpanProcessors: the action graph is written.
Process(q) ==
    /\ handler[q].pc = "store" /\ q \notin processed
    /\ processed' = processed \cup {q}
    /\ WriteGraph(handler[q].batch)
    /\ UNCHANGED <<receiver, posts, graphFaults>>

\* The graph batch throws, without effect or once it has taken effect: logged,
\* and the spans are stored all the same.
ProcessFails(q) ==
    /\ handler[q].pc = "store" /\ q \notin processed
    /\ graphFaults < MaxGraphFaults
    /\ graphFaults' = graphFaults + 1
    /\ processed' = processed \cup {q}
    /\ WriteGraph(handler[q].batch) \/ UNCHANGED graph
    /\ UNCHANGED <<receiver, posts>>

\* The spans are stored, or the request will be answered 503.
Ingest(q) ==
    /\ q \in processed
    /\ R!Store(q) \/ R!StoreFails(q)
    /\ UNCHANGED <<posts, processed, graph, graphFaults>>

Answer(q) ==
    /\ R!Respond(q)
    /\ processed' = processed \ {q}
    /\ UNCHANGED <<posts, graph, graphFaults>>

Next ==
    \E q \in Requests :
        \/ \E batch \in Batches : Post(q, batch)
        \/ Process(q) \/ ProcessFails(q) \/ Ingest(q) \/ Answer(q)

Spec == Init /\ [][Next]_vars

-----------------------------------------------------------------------------
\* Every run has its action where all records of a batch are written.
TypeOK ==
    /\ rows \in [Spans -> 0..1]
    /\ storeFaults \in 0..MaxStoreFaults /\ graphFaults \in 0..MaxGraphFaults
    /\ posts \in 0..MaxPosts
    /\ \A q \in Requests :
        /\ handler[q].pc \in {"idle", "store", "ok", "unavailable"}
        /\ Len(handler[q].batch) <= MaxPerRequest
        /\ q \in processed => handler[q].pc # "idle"
    /\ SharedStatement \/ DOMAIN runs \subseteq DOMAIN actions
    /\ \A d \in details : d[1] \in Parts[d[2]]

\* The children of a run in the whole trace, whatever batches they come in.
AllChildren(r) ==
    {s \in Spans : /\ IsActionSpan(s) /\ ActionId(s) # ActionId(r)
                   /\ ActionId(r) \in {AgentRunId(s), RootActionId(s)}}

\* A run's total never exceeds what the run and its actions cost, and is never
\* below what the run reports: deliveries repeated, split or merged by retries
\* count no action twice.  The run is the one that wrote the row, as several may
\* state one id.
RunTotalsBounded ==
    \A id \in DOMAIN runs : \E r \in Spans :
        /\ IsAgentRun(r) /\ ActionId(r) = id
        /\ Cost[r] <= runs[id]
        /\ runs[id] <= LargerOf(Cost[r], CostOf(AllChildren(r)))

\* Every stored action span is in the graph, with its detail rows and, for a run,
\* its run row, unless a graph batch failed: the graph is written before the
\* spans are.  This holds on D1; on Postgres a batch of two actions refutes it.
StoredSpansGraphed ==
    ~SharedStatement /\ graphFaults = 0 =>
        \A s \in Spans : rows[s] > 0 /\ IsActionSpan(s) =>
            /\ ActionId(s) \in DOMAIN actions
            /\ Parts[s] \X {s} \subseteq details
            /\ IsAgentRun(s) => ActionId(s) \in DOMAIN runs

\* No other span of the trace states the id of s.
Alone(s) == \A t \in Spans : ActionId(t) = ActionId(s) => t = s

\* Parent and child are linked whichever arrives first and in whatever batches:
\* when both are stored, the child's cause is a row of the graph, the parent's,
\* unless the parent states an id of its own and the child does not name it, or
\* another span states the id of one of them and takes its row.
CausesResolve ==
    ~SharedStatement /\ graphFaults = 0 =>
        \A s \in Spans : LET p == Parent[s] IN
            /\ p # None /\ IsActionSpan(s) /\ Alone(s)
            /\ rows[s] > 0 /\ IsActionSpan(p) /\ rows[p] > 0 /\ Alone(p)
            /\ Cause[s] = p \/ (Cause[s] = None /\ StatedId[p] = None)
            => /\ actions[ActionId(s)].cause \in DOMAIN actions
               /\ actions[actions[ActionId(s)].cause].span = p
=============================================================================
