------------------------------- MODULE Alerts -------------------------------
(***************************************************************************)
(* Alert rules: the cron evaluator (alerts-evaluator.ts), the tables it    *)
(* works on (alerts-store.ts, migrations 012-014) and the rule routes      *)
(* (alerts-routes.ts).                                                     *)
(*                                                                         *)
(* Ticks may overlap: with five workers and up to 15 s a rule, a hundred   *)
(* slow rules outlast the five minutes between two ticks.  Every await is  *)
(* a step boundary.  alert_state and alert_evaluations reference           *)
(* alert_rules by a foreign key, which D1 and Postgres enforce: an insert  *)
(* for a missing rule throws, and so does the delete of a rule that still  *)
(* has rows there.                                                         *)
(***************************************************************************)
EXTENDS Integers, FiniteSets

CONSTANTS
    Rules,        \* rule ids; random, so never used again
    Ticks,        \* slots for concurrently running ticks
    Workers,      \* DEFAULT_RULE_CONCURRENCY
    Editors,      \* concurrent PATCH requests
    RuleInputs,   \* valid rules: [enabled, comparison, threshold]
    Patches,      \* PATCH bodies: some of the fields of a rule
    Values,       \* what a rule's query can count
    Stuck,        \* rules whose query never answers
    MaxFaults,    \* bound: store errors, timeouts and crashes
    MaxDeletes    \* bound: DELETE requests

Comparisons == {">", ">=", "<", "<="}
RuleRecs == [enabled : {"yes", "no"}, comparison : Comparisons, threshold : Int]

ASSUME AlertsAssumption ==
    /\ RuleInputs # {} /\ RuleInputs \subseteq RuleRecs
    /\ \A p \in Patches :
          /\ "enabled" \in DOMAIN p => p["enabled"] \in {"yes", "no"}
          /\ "comparison" \in DOMAIN p => p["comparison"] \in Comparisons
          /\ "threshold" \in DOMAIN p => p["threshold"] \in Int
    /\ Values \subseteq Int /\ Values # {}
    /\ Stuck \subseteq Rules
    /\ MaxFaults \in Nat /\ MaxDeletes \in Nat

VARIABLES
    row,        \* alert_rules: "new" before createRule, "there", "gone"
    rule,       \* alert_rules: the columns the evaluator reads
    state,      \* alert_state.current_state, "none" without a row
    evals,      \* alert_evaluations: "some" rows of the rule or "none"
    metric,     \* what the rule's query counts now
    tick,       \* "idle" or "run"
    todo,       \* items of a tick no worker has taken: rule id and snapshot
    job,        \* a worker's local variables and where it waits
    editor,     \* a PATCH request between its read and its write
    eraser,     \* a DELETE request: the statement it executes next
    faults, deletes,  \* bounded counters
    last,       \* history: the last notice sent about a rule, "ok" at first
    repeats,    \* history: rules that got the same notice twice in a row
    disturbed   \* history: rules with racing, failed or undone transitions

tables == <<row, rule, state, evals>>
requests == <<editor, eraser, deletes>>
vars == <<tables, metric, tick, todo, job, requests, faults, last, repeats, disturbed>>

Idle == [pc |-> "idle"]

Init ==
    /\ row = [r \in Rules |-> "new"]
    /\ rule = [r \in Rules |-> CHOOSE i \in RuleInputs : TRUE]
    /\ state = [r \in Rules |-> "none"]
    /\ evals = [r \in Rules |-> "none"]
    /\ metric \in [Rules -> Values]
    /\ tick = [t \in Ticks |-> "idle"]
    /\ todo = [t \in Ticks |-> {}]
    /\ job = [t \in Ticks |-> [w \in Workers |-> Idle]]
    /\ editor = [e \in Editors |-> Idle]
    /\ eraser = Idle
    /\ faults = 0 /\ deletes = 0
    /\ last = [r \in Rules |-> "ok"]
    /\ repeats = {} /\ disturbed = {}

-----------------------------------------------------------------------------
\* compareValue, and the state it asks for.
CompareValue(value, threshold, comparison) ==
    CASE comparison = ">"  -> value > threshold
      [] comparison = ">=" -> value >= threshold
      [] comparison = "<"  -> value < threshold
      [] comparison = "<=" -> value <= threshold

Wanted(value, i) == IF CompareValue(value, i.threshold, i.comparison) THEN "firing" ELSE "ok"

\* priorState?.current_state ?? "ok"
StateOf(r) == IF state[r] = "none" THEN "ok" ELSE state[r]

\* A worker decided to change the state of r and has not done so yet.
Changing(t, w, r) == job[t][w].pc \in {"notify", "transition"} /\ job[t][w].id = r
Contended(r) == \E t \in Ticks, w \in Workers : Changing(t, w, r)

SetJob(t, w, j) == job' = [job EXCEPT ![t] = [job[t] EXCEPT ![w] = j]]

-----------------------------------------------------------------------------
\* evaluateAllRules: listEnabledRules, whose rows come in no particular order.
StartTick(t) ==
    /\ tick[t] = "idle"
    /\ tick' = [tick EXCEPT ![t] = "run"]
    /\ todo' = [todo EXCEPT ![t] =
          {[id |-> r, rule |-> rule[r]] :
              r \in {q \in Rules : row[q] = "there" /\ rule[q].enabled = "yes"}}]
    /\ UNCHANGED <<tables, metric, job, requests, faults, last, repeats, disturbed>>

\* mapWithConcurrency: a free worker takes the next item.
Take(t, w) ==
    /\ tick[t] = "run" /\ job[t][w].pc = "idle"
    /\ \E item \in todo[t] :
          /\ todo' = [todo EXCEPT ![t] = todo[t] \ {item}]
          /\ SetJob(t, w, [pc |-> "evaluate", id |-> item.id, rule |-> item.rule])
    /\ UNCHANGED <<tables, metric, tick, requests, faults, last, repeats, disturbed>>

\* store.evaluateRule answers and compareValue decides.
Evaluate(t, w) ==
    LET j == job[t][w] IN
    /\ j.pc = "evaluate" /\ j.id \notin Stuck
    /\ SetJob(t, w, [pc |-> "getState", id |-> j.id, next |-> Wanted(metric[j.id], j.rule)])
    /\ UNCHANGED <<tables, metric, tick, todo, requests, faults, last, repeats, disturbed>>

\* Mutant of EvaluateTimeout: a query that never answers is awaited forever.
EvaluateAwaitsForever(t, w) ==
    /\ job[t][w].pc = "evaluate" /\ job[t][w].id \notin Stuck
    /\ faults < MaxFaults /\ faults' = faults + 1
    /\ SetJob(t, w, Idle)
    /\ UNCHANGED <<tables, metric, tick, todo, requests, last, repeats, disturbed>>

\* withTimeout rejects, or the query fails: logged, and on to the next rule.
EvaluateTimeout(t, w) ==
    /\ job[t][w].pc = "evaluate"
    /\ \/ job[t][w].id \in Stuck /\ UNCHANGED faults
       \/ faults < MaxFaults /\ faults' = faults + 1
    /\ SetJob(t, w, Idle)
    /\ UNCHANGED <<tables, metric, tick, todo, requests, last, repeats, disturbed>>

\* Mutant of GetState: notifies whenever the rule fires, not on the transition.
GetStateLevel(t, w) ==
    LET j == job[t][w] IN
    /\ j.pc = "getState"
    /\ SetJob(t, w, [j EXCEPT !.pc = IF j.next = "firing" \/ StateOf(j.id) # j.next
                                     THEN "notify" ELSE "record"])
    /\ disturbed' = IF Contended(j.id) THEN disturbed \cup {j.id} ELSE disturbed
    /\ UNCHANGED <<tables, metric, tick, todo, requests, faults, last, repeats>>

\* getState, then the branch: a transition is notified, the same state is not.
GetState(t, w) ==
    LET j == job[t][w] IN
    /\ j.pc = "getState"
    /\ SetJob(t, w, [pc |-> IF StateOf(j.id) = j.next THEN "record" ELSE "notify",
                     id |-> j.id, next |-> j.next])
    /\ disturbed' = IF Contended(j.id) THEN disturbed \cup {j.id} ELSE disturbed
    /\ UNCHANGED <<tables, metric, tick, todo, requests, faults, last, repeats>>

\* fireChannels: every webhook is called once; whether they accept only sets
\* the notified column, and a failed delivery is not tried again.
Notify(t, w) ==
    LET j == job[t][w] IN
    /\ j.pc = "notify"
    /\ last' = [last EXCEPT ![j.id] = j.next]
    /\ repeats' = IF last[j.id] = j.next THEN repeats \cup {j.id} ELSE repeats
    /\ SetJob(t, w, [pc |-> "transition", id |-> j.id, next |-> j.next])
    /\ UNCHANGED <<tables, metric, tick, todo, requests, faults, disturbed>>

\* Mutant of Transition: both branches store the state of the first one.
TransitionFiring(t, w) ==
    LET j == job[t][w] IN
    /\ j.pc = "transition" /\ row[j.id] = "there"
    /\ state' = [state EXCEPT ![j.id] = "firing"]
    /\ SetJob(t, w, [j EXCEPT !.pc = "record"])
    /\ UNCHANGED <<row, rule, evals, metric, tick, todo, requests, faults, last, repeats, disturbed>>

\* transitionState: INSERT ... ON CONFLICT DO UPDATE.
Transition(t, w) ==
    LET j == job[t][w] IN
    /\ j.pc = "transition" /\ row[j.id] = "there"
    /\ state' = [state EXCEPT ![j.id] = j.next]
    /\ SetJob(t, w, [pc |-> "record", id |-> j.id, next |-> j.next])
    /\ UNCHANGED <<row, rule, evals, metric, tick, todo, requests, faults, last, repeats, disturbed>>

\* recordEvaluation, and the worker is free again.
Record(t, w) ==
    LET j == job[t][w] IN
    /\ j.pc = "record" /\ row[j.id] = "there"
    /\ evals' = [evals EXCEPT ![j.id] = "some"]
    /\ SetJob(t, w, Idle)
    /\ UNCHANGED <<row, rule, state, metric, tick, todo, requests, faults, last, repeats, disturbed>>

\* A statement throws, for a missing rule because of the foreign key: the catch
\* block logs it and the rule's evaluation ends there.
StoreFails(t, w) ==
    LET j == job[t][w] IN
    /\ j.pc \in {"getState", "transition", "record"}
    /\ \/ j.pc # "getState" /\ row[j.id] # "there" /\ UNCHANGED faults
       \/ faults < MaxFaults /\ faults' = faults + 1
    /\ SetJob(t, w, Idle)
    /\ disturbed' = IF j.pc = "transition" THEN disturbed \cup {j.id} ELSE disturbed
    /\ UNCHANGED <<tables, metric, tick, todo, requests, last, repeats>>

\* Mutant of TickDone: the workers are not awaited.
TickDoneNoAwait(t) ==
    /\ tick[t] = "run" /\ todo[t] = {}
    /\ tick' = [tick EXCEPT ![t] = "idle"]
    /\ UNCHANGED <<tables, metric, todo, job, requests, faults, last, repeats, disturbed>>

\* Promise.all over the workers settles.
TickDone(t) ==
    /\ tick[t] = "run" /\ todo[t] = {}
    /\ \A w \in Workers : job[t][w].pc = "idle"
    /\ tick' = [tick EXCEPT ![t] = "idle"]
    /\ UNCHANGED <<tables, metric, todo, job, requests, faults, last, repeats, disturbed>>

\* The isolate running a tick is killed.
Crash(t) ==
    /\ tick[t] = "run" /\ faults < MaxFaults
    /\ faults' = faults + 1
    /\ tick' = [tick EXCEPT ![t] = "idle"]
    /\ todo' = [todo EXCEPT ![t] = {}]
    /\ job' = [job EXCEPT ![t] = [w \in Workers |-> Idle]]
    /\ disturbed' = disturbed \cup {r \in Rules : \E w \in Workers :
                        job[t][w].pc = "transition" /\ job[t][w].id = r}
    /\ UNCHANGED <<tables, metric, requests, last, repeats>>

-----------------------------------------------------------------------------
\* POST: validateInput passed, createRule inserts.
CreateRule(r) ==
    /\ row[r] = "new"
    /\ row' = [row EXCEPT ![r] = "there"]
    /\ \E i \in RuleInputs : rule' = [rule EXCEPT ![r] = i]
    /\ UNCHANGED <<state, evals, metric, tick, todo, job, requests, faults, last, repeats, disturbed>>

\* PATCH: updateRule reads the rule and merges the patch into it ...
PatchRead(e, r) ==
    /\ editor[e].pc = "idle" /\ row[r] = "there"
    /\ \E p \in Patches :
          editor' = [editor EXCEPT ![e] =
              [pc |-> "write", id |-> r,
               merged |-> [f \in DOMAIN rule[r] |-> IF f \in DOMAIN p THEN p[f] ELSE rule[r][f]]]]
    /\ UNCHANGED <<tables, metric, tick, todo, job, eraser, deletes, faults, last, repeats, disturbed>>

\* ... and, an await later, writes all its columns.
PatchWrite(e) ==
    /\ editor[e].pc = "write"
    /\ rule' = IF row[editor[e].id] = "there"
               THEN [rule EXCEPT ![editor[e].id] = editor[e].merged] ELSE rule
    /\ editor' = [editor EXCEPT ![e] = Idle]
    /\ UNCHANGED <<row, state, evals, metric, tick, todo, job, eraser, deletes,
                   faults, last, repeats, disturbed>>

\* DELETE, first statement, for the rule's own project: the foreign keys make
\* it throw as long as the rule has a state or evaluations.
DeleteRule(r) ==
    /\ eraser.pc = "idle" /\ row[r] = "there"
    /\ deletes < MaxDeletes /\ deletes' = deletes + 1
    /\ IF state[r] = "none" /\ evals[r] = "none"
       THEN /\ row' = [row EXCEPT ![r] = "gone"]
            /\ eraser' = [pc |-> "state", id |-> r]
       ELSE UNCHANGED <<row, eraser>>
    /\ UNCHANGED <<rule, state, evals, metric, tick, todo, job, editor, faults, last, repeats, disturbed>>

\* The same for another project or a deleted rule: no row matches, and the
\* cleanup statements run all the same.
DeleteNoMatch(r) ==
    /\ eraser.pc = "idle" /\ row[r] # "new"
    /\ deletes < MaxDeletes /\ deletes' = deletes + 1
    /\ eraser' = [pc |-> "state", id |-> r]
    /\ UNCHANGED <<tables, metric, tick, todo, job, editor, faults, last, repeats, disturbed>>

DeleteState ==
    /\ eraser.pc = "state"
    /\ state' = [state EXCEPT ![eraser.id] = "none"]
    /\ disturbed' = IF state[eraser.id] # "none" THEN disturbed \cup {eraser.id} ELSE disturbed
    /\ eraser' = [pc |-> "evals", id |-> eraser.id]
    /\ UNCHANGED <<row, rule, evals, metric, tick, todo, job, editor, deletes, faults, last, repeats>>

DeleteEvals ==
    /\ eraser.pc = "evals"
    /\ evals' = [evals EXCEPT ![eraser.id] = "none"]
    /\ eraser' = Idle
    /\ UNCHANGED <<row, rule, state, metric, tick, todo, job, editor, deletes, faults, last, repeats, disturbed>>

\* Telemetry arrives or leaves the rule's window.
MetricChanges(r) ==
    /\ \E v \in Values \ {metric[r]} : metric' = [metric EXCEPT ![r] = v]
    /\ UNCHANGED <<tables, tick, todo, job, requests, faults, last, repeats, disturbed>>

-----------------------------------------------------------------------------
WorkerStep(t, w) ==
    \/ Take(t, w) \/ Evaluate(t, w) \/ EvaluateTimeout(t, w) \/ GetState(t, w)
    \/ Notify(t, w) \/ Transition(t, w) \/ Record(t, w) \/ StoreFails(t, w)

Next ==
    \/ \E t \in Ticks : StartTick(t) \/ TickDone(t) \/ Crash(t)
    \/ \E t \in Ticks, w \in Workers : WorkerStep(t, w)
    \/ \E r \in Rules : CreateRule(r) \/ DeleteRule(r) \/ DeleteNoMatch(r) \/ MetricChanges(r)
    \/ \E e \in Editors, r \in Rules : PatchRead(e, r)
    \/ \E e \in Editors : PatchWrite(e)
    \/ DeleteState \/ DeleteEvals

Spec == Init /\ [][Next]_vars

\* Cron starts ticks for ever; every await of a running tick settles.
Fairness ==
    /\ \A t \in Ticks : WF_vars(StartTick(t)) /\ WF_vars(TickDone(t))
    /\ \A t \in Ticks, w \in Workers : WF_vars(WorkerStep(t, w))

FairSpec == Spec /\ Fairness

-----------------------------------------------------------------------------
Jobs ==
    {Idle}
    \cup [pc : {"evaluate"}, id : Rules, rule : RuleRecs]
    \cup [pc : {"getState", "notify", "transition", "record"}, id : Rules, next : {"ok", "firing"}]

\* The tables and the handlers' local variables keep their types; no worker is
\* busy outside a running tick.
TypeOK ==
    /\ row \in [Rules -> {"new", "there", "gone"}]
    /\ rule \in [Rules -> RuleRecs]
    /\ state \in [Rules -> {"none", "ok", "firing"}]
    /\ evals \in [Rules -> {"none", "some"}]
    /\ metric \in [Rules -> Values]
    /\ tick \in [Ticks -> {"idle", "run"}]
    /\ todo \in [Ticks -> SUBSET [id : Rules, rule : RuleRecs]]
    /\ job \in [Ticks -> [Workers -> Jobs]]
    /\ editor \in [Editors -> {Idle} \cup [pc : {"write"}, id : Rules, merged : RuleRecs]]
    /\ eraser \in {Idle} \cup [pc : {"state", "evals"}, id : Rules]
    /\ last \in [Rules -> {"ok", "firing"}]
    /\ repeats \subseteq Rules /\ disturbed \subseteq Rules
    /\ \A t \in Ticks, w \in Workers : tick[t] = "idle" => job[t][w] = Idle

\* The channels of a rule hear firing and ok in turns, never the same notice
\* twice in a row, unless two ticks decided on the rule at the same time, the
\* transition failed or was cut off after the notice, or the state was wiped.
Alternates == repeats \subseteq disturbed

\* Under the same proviso, alert_state says what the channels were last told,
\* except while a worker is between its notice and its transition.
StateIsLastNotice ==
    \A r \in Rules \ disturbed :
        \/ StateOf(r) = last[r]
        \/ \E t \in Ticks, w \in Workers : job[t][w].pc = "transition" /\ job[t][w].id = r

\* A rule that stays enabled, and whose metric stays on one side of its
\* threshold, ends up in that state, whatever stale ticks, finitely many faults
\* and rules with a stuck query do.
StateCatchesUp ==
    \A r \in Rules \ Stuck : \A s \in {"ok", "firing"} :
        <>[](row[r] = "there" /\ rule[r].enabled = "yes" /\ Wanted(metric[r], rule[r]) = s)
            => <>[](StateOf(r) = s)
=============================================================================
