------------------------------ MODULE EvalRuns ------------------------------
(***************************************************************************)
(* Eval runs and their results (eval-cases-routes.ts, eval-cases-store.ts).*)
(* Evaluators create a run, for one case or for none, and post results     *)
(* that name it.  A post checks the case, reads the run, inserts the       *)
(* result and, if it found the run, recomputes the run's counts from the   *)
(* results: four calls to the database and no transaction around them,     *)
(* while other posts and the creation of the very run go on.               *)
(***************************************************************************)
EXTENDS Integers, FiniteSets

CONSTANTS
    Cases,       \* eval cases that may be saved
    Runs,        \* run ids
    Posts,       \* POST /internal/eval-cases/:id/results
    Creators,    \* POST /internal/eval-runs
    Claims,      \* totalCount values a creation may state
    MaxFaults,   \* bound: database calls that fail
    NoId

ASSUME EvalRunsAssumption ==
    /\ Claims \subseteq Nat
    /\ MaxFaults \in Nat
    /\ NoId \notin Cases \cup Runs
    /\ IsFiniteSet(Posts)

VARIABLES
    saved,      \* rows of eval_cases
    run,        \* rows of eval_runs: case, counts, and whether they were recomputed
    results,    \* rows of eval_case_results: the posts that inserted them
    post,       \* each post: position, case, run, verdict, and whether it saw the run
    creator,    \* each creation: position, run, case, claim
    faults      \* failed calls so far

evalVars == <<saved, run, results, post, creator, faults>>

NoRun == [case |-> NoId, total |-> 0, pass |-> 0, fail |-> 0, fresh |-> FALSE, row |-> FALSE]
NewPost == [pc |-> "new", case |-> NoId, run |-> NoId, passed |-> FALSE, saw |-> FALSE]
NewCreator == [pc |-> "new", case |-> NoId, run |-> NoId, claim |-> 0]

EvalInit ==
    /\ saved = {}
    /\ run = [r \in Runs |-> NoRun]
    /\ results = {}
    /\ post = [p \in Posts |-> NewPost]
    /\ creator = [c \in Creators |-> NewCreator]
    /\ faults = 0

-----------------------------------------------------------------------------
\* createCase: hydrates its source from other tables, then one INSERT.
CreateCase(k) ==
    /\ k \notin saved
    /\ saved' = saved \cup {k}
    /\ UNCHANGED <<run, results, post, creator, faults>>

\* createRun up to the check that the case, if any, exists.
CheckRun(c, r, k, claim) ==
    /\ creator[c].pc = "new"
    /\ k \in saved \cup {NoId}
    /\ creator' = [creator EXCEPT ![c] = [pc |-> "insert", case |-> k, run |-> r, claim |-> claim]]
    /\ UNCHANGED <<saved, run, results, post, faults>>

\* Mutant of InsertRun: an upsert, which a retried creation repeats.
InsertRunAgain(c) ==
    LET r == creator[c].run IN
    /\ creator[c].pc = "insert"
    /\ creator' = [creator EXCEPT ![c].pc = "done"]
    /\ run' = [run EXCEPT ![r] = [NoRun EXCEPT !.case = creator[c].case,
                                               !.total = creator[c].claim, !.row = TRUE]]
    /\ UNCHANGED <<saved, results, post, faults>>

\* The INSERT, with the counts the request claims; an id in use is refused.
InsertRun(c) ==
    LET r == creator[c].run IN
    /\ creator[c].pc = "insert"
    /\ creator' = [creator EXCEPT ![c].pc = "done"]
    /\ run' = IF run[r].row THEN run
              ELSE [run EXCEPT ![r] = [NoRun EXCEPT !.case = creator[c].case,
                                                    !.total = creator[c].claim, !.row = TRUE]]
    /\ UNCHANGED <<saved, results, post, faults>>

-----------------------------------------------------------------------------
\* A result arrives for a case that exists; otherwise the answer is 404.
GetCase(p, k, r, passed) ==
    /\ post[p].pc = "new" /\ k \in saved
    /\ post' = [post EXCEPT ![p] =
            [pc |-> "run", case |-> k, run |-> r, passed |-> passed, saw |-> FALSE]]
    /\ UNCHANGED <<saved, run, results, creator, faults>>

\* The run is read; a run of another case is refused, a missing one is not.
GetRun(p) ==
    LET r == run[post[p].run] IN
    /\ post[p].pc = "run"
    /\ post' = [post EXCEPT ![p].saw = r.row,
                            ![p].pc = IF r.row /\ r.case \notin {NoId, post[p].case}
                                      THEN "refused" ELSE "insert"]
    /\ UNCHANGED <<saved, run, results, creator, faults>>

\* The result is inserted; the refresh follows only if the run was seen.
InsertResult(p) ==
    /\ post[p].pc = "insert"
    /\ results' = results \cup {p}
    /\ post' = [post EXCEPT ![p].pc = IF post[p].saw THEN "refresh" ELSE "done"]
    /\ UNCHANGED <<saved, run, creator, faults>>

ResultsOf(r) == {p \in results : post[p].run = r}
Verdicts(r, passed) == {p \in ResultsOf(r) : post[p].passed = passed}

\* The counts the UPDATE computes from the results.
Summary(r) ==
    [run[r] EXCEPT !.total = Cardinality(ResultsOf(r)),
                   !.pass = Cardinality(Verdicts(r, TRUE)),
                   !.fail = Cardinality(Verdicts(r, FALSE)), !.fresh = TRUE]

\* Mutant of Refresh: left out when the counts were computed before.
RefreshOnce(p) ==
    /\ post[p].pc = "refresh"
    /\ run' = IF run[post[p].run].fresh THEN run
              ELSE [run EXCEPT ![post[p].run] = Summary(post[p].run)]
    /\ post' = [post EXCEPT ![p].pc = "done"]
    /\ UNCHANGED <<saved, results, creator, faults>>

\* refreshRunSummary, one UPDATE: runs are never deleted, so it finds its row.
Refresh(p) ==
    /\ post[p].pc = "refresh"
    /\ run' = [run EXCEPT ![post[p].run] = Summary(post[p].run)]
    /\ post' = [post EXCEPT ![p].pc = "done"]
    /\ UNCHANGED <<saved, results, creator, faults>>

\* Any of these calls throws, or the process ends.
PostFails(p) ==
    /\ post[p].pc \in {"run", "insert", "refresh"}
    /\ faults < MaxFaults
    /\ faults' = faults + 1
    /\ post' = [post EXCEPT ![p].pc = "failed"]
    /\ UNCHANGED <<saved, run, results, creator>>

EvalNext ==
    \/ \E k \in Cases : CreateCase(k)
    \/ \E c \in Creators :
        \/ \E r \in Runs, k \in Cases \cup {NoId}, claim \in Claims : CheckRun(c, r, k, claim)
        \/ InsertRun(c)
    \/ \E p \in Posts :
        \/ \E k \in Cases, r \in Runs, passed \in BOOLEAN : GetCase(p, k, r, passed)
        \/ GetRun(p) \/ InsertResult(p) \/ Refresh(p) \/ PostFails(p)

EvalSpec == EvalInit /\ [][EvalNext]_evalVars

-----------------------------------------------------------------------------
\* A recomputed summary splits its total into passes and failures.
EvalTypeOK ==
    /\ saved \subseteq Cases
    /\ \A r \in Runs :
        /\ run[r].case \in Cases \cup {NoId} /\ {run[r].fresh, run[r].row} \subseteq BOOLEAN
        /\ {run[r].total, run[r].pass, run[r].fail} \subseteq Nat
        /\ run[r].fresh => run[r].total = run[r].pass + run[r].fail
    /\ results \subseteq Posts
    /\ \A p \in Posts :
        post[p].pc \in {"new", "run", "insert", "refresh", "done", "refused", "failed"}
    /\ \A c \in Creators : creator[c].pc \in {"new", "insert", "done"}
    /\ faults \in 0..MaxFaults

\* Every result whose post was answered with the run is in the run's counts,
\* however the posts interleave: what a summary misses is a result whose post
\* is unfinished, failed before its refresh, or began before the run existed.
AnsweredIsCounted ==
    \A r \in Runs : run[r].fresh =>
        Cardinality(ResultsOf(r)) - run[r].total <=
            Cardinality({p \in ResultsOf(r) : post[p].pc # "done" \/ ~post[p].saw})

\* Once a run's counts were recomputed they never go down.
CountsGrow ==
    [][\A r \in Runs : run[r].fresh =>
        /\ run[r].total <= run'[r].total
        /\ run[r].pass <= run'[r].pass /\ run[r].fail <= run'[r].fail]_evalVars
=============================================================================
