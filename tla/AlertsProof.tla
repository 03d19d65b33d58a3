----------------------------- MODULE AlertsProof -----------------------------
(***************************************************************************)
(* Proofs about Alerts for any number of rules, ticks and workers.         *)
(***************************************************************************)
EXTENDS Alerts, TLAPS

Telling(t, w, r) == job[t][w].pc = "notify" /\ job[t][w].id = r
Storing(t, w, r) == job[t][w].pc = "transition" /\ job[t][w].id = r

(***************************************************************************)
(* The inductive strengthening: nobody else decides on an undisturbed rule *)
(* between a worker's read of its state and the worker's transition, so    *)
(* what the worker read is what the channels were last told.               *)
(***************************************************************************)
OneChanges ==
    \A r \in Rules \ disturbed : \A t, u \in Ticks : \A w, v \in Workers :
        Changing(t, w, r) /\ Changing(u, v, r) => t = u /\ w = v

NewsOnly ==
    \A r \in Rules \ disturbed : \A t \in Ticks, w \in Workers :
        Telling(t, w, r) => job[t][w].next # last[r]

ToldFirst ==
    \A r \in Rules \ disturbed : \A t \in Ticks, w \in Workers :
        Storing(t, w, r) => job[t][w].next = last[r]

AlertInv == TypeOK /\ OneChanges /\ NewsOnly /\ ToldFirst /\ Alternates /\ StateIsLastNotice

-----------------------------------------------------------------------------
\* What a worker's local variables look like at each of its awaits.
LEMMA JobFacts ==
    ASSUME NEW j \in Jobs
    PROVE  /\ j.pc \in {"idle", "evaluate", "getState", "notify", "transition", "record"}
           /\ j.pc = "idle" => j = Idle
           /\ j.pc = "evaluate" => j.id \in Rules /\ j.rule \in RuleRecs
           /\ j.pc \in {"getState", "notify", "transition", "record"}
                => j.id \in Rules /\ j.next \in {"ok", "firing"}
  BY DEF Jobs, Idle

\* The records the handlers build are local variables of a worker.
LEMMA JobRecords ==
    /\ Idle \in Jobs /\ Idle.pc = "idle"
    /\ \A r \in Rules, i \in RuleRecs : [pc |-> "evaluate", id |-> r, rule |-> i] \in Jobs
    /\ \A r \in Rules, n \in {"ok", "firing"}, p \in {"getState", "notify", "transition", "record"} :
          [pc |-> p, id |-> r, next |-> n] \in Jobs
  BY DEF Jobs, Idle

\* Setting one worker's variables leaves the others alone.
LEMMA SetJobFacts ==
    ASSUME TypeOK, NEW t \in Ticks, NEW w \in Workers, NEW j \in Jobs, SetJob(t, w, j)
    PROVE  /\ job' \in [Ticks -> [Workers -> Jobs]]
           /\ job'[t][w] = j
           /\ \A u \in Ticks, v \in Workers : (u # t \/ v # w) => job'[u][v] = job[u][v]
<1>1. job \in [Ticks -> [Workers -> Jobs]]
  BY DEF TypeOK
<1>2. job' = [job EXCEPT ![t] = [job[t] EXCEPT ![w] = j]]
  BY DEF SetJob
<1>3. [job[t] EXCEPT ![w] = j] \in [Workers -> Jobs]
  BY <1>1
<1> QED BY <1>1, <1>2, <1>3

\* A merged rule is a rule.
LEMMA MergeFacts ==
    ASSUME NEW i \in RuleRecs, NEW p \in Patches
    PROVE  [f \in DOMAIN i |-> IF f \in DOMAIN p THEN p[f] ELSE i[f]] \in RuleRecs
<1>1. DOMAIN i = {"enabled", "comparison", "threshold"}
  BY DEF RuleRecs
<1>2. /\ i["enabled"] \in {"yes", "no"} /\ i["comparison"] \in Comparisons /\ i["threshold"] \in Int
  BY DEF RuleRecs
<1> DEFINE m == [f \in DOMAIN i |-> IF f \in DOMAIN p THEN p[f] ELSE i[f]]
<1>3. /\ m["enabled"] \in {"yes", "no"} /\ m["comparison"] \in Comparisons /\ m["threshold"] \in Int
  BY <1>1, <1>2, AlertsAssumption
<1>4. m = [enabled |-> m["enabled"], comparison |-> m["comparison"], threshold |-> m["threshold"]]
  BY <1>1
<1> HIDE DEF m
<1>5. m \in RuleRecs
  BY <1>3, <1>4 DEF RuleRecs
<1> QED BY <1>5 DEF m

\* Every comparison asks for one of the two states.
LEMMA WantedFacts ==
    ASSUME NEW v \in Values, NEW i \in RuleRecs
    PROVE  Wanted(v, i) \in {"ok", "firing"}
  BY DEF Wanted

-----------------------------------------------------------------------------
\* A worker's step keeps the types when it stores a proper job and leaves the
\* tick running.
LEMMA WorkerTypes ==
    ASSUME TypeOK, NEW t \in Ticks, NEW w \in Workers, NEW j \in Jobs, SetJob(t, w, j),
           tick[t] = "run", tick' = tick,
           row' \in [Rules -> {"new", "there", "gone"}], rule' \in [Rules -> RuleRecs],
           state' \in [Rules -> {"none", "ok", "firing"}], evals' \in [Rules -> {"none", "some"}],
           metric' = metric, todo' \in [Ticks -> SUBSET [id : Rules, rule : RuleRecs]],
           UNCHANGED requests, last' \in [Rules -> {"ok", "firing"}],
           repeats' \subseteq Rules, disturbed' \subseteq Rules
    PROVE  TypeOK'
<1>1. /\ job' \in [Ticks -> [Workers -> Jobs]]
      /\ \A u \in Ticks, v \in Workers : (u # t \/ v # w) => job'[u][v] = job[u][v]
  BY SetJobFacts
<1>2. \A u \in Ticks, v \in Workers : tick'[u] = "idle" => job'[u][v] = Idle
  BY <1>1 DEF TypeOK
<1> QED BY <1>1, <1>2 DEF TypeOK, requests

\* A busy worker belongs to a running tick, and its variables are typed.
LEMMA BusyFacts ==
    ASSUME TypeOK, NEW t \in Ticks, NEW w \in Workers
    PROVE  job[t][w] \in Jobs /\ (job[t][w].pc # "idle" => tick[t] = "run")
<1>1. job \in [Ticks -> [Workers -> Jobs]] /\ tick[t] \in {"idle", "run"}
  BY DEF TypeOK
<1>2. tick[t] = "idle" => job[t][w] = Idle
  BY DEF TypeOK
<1>3. job[t][w] \in Jobs
  BY <1>1
<1> QED BY <1>1, <1>2, <1>3, JobRecords

\* The types are kept by every step of a worker.
LEMMA WorkerTypeStep ==
    ASSUME TypeOK, NEW t \in Ticks, NEW w \in Workers, WorkerStep(t, w)
    PROVE  TypeOK'
<1> DEFINE j == job[t][w]
<1>0. j \in Jobs /\ (j.pc # "idle" => tick[t] = "run")
  BY BusyFacts
<1>1. CASE Take(t, w)
  <2>1. PICK item \in todo[t] : /\ todo' = [todo EXCEPT ![t] = todo[t] \ {item}]
                                /\ SetJob(t, w, [pc |-> "evaluate", id |-> item.id, rule |-> item.rule])
    BY <1>1 DEF Take
  <2>2. item.id \in Rules /\ item.rule \in RuleRecs
        /\ todo' \in [Ticks -> SUBSET [id : Rules, rule : RuleRecs]]
    BY <2>1 DEF TypeOK
  <2>3. [pc |-> "evaluate", id |-> item.id, rule |-> item.rule] \in Jobs
    BY <2>2, JobRecords
  <2>4. /\ tick[t] = "run" /\ tick' = tick /\ metric' = metric /\ UNCHANGED requests
        /\ row' = row /\ rule' = rule /\ state' = state /\ evals' = evals
        /\ last' = last /\ repeats' = repeats /\ disturbed' = disturbed
    BY <1>1 DEF Take, tables
  <2> QED BY <2>1, <2>2, <2>3, <2>4, WorkerTypes DEF TypeOK
<1>2. CASE Evaluate(t, w)
  <2>1. j.id \in Rules /\ j.rule \in RuleRecs /\ j.pc # "idle"
    BY <1>0, <1>2, JobFacts DEF Evaluate
  <2>2. Wanted(metric[j.id], j.rule) \in {"ok", "firing"}
    BY <2>1, WantedFacts DEF TypeOK
  <2> DEFINE k == [pc |-> "getState", id |-> j.id, next |-> Wanted(metric[j.id], j.rule)]
  <2>3. k \in Jobs
    BY <2>1, <2>2, JobRecords
  <2>4. /\ SetJob(t, w, k) /\ tick' = tick /\ metric' = metric /\ UNCHANGED requests
        /\ row' = row /\ rule' = rule /\ state' = state /\ evals' = evals /\ todo' = todo
        /\ last' = last /\ repeats' = repeats /\ disturbed' = disturbed
    BY <1>2 DEF Evaluate, tables
  <2> HIDE DEF k
  <2> QED BY <1>0, <2>1, <2>3, <2>4, WorkerTypes DEF TypeOK
<1>3. CASE EvaluateTimeout(t, w)
  <2>1. /\ SetJob(t, w, Idle) /\ tick' = tick /\ metric' = metric /\ UNCHANGED requests
        /\ row' = row /\ rule' = rule /\ state' = state /\ evals' = evals /\ todo' = todo
        /\ last' = last /\ repeats' = repeats /\ disturbed' = disturbed /\ j.pc = "evaluate"
    BY <1>3 DEF EvaluateTimeout, tables
  <2> QED BY <1>0, <2>1, WorkerTypes, JobRecords DEF TypeOK
<1>4. CASE GetState(t, w)
  <2>1. j.id \in Rules /\ j.next \in {"ok", "firing"} /\ j.pc # "idle"
    BY <1>0, <1>4, JobFacts DEF GetState
  <2> DEFINE k == [pc |-> IF StateOf(j.id) = j.next THEN "record" ELSE "notify",
                   id |-> j.id, next |-> j.next]
  <2>2. k \in Jobs
    BY <2>1, JobRecords
  <2>3. /\ SetJob(t, w, k) /\ tick' = tick /\ metric' = metric /\ UNCHANGED requests
        /\ row' = row /\ rule' = rule /\ state' = state /\ evals' = evals /\ todo' = todo
        /\ last' = last /\ repeats' = repeats /\ disturbed' \in {disturbed, disturbed \cup {j.id}}
    BY <1>4 DEF GetState, tables
  <2> HIDE DEF k
  <2> QED BY <1>0, <2>1, <2>2, <2>3, WorkerTypes DEF TypeOK
<1>5. CASE Notify(t, w)
  <2>1. j.id \in Rules /\ j.next \in {"ok", "firing"} /\ j.pc # "idle"
    BY <1>0, <1>5, JobFacts DEF Notify
  <2> DEFINE k == [pc |-> "transition", id |-> j.id, next |-> j.next]
  <2>2. k \in Jobs
    BY <2>1, JobRecords
  <2>3. /\ SetJob(t, w, k) /\ tick' = tick /\ metric' = metric /\ UNCHANGED requests
        /\ row' = row /\ rule' = rule /\ state' = state /\ evals' = evals /\ todo' = todo
        /\ last' = [last EXCEPT ![j.id] = j.next] /\ disturbed' = disturbed
        /\ repeats' \in {repeats, repeats \cup {j.id}}
    BY <1>5 DEF Notify, tables
  <2> HIDE DEF k
  <2> QED BY <1>0, <2>1, <2>2, <2>3, WorkerTypes DEF TypeOK
<1>6. CASE Transition(t, w)
  <2>1. j.id \in Rules /\ j.next \in {"ok", "firing"} /\ j.pc # "idle"
    BY <1>0, <1>6, JobFacts DEF Transition
  <2> DEFINE k == [pc |-> "record", id |-> j.id, next |-> j.next]
  <2>2. k \in Jobs
    BY <2>1, JobRecords
  <2>3. /\ SetJob(t, w, k) /\ tick' = tick /\ metric' = metric /\ UNCHANGED requests
        /\ row' = row /\ rule' = rule /\ evals' = evals /\ todo' = todo
        /\ state' = [state EXCEPT ![j.id] = j.next]
        /\ last' = last /\ repeats' = repeats /\ disturbed' = disturbed
    BY <1>6 DEF Transition
  <2> HIDE DEF k
  <2> QED BY <1>0, <2>1, <2>2, <2>3, WorkerTypes DEF TypeOK
<1>7. CASE Record(t, w)
  <2>1. /\ SetJob(t, w, Idle) /\ tick' = tick /\ metric' = metric /\ UNCHANGED requests
        /\ row' = row /\ rule' = rule /\ state' = state /\ todo' = todo
        /\ evals' = [evals EXCEPT ![j.id] = "some"]
        /\ last' = last /\ repeats' = repeats /\ disturbed' = disturbed /\ j.pc = "record"
    BY <1>7 DEF Record
  <2> QED BY <1>0, <2>1, WorkerTypes, JobRecords DEF TypeOK
<1>8. CASE StoreFails(t, w)
  <2>1. j.id \in Rules /\ j.pc # "idle"
    BY <1>0, <1>8, JobFacts DEF StoreFails
  <2>2. /\ SetJob(t, w, Idle) /\ tick' = tick /\ metric' = metric /\ UNCHANGED requests
        /\ row' = row /\ rule' = rule /\ state' = state /\ evals' = evals /\ todo' = todo
        /\ last' = last /\ repeats' = repeats /\ disturbed' \in {disturbed, disturbed \cup {j.id}}
    BY <1>8 DEF StoreFails, tables
  <2> QED BY <1>0, <2>1, <2>2, WorkerTypes, JobRecords DEF TypeOK
<1> QED BY <1>1, <1>2, <1>3, <1>4, <1>5, <1>6, <1>7, <1>8 DEF WorkerStep

\* Every step keeps the types.
LEMMA TypeStep == TypeOK /\ [Next]_vars => TypeOK'
<1> SUFFICES ASSUME TypeOK, [Next]_vars PROVE TypeOK'
  OBVIOUS
<1>1. ASSUME NEW t \in Ticks, NEW w \in Workers, WorkerStep(t, w) PROVE TypeOK'
  BY <1>1, WorkerTypeStep
<1>2. ASSUME NEW t \in Ticks, StartTick(t) PROVE TypeOK'
  <2>1. {[id |-> r, rule |-> rule[r]] : r \in {q \in Rules : row[q] = "there" /\ rule[q].enabled = "yes"}}
            \in SUBSET [id : Rules, rule : RuleRecs]
    BY DEF TypeOK
  <2>2. todo' \in [Ticks -> SUBSET [id : Rules, rule : RuleRecs]]
    BY <1>2, <2>1 DEF StartTick, TypeOK
  <2>3. /\ tick' \in [Ticks -> {"idle", "run"}]
        /\ \A u \in Ticks : tick'[u] = "idle" => tick[u] = "idle"
    BY <1>2 DEF StartTick, TypeOK
  <2>4. /\ job' = job /\ metric' = metric /\ UNCHANGED requests
        /\ row' = row /\ rule' = rule /\ state' = state /\ evals' = evals
        /\ last' = last /\ repeats' = repeats /\ disturbed' = disturbed
    BY <1>2 DEF StartTick, tables
  <2> QED BY <2>2, <2>3, <2>4 DEF TypeOK, requests
<1>3. ASSUME NEW t \in Ticks, TickDone(t) PROVE TypeOK'
  <2>1. \A w \in Workers : job[t][w] = Idle
    BY <1>3, BusyFacts, JobFacts DEF TickDone
  <2>2. tick' \in [Ticks -> {"idle", "run"}] /\ \A u \in Ticks : u # t => tick'[u] = tick[u]
    BY <1>3 DEF TickDone, TypeOK
  <2>3. /\ job' = job /\ metric' = metric /\ todo' = todo /\ UNCHANGED requests
        /\ row' = row /\ rule' = rule /\ state' = state /\ evals' = evals
        /\ last' = last /\ repeats' = repeats /\ disturbed' = disturbed
    BY <1>3 DEF TickDone, tables
  <2> QED BY <2>1, <2>2, <2>3 DEF TypeOK, requests
<1>4. ASSUME NEW t \in Ticks, Crash(t) PROVE TypeOK'
  <2>1. /\ tick' \in [Ticks -> {"idle", "run"}] /\ \A u \in Ticks : u # t => tick'[u] = tick[u]
        /\ todo' \in [Ticks -> SUBSET [id : Rules, rule : RuleRecs]]
        /\ disturbed' \subseteq Rules
    BY <1>4 DEF Crash, TypeOK
  <2>2. [w \in Workers |-> Idle] \in [Workers -> Jobs]
    BY JobRecords
  <2>3. /\ job' \in [Ticks -> [Workers -> Jobs]]
        /\ \A w \in Workers : job'[t][w] = Idle
        /\ \A u \in Ticks : u # t => job'[u] = job[u]
    BY <1>4, <2>2 DEF Crash, TypeOK
  <2>4. /\ metric' = metric /\ UNCHANGED requests
        /\ row' = row /\ rule' = rule /\ state' = state /\ evals' = evals
        /\ last' = last /\ repeats' = repeats
    BY <1>4 DEF Crash, tables
  <2>5. editor' = editor /\ eraser' = eraser
    BY <2>4 DEF requests
  <2>6. \A u \in Ticks, w \in Workers : tick'[u] = "idle" => job'[u][w] = Idle
    <3> SUFFICES ASSUME NEW u \in Ticks, NEW w \in Workers, tick'[u] = "idle"
                 PROVE  job'[u][w] = Idle
      OBVIOUS
    <3>1. CASE u = t
      BY <2>3, <3>1
    <3>2. CASE u # t
      <4>1. tick[u] = "idle" /\ job'[u] = job[u]
        BY <2>1, <2>3, <3>2
      <4> QED BY <4>1 DEF TypeOK
    <3> QED BY <3>1, <3>2
  <2> QED BY <2>1, <2>3, <2>4, <2>5, <2>6 DEF TypeOK
<1>5. ASSUME NEW r \in Rules, CreateRule(r) \/ MetricChanges(r) PROVE TypeOK'
  <2>1. CASE CreateRule(r)
    <3>1. row' \in [Rules -> {"new", "there", "gone"}] /\ rule' \in [Rules -> RuleRecs]
      BY <2>1, AlertsAssumption DEF CreateRule, TypeOK
    <3> QED BY <2>1, <3>1 DEF CreateRule, TypeOK, requests
  <2>2. CASE MetricChanges(r)
    <3>1. metric' \in [Rules -> Values]
      BY <2>2 DEF MetricChanges, TypeOK
    <3> QED BY <2>2, <3>1 DEF MetricChanges, TypeOK, requests, tables
  <2> QED BY <1>5, <2>1, <2>2
<1>6. ASSUME NEW r \in Rules, DeleteRule(r) \/ DeleteNoMatch(r) PROVE TypeOK'
  <2>1. row' \in [Rules -> {"new", "there", "gone"}]
    BY <1>6 DEF DeleteRule, DeleteNoMatch, TypeOK, tables
  <2>2. eraser' \in {Idle} \cup [pc : {"state", "evals"}, id : Rules]
    BY <1>6 DEF DeleteRule, DeleteNoMatch, TypeOK
  <2>3. /\ rule' = rule /\ metric' = metric /\ tick' = tick /\ todo' = todo /\ job' = job
        /\ editor' = editor /\ last' = last /\ repeats' = repeats
        /\ state' = state /\ evals' = evals /\ disturbed' = disturbed
    BY <1>6 DEF DeleteRule, DeleteNoMatch, tables
  <2> QED BY <2>1, <2>2, <2>3 DEF TypeOK
<1>7. ASSUME NEW e \in Editors, NEW r \in Rules, PatchRead(e, r) PROVE TypeOK'
  <2>1. PICK p \in Patches : editor' = [editor EXCEPT ![e] =
            [pc |-> "write", id |-> r,
             merged |-> [f \in DOMAIN rule[r] |-> IF f \in DOMAIN p THEN p[f] ELSE rule[r][f]]]]
    BY <1>7 DEF PatchRead
  <2>2. [f \in DOMAIN rule[r] |-> IF f \in DOMAIN p THEN p[f] ELSE rule[r][f]] \in RuleRecs
    BY MergeFacts DEF TypeOK
  <2>3. editor' \in [Editors -> {Idle} \cup [pc : {"write"}, id : Rules, merged : RuleRecs]]
    BY <2>1, <2>2 DEF TypeOK
  <2>4. /\ tick' = tick /\ todo' = todo /\ job' = job /\ metric' = metric
        /\ eraser' = eraser
        /\ row' = row /\ rule' = rule /\ state' = state /\ evals' = evals
        /\ last' = last /\ repeats' = repeats /\ disturbed' = disturbed
    BY <1>7 DEF PatchRead, tables
  <2> QED BY <2>3, <2>4 DEF TypeOK
<1>8. ASSUME NEW e \in Editors, PatchWrite(e) PROVE TypeOK'
  <2>1. editor[e].id \in Rules /\ editor[e].merged \in RuleRecs
    BY <1>8 DEF PatchWrite, TypeOK, Idle
  <2>2. rule' \in [Rules -> RuleRecs]
    BY <1>8, <2>1 DEF PatchWrite, TypeOK
  <2>3. editor' \in [Editors -> {Idle} \cup [pc : {"write"}, id : Rules, merged : RuleRecs]]
    BY <1>8 DEF PatchWrite, TypeOK
  <2>4. /\ tick' = tick /\ todo' = todo /\ job' = job /\ metric' = metric
        /\ eraser' = eraser
        /\ row' = row /\ state' = state /\ evals' = evals
        /\ last' = last /\ repeats' = repeats /\ disturbed' = disturbed
    BY <1>8 DEF PatchWrite
  <2> QED BY <2>2, <2>3, <2>4 DEF TypeOK
<1>9. CASE DeleteState \/ DeleteEvals
  <2>1. eraser.id \in Rules
    BY <1>9 DEF DeleteState, DeleteEvals, TypeOK, Idle
  <2>2. eraser' \in {Idle} \cup [pc : {"state", "evals"}, id : Rules]
    BY <1>9, <2>1 DEF DeleteState, DeleteEvals
  <2>3. /\ state' \in [Rules -> {"none", "ok", "firing"}] /\ evals' \in [Rules -> {"none", "some"}]
        /\ disturbed' \subseteq Rules
    <3>1. CASE DeleteState
      BY <2>1, <3>1 DEF DeleteState, TypeOK
    <3>2. CASE DeleteEvals
      BY <2>1, <3>2 DEF DeleteEvals, TypeOK
    <3> QED BY <1>9, <3>1, <3>2
  <2>4. /\ rule' = rule /\ metric' = metric /\ tick' = tick /\ todo' = todo /\ job' = job
        /\ editor' = editor /\ last' = last /\ repeats' = repeats
        /\ row' = row
    BY <1>9 DEF DeleteState, DeleteEvals
  <2> QED BY <2>2, <2>3, <2>4 DEF TypeOK
<1>10. CASE UNCHANGED vars
  BY <1>10 DEF vars, tables, requests, TypeOK
<1> QED
  BY <1>1, <1>2, <1>3, <1>4, <1>5, <1>6, <1>7, <1>8, <1>9, <1>10 DEF Next

-----------------------------------------------------------------------------
Notices == OneChanges /\ NewsOnly /\ ToldFirst /\ Alternates /\ StateIsLastNotice

\* A step that sends and stores nothing keeps the notices right, if workers only
\* leave the critical section and none leaves it with its transition undone on
\* a rule that stays undisturbed.
LEMMA QuietStep ==
    ASSUME AlertInv, state' = state, last' = last, repeats' = repeats, disturbed \subseteq disturbed',
           \A u \in Ticks, v \in Workers :
              \/ job'[u][v] = job[u][v]
              \/ /\ job'[u][v].pc \notin {"notify", "transition"}
                 /\ \A r \in Rules \ disturbed' : ~Storing(u, v, r)
    PROVE  Notices'
<1>1. \A u \in Ticks, v \in Workers, r \in Rules :
          Changing(u, v, r)' => Changing(u, v, r) /\ job'[u][v] = job[u][v]
  BY DEF Changing
<1>2. OneChanges'
  BY <1>1 DEF AlertInv, OneChanges
<1>3. NewsOnly' /\ ToldFirst'
  BY <1>1 DEF AlertInv, NewsOnly, ToldFirst, Telling, Storing, Changing
<1>4. Alternates'
  BY DEF AlertInv, Alternates
<1>5. StateIsLastNotice'
  <2> SUFFICES ASSUME NEW r \in Rules \ disturbed',
                      ~(\E t \in Ticks, w \in Workers : job'[t][w].pc = "transition" /\ job'[t][w].id = r)
               PROVE  StateOf(r)' = last'[r]
    BY DEF StateIsLastNotice
  <2>1. \A u \in Ticks, v \in Workers : ~Storing(u, v, r)
    BY DEF Storing
  <2>2. StateOf(r) = last[r]
    BY <2>1 DEF AlertInv, StateIsLastNotice, Storing
  <2> QED BY <2>2 DEF StateOf
<1> QED BY <1>2, <1>3, <1>4, <1>5 DEF Notices

\* One worker's step that keeps out of the critical section is quiet.
LEMMA QuietWorker ==
    ASSUME AlertInv, NEW t \in Ticks, NEW w \in Workers, NEW j \in Jobs, SetJob(t, w, j),
           j.pc \notin {"notify", "transition"}, job[t][w].pc # "transition" \/ job[t][w].id \in disturbed',
           state' = state, last' = last, repeats' = repeats, disturbed \subseteq disturbed'
    PROVE  Notices'
<1>1. /\ job'[t][w] = j
      /\ \A u \in Ticks, v \in Workers : (u # t \/ v # w) => job'[u][v] = job[u][v]
  BY SetJobFacts DEF AlertInv
<1>2. \A r \in Rules \ disturbed' : ~Storing(t, w, r)
  BY DEF Storing
<1> QED BY <1>1, <1>2, QuietStep

\* Every step of a worker keeps the notices right.
LEMMA WorkerNotices ==
    ASSUME AlertInv, NEW t \in Ticks, NEW w \in Workers, WorkerStep(t, w)
    PROVE  Notices'
<1> DEFINE j == job[t][w]
<1>0. TypeOK /\ j \in Jobs
  BY BusyFacts DEF AlertInv
<1>1. CASE Take(t, w)
  <2>1. PICK item \in todo[t] :
            SetJob(t, w, [pc |-> "evaluate", id |-> item.id, rule |-> item.rule])
    BY <1>1 DEF Take
  <2>2. item.id \in Rules /\ item.rule \in RuleRecs
    BY <1>0, <2>1 DEF TypeOK
  <2> DEFINE k == [pc |-> "evaluate", id |-> item.id, rule |-> item.rule]
  <2>3. k \in Jobs /\ k.pc = "evaluate"
    BY <2>2, JobRecords
  <2>4. /\ SetJob(t, w, k) /\ j.pc = "idle" /\ state' = state /\ last' = last /\ repeats' = repeats
        /\ disturbed' = disturbed
    BY <1>1, <2>1 DEF Take, tables
  <2> HIDE DEF k
  <2> QED BY <2>3, <2>4, QuietWorker
<1>2. CASE Evaluate(t, w)
  <2>1. j.id \in Rules /\ j.rule \in RuleRecs /\ j.pc = "evaluate"
    BY <1>0, <1>2, JobFacts DEF Evaluate
  <2>2. Wanted(metric[j.id], j.rule) \in {"ok", "firing"}
    BY <1>0, <2>1, WantedFacts DEF TypeOK
  <2> DEFINE k == [pc |-> "getState", id |-> j.id, next |-> Wanted(metric[j.id], j.rule)]
  <2>3. k \in Jobs /\ k.pc = "getState"
    BY <2>1, <2>2, JobRecords
  <2>4. /\ SetJob(t, w, k) /\ state' = state /\ last' = last /\ repeats' = repeats
        /\ disturbed' = disturbed
    BY <1>2 DEF Evaluate, tables
  <2> HIDE DEF k
  <2> QED BY <2>1, <2>3, <2>4, QuietWorker
<1>3. CASE EvaluateTimeout(t, w) \/ Record(t, w) \/ StoreFails(t, w)
  <2>1. /\ SetJob(t, w, Idle) /\ state' = state /\ last' = last /\ repeats' = repeats
        /\ disturbed \subseteq disturbed'
    BY <1>3 DEF EvaluateTimeout, Record, StoreFails, tables
  <2>2. j.pc # "transition" \/ j.id \in disturbed'
    BY <1>3 DEF EvaluateTimeout, Record, StoreFails
  <2> QED BY <2>1, <2>2, QuietWorker, JobRecords
<1>4. CASE GetState(t, w)
  <2>1. j.id \in Rules /\ j.next \in {"ok", "firing"} /\ j.pc = "getState"
    BY <1>0, <1>4, JobFacts DEF GetState
  <2>2. /\ state' = state /\ last' = last /\ repeats' = repeats /\ disturbed \subseteq disturbed'
        /\ Contended(j.id) => j.id \in disturbed'
    BY <1>4 DEF GetState, tables
  <2>3. CASE StateOf(j.id) = j.next
    <3> DEFINE k == [pc |-> "record", id |-> j.id, next |-> j.next]
    <3>1. k \in Jobs /\ k.pc = "record"
      BY <2>1, JobRecords
    <3>2. SetJob(t, w, k)
      BY <1>4, <2>3 DEF GetState
    <3> HIDE DEF k
    <3> QED BY <2>1, <2>2, <3>1, <3>2, QuietWorker
  <2>4. CASE StateOf(j.id) # j.next
    <3> DEFINE k == [pc |-> "notify", id |-> j.id, next |-> j.next]
    <3>1. k \in Jobs /\ k.pc = "notify" /\ k.id = j.id /\ k.next = j.next
      BY <2>1, JobRecords
    <3>2. SetJob(t, w, k)
      BY <1>4, <2>4 DEF GetState
    <3> HIDE DEF k
    <3>3. /\ job'[t][w] = k
          /\ \A u \in Ticks, v \in Workers : (u # t \/ v # w) => job'[u][v] = job[u][v]
      BY <1>0, <3>1, <3>2, SetJobFacts
    <3>4. \A u \in Ticks, v \in Workers, r \in Rules : (u # t \/ v # w) =>
              /\ Changing(u, v, r)' <=> Changing(u, v, r)
              /\ Telling(u, v, r)' <=> Telling(u, v, r)
              /\ Storing(u, v, r)' <=> Storing(u, v, r)
      BY <3>3 DEF Changing, Telling, Storing
    <3>5. \A r \in Rules : Changing(t, w, r)' \/ Telling(t, w, r)' => r = j.id
      BY <3>1, <3>3 DEF Changing, Telling
    <3>6. \A r \in Rules : ~Storing(t, w, r)' /\ ~Storing(t, w, r)
      BY <2>1, <3>1, <3>3 DEF Storing
    <3>7. j.id \notin disturbed' => \A u \in Ticks, v \in Workers : ~Changing(u, v, j.id)
      BY <2>2 DEF Contended
    <3>8. OneChanges'
      BY <2>2, <3>4, <3>5, <3>7 DEF AlertInv, OneChanges
    <3>9. j.id \notin disturbed' => j.next # last[j.id]
      BY <2>1, <2>2, <2>4, <3>7 DEF AlertInv, StateIsLastNotice, Changing
    <3>10. NewsOnly'
      BY <2>2, <3>1, <3>3, <3>4, <3>5, <3>9 DEF AlertInv, NewsOnly
    <3>11. ToldFirst'
      BY <2>2, <3>3, <3>4, <3>6 DEF AlertInv, ToldFirst
    <3>12. Alternates'
      BY <2>2 DEF AlertInv, Alternates
    <3>13. StateIsLastNotice'
      BY <2>2, <3>4, <3>6 DEF AlertInv, StateIsLastNotice, StateOf, Storing
    <3> QED BY <3>8, <3>10, <3>11, <3>12, <3>13 DEF Notices
  <2> QED BY <2>3, <2>4
<1>5. CASE Notify(t, w)
  <2>1. j.id \in Rules /\ j.next \in {"ok", "firing"} /\ j.pc = "notify"
    BY <1>0, <1>5, JobFacts DEF Notify
  <2> DEFINE k == [pc |-> "transition", id |-> j.id, next |-> j.next]
  <2>2. k \in Jobs /\ k.pc = "transition" /\ k.id = j.id /\ k.next = j.next
    BY <2>1, JobRecords
  <2>3. /\ SetJob(t, w, k) /\ state' = state /\ disturbed' = disturbed
        /\ last' = [last EXCEPT ![j.id] = j.next]
        /\ repeats' = IF last[j.id] = j.next THEN repeats \cup {j.id} ELSE repeats
    BY <1>5 DEF Notify, tables
  <2> HIDE DEF k
  <2>4. /\ job'[t][w] = k
        /\ \A u \in Ticks, v \in Workers : (u # t \/ v # w) => job'[u][v] = job[u][v]
    BY <1>0, <2>2, <2>3, SetJobFacts
  <2>5. \A u \in Ticks, v \in Workers, r \in Rules : Changing(u, v, r)' <=> Changing(u, v, r)
    BY <2>1, <2>2, <2>4 DEF Changing
  <2>6. OneChanges'
    BY <2>3, <2>5 DEF AlertInv, OneChanges
  <2>7. /\ last'[j.id] = j.next /\ \A r \in Rules : r # j.id => last'[r] = last[r]
    BY <1>0, <2>1, <2>3 DEF TypeOK
  <2>8. j.id \notin disturbed => \A u \in Ticks, v \in Workers :
            Changing(u, v, j.id) => u = t /\ v = w
    BY <2>1 DEF AlertInv, OneChanges, Changing
  <2>9. NewsOnly'
    <3> SUFFICES ASSUME NEW r \in Rules \ disturbed, NEW u \in Ticks, NEW v \in Workers,
                        Telling(u, v, r)'
                 PROVE  job'[u][v].next # last'[r]
      BY <2>3 DEF NewsOnly
    <3>1. u # t \/ v # w
      BY <2>2, <2>4 DEF Telling
    <3>2. Telling(u, v, r) /\ job'[u][v] = job[u][v] /\ Changing(u, v, r)
      BY <2>4, <3>1 DEF Telling, Changing
    <3>3. r # j.id
      BY <2>8, <3>1, <3>2
    <3> QED BY <2>7, <3>2, <3>3 DEF AlertInv, NewsOnly
  <2>10. ToldFirst'
    <3> SUFFICES ASSUME NEW r \in Rules \ disturbed, NEW u \in Ticks, NEW v \in Workers,
                        Storing(u, v, r)'
                 PROVE  job'[u][v].next = last'[r]
      BY <2>3 DEF ToldFirst
    <3>1. CASE u = t /\ v = w
      BY <2>2, <2>4, <2>7, <3>1 DEF Storing
    <3>2. CASE u # t \/ v # w
      <4>1. Storing(u, v, r) /\ job'[u][v] = job[u][v] /\ Changing(u, v, r)
        BY <2>4, <3>2 DEF Storing, Changing
      <4>2. r # j.id
        BY <2>8, <3>2, <4>1
      <4> QED BY <2>7, <4>1, <4>2 DEF AlertInv, ToldFirst
    <3> QED BY <3>1, <3>2
  <2>11. Alternates'
    BY <2>1, <2>3 DEF AlertInv, Alternates, NewsOnly, Telling
  <2>12. StateIsLastNotice'
    <3> SUFFICES ASSUME NEW r \in Rules \ disturbed,
                        ~(\E u \in Ticks, v \in Workers : job'[u][v].pc = "transition" /\ job'[u][v].id = r)
                 PROVE  StateOf(r)' = last'[r]
      BY <2>3 DEF StateIsLastNotice
    <3>1. r # j.id
      BY <2>2, <2>4
    <3>2. ~(\E u \in Ticks, v \in Workers : job[u][v].pc = "transition" /\ job[u][v].id = r)
      BY <2>1, <2>4
    <3>3. StateOf(r) = last[r]
      BY <3>2 DEF AlertInv, StateIsLastNotice
    <3> QED BY <2>3, <2>7, <3>1, <3>3 DEF StateOf
  <2> QED BY <2>6, <2>9, <2>10, <2>11, <2>12 DEF Notices
<1>6. CASE Transition(t, w)
  <2>1. j.id \in Rules /\ j.next \in {"ok", "firing"} /\ j.pc = "transition"
    BY <1>0, <1>6, JobFacts DEF Transition
  <2> DEFINE k == [pc |-> "record", id |-> j.id, next |-> j.next]
  <2>2. k \in Jobs /\ k.pc = "record"
    BY <2>1, JobRecords
  <2>3. /\ SetJob(t, w, k) /\ state' = [state EXCEPT ![j.id] = j.next]
        /\ last' = last /\ repeats' = repeats /\ disturbed' = disturbed
    BY <1>6 DEF Transition
  <2> HIDE DEF k
  <2>4. /\ job'[t][w] = k
        /\ \A u \in Ticks, v \in Workers : (u # t \/ v # w) => job'[u][v] = job[u][v]
    BY <1>0, <2>2, <2>3, SetJobFacts
  <2>5. \A u \in Ticks, v \in Workers, r \in Rules :
            Changing(u, v, r)' => Changing(u, v, r) /\ job'[u][v] = job[u][v]
    BY <2>2, <2>4 DEF Changing
  <2>6. OneChanges' /\ NewsOnly' /\ ToldFirst' /\ Alternates'
    BY <2>3, <2>5 DEF AlertInv, OneChanges, NewsOnly, ToldFirst, Alternates, Telling, Storing, Changing
  <2>7. StateIsLastNotice'
    <3> SUFFICES ASSUME NEW r \in Rules \ disturbed,
                        ~(\E u \in Ticks, v \in Workers : job'[u][v].pc = "transition" /\ job'[u][v].id = r)
                 PROVE  StateOf(r)' = last'[r]
      BY <2>3 DEF StateIsLastNotice
    <3>1. CASE r = j.id
      <4>1. j.next = last[r]
        BY <2>1, <3>1 DEF AlertInv, ToldFirst, Storing
      <4>2. state'[r] = j.next
        BY <1>0, <2>1, <2>3, <3>1 DEF TypeOK
      <4> QED BY <2>1, <2>3, <4>1, <4>2 DEF StateOf
    <3>2. CASE r # j.id
      <4>1. ~(\E u \in Ticks, v \in Workers : job[u][v].pc = "transition" /\ job[u][v].id = r)
        BY <2>4, <3>2
      <4>2. StateOf(r) = last[r]
        BY <4>1 DEF AlertInv, StateIsLastNotice
      <4>3. state'[r] = state[r]
        BY <1>0, <2>3, <3>2 DEF TypeOK
      <4> QED BY <2>3, <4>2, <4>3 DEF StateOf
    <3> QED BY <3>1, <3>2
  <2> QED BY <2>6, <2>7 DEF Notices
<1> QED BY <1>1, <1>2, <1>3, <1>4, <1>5, <1>6 DEF WorkerStep

\* Every step keeps the notices right.
LEMMA NoticeStep == AlertInv /\ [Next]_vars => Notices'
<1> SUFFICES ASSUME AlertInv, [Next]_vars PROVE Notices'
  OBVIOUS
<1>1. ASSUME NEW t \in Ticks, NEW w \in Workers, WorkerStep(t, w) PROVE Notices'
  BY <1>1, WorkerNotices
<1>2. ASSUME NEW t \in Ticks, StartTick(t) \/ TickDone(t) PROVE Notices'
  <2>1. state' = state /\ last' = last /\ repeats' = repeats /\ disturbed' = disturbed /\ job' = job
    BY <1>2 DEF StartTick, TickDone, tables
  <2> QED BY <2>1, QuietStep
<1>3. ASSUME NEW t \in Ticks, Crash(t) PROVE Notices'
  <2>1. /\ state' = state /\ last' = last /\ repeats' = repeats /\ disturbed \subseteq disturbed'
        /\ \A r \in Rules, w \in Workers : Storing(t, w, r) => r \in disturbed'
    BY <1>3 DEF Crash, tables, Storing
  <2>2. /\ \A w \in Workers : job'[t][w].pc = "idle"
        /\ \A u \in Ticks : u # t => job'[u] = job[u]
    BY <1>3, JobRecords DEF Crash, AlertInv, TypeOK
  <2> QED BY <2>1, <2>2, QuietStep
<1>4. ASSUME NEW r \in Rules, \/ CreateRule(r) \/ MetricChanges(r) \/ DeleteRule(r) \/ DeleteNoMatch(r)
      PROVE  Notices'
  <2>1. state' = state /\ last' = last /\ repeats' = repeats /\ disturbed' = disturbed /\ job' = job
    BY <1>4 DEF CreateRule, MetricChanges, DeleteRule, DeleteNoMatch, tables
  <2> QED BY <2>1, QuietStep
<1>5. ASSUME NEW e \in Editors, NEW r \in Rules, PatchRead(e, r) PROVE Notices'
  <2>1. state' = state /\ last' = last /\ repeats' = repeats /\ disturbed' = disturbed /\ job' = job
    BY <1>5 DEF PatchRead, tables
  <2> QED BY <2>1, QuietStep
<1>6. CASE DeleteState
  <2>1. /\ last' = last /\ repeats' = repeats /\ job' = job /\ disturbed \subseteq disturbed'
        /\ state' = [state EXCEPT ![eraser.id] = "none"]
        /\ state[eraser.id] # "none" => eraser.id \in disturbed'
    BY <1>6 DEF DeleteState
  <2>2. \A r \in Rules \ disturbed' : state'[r] = state[r]
    BY <2>1 DEF AlertInv, TypeOK
  <2>3. OneChanges' /\ NewsOnly' /\ ToldFirst' /\ Alternates'
    BY <2>1 DEF AlertInv, OneChanges, NewsOnly, ToldFirst, Alternates, Telling, Storing, Changing
  <2>4. StateIsLastNotice'
    BY <2>1, <2>2 DEF AlertInv, StateIsLastNotice, StateOf
  <2> QED BY <2>3, <2>4 DEF Notices
<1>7. CASE DeleteEvals \/ UNCHANGED vars
  <2>1. state' = state /\ last' = last /\ repeats' = repeats /\ disturbed' = disturbed /\ job' = job
    BY <1>7 DEF DeleteEvals, vars, tables
  <2> QED BY <2>1, QuietStep
<1>8. ASSUME NEW e \in Editors, PatchWrite(e) PROVE Notices'
  <2>1. state' = state /\ last' = last /\ repeats' = repeats /\ disturbed' = disturbed /\ job' = job
    BY <1>8 DEF PatchWrite
  <2> QED BY <2>1, QuietStep
<1> QED BY <1>1, <1>2, <1>3, <1>4, <1>5, <1>6, <1>7, <1>8 DEF Next

\* The invariant holds in every execution.
THEOREM AlertInvariant == Spec => []AlertInv
<1>1. Init => AlertInv
  <2> SUFFICES ASSUME Init PROVE AlertInv
    OBVIOUS
  <2>1. \A t \in Ticks, w \in Workers : job[t][w] = Idle
    BY DEF Init
  <2>2. job \in [Ticks -> [Workers -> Jobs]]
    BY JobRecords DEF Init
  <2>3. rule \in [Rules -> RuleRecs]
    BY AlertsAssumption DEF Init
  <2>4. TypeOK
    BY <2>1, <2>2, <2>3 DEF Init, TypeOK
  <2>5. \A r \in Rules : StateOf(r) = last[r]
    BY DEF Init, StateOf
  <2>6. OneChanges /\ NewsOnly /\ ToldFirst /\ Alternates /\ StateIsLastNotice
    BY <2>1, <2>5, JobRecords
    DEF Init, OneChanges, NewsOnly, ToldFirst, Alternates, StateIsLastNotice, Telling, Storing, Changing
  <2> QED BY <2>4, <2>6 DEF AlertInv
<1>2. AlertInv /\ [Next]_vars => AlertInv'
  BY TypeStep, NoticeStep DEF AlertInv, Notices
<1> QED BY <1>1, <1>2, PTL DEF Spec

\* The tables and the workers' variables are well typed in every execution.
THEOREM TypeCorrect == Spec => []TypeOK
<1>1. AlertInv => TypeOK
  BY DEF AlertInv
<1> QED BY <1>1, AlertInvariant, PTL

\* Undisturbed rules never get the same notice twice in a row.
THEOREM AlternatesHolds == Spec => []Alternates
<1>1. AlertInv => Alternates
  BY DEF AlertInv
<1> QED BY <1>1, AlertInvariant, PTL

\* Undisturbed rules have the state their channels were last told.
THEOREM StateIsLastNoticeHolds == Spec => []StateIsLastNotice
<1>1. AlertInv => StateIsLastNotice
  BY DEF AlertInv
<1> QED BY <1>1, AlertInvariant, PTL
=============================================================================
