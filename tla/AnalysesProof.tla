---------------------------- MODULE AnalysesProof ----------------------------
(***************************************************************************)
(* Proofs about Analyses, for any number of analyses, ticks, workers and   *)
(* requests, any lease, refresh and retention.                             *)
(***************************************************************************)
EXTENDS Analyses, TLAPS

(***************************************************************************)
(* The inductive strengthening.  While a lease guards an analysis, the     *)
(* worker that holds it is the one whose claim time is in the row, and its *)
(* lease has not been outlived: this is what makes the WHERE clause of     *)
(* claimAnalysis refuse everybody else.                                    *)
(***************************************************************************)
PastTimes ==
    /\ \A a \in Analyses : lastRun[a] # NULL => lastRun[a] <= now
    /\ \A p \in Procs : work[p].pc \in {"claim"} \cup Holding => work[p].at <= now
    /\ \A p \in Procs : work[p].pc \in {"insert", "mark"} => work[p].gen <= now
    /\ \A r \in Requests : req[r].pc \in {"insert", "mark"} => req[r].gen <= now

HolderInRow ==
    \A a \in Analyses \ unguarded : \A p \in Procs :
        Active(p, a) => lastStart[a] = work[p].at /\ work[p].at + Lease >= now

HolderNewest ==
    \A a \in Analyses \ unguarded : \A p \in Procs :
        Active(p, a) /\ work[p].pc \in {"insert", "mark"} /\ lastRun[a] # NULL
            => work[p].gen >= lastRun[a]

MarkHasResult ==
    /\ \A p \in Procs : work[p].pc = "mark" => work[p].gen \in inserted[work[p].a]
    /\ \A r \in Requests : req[r].pc = "mark" => req[r].gen \in inserted[req[r].a]

LeaseInv ==
    /\ TypeOK
    /\ PastTimes
    /\ HolderInRow
    /\ HolderNewest
    /\ ExclusiveRun
    /\ MarkHasResult
    /\ RanOnlyAfterResult

-----------------------------------------------------------------------------
\* A worker id names the tick it belongs to.
LEMMA ProcTick == \A p \in Procs : p[1] \in Ticks
  BY DEF Procs

\* The initial state of the scheduler has the types of its columns.
LEMMA InitType == Init => TypeOK
  BY AnalysesAssumption, ProcTick DEF Init, TypeOK, StoreOK, TicksOK, WorkersOK, RequestsOK, Time,
     TimeOrNull, Off, IdleTick, IdleReq, Holding, Narratives

\* Every statement and handler step of the scheduler preserves the types.
LEMMA StepType == TypeOK /\ [Next]_vars => TypeOK'
<1> SUFFICES ASSUME TypeOK, [Next]_vars PROVE TypeOK'
  OBVIOUS
<1> USE AnalysesAssumption, ProcTick
    DEF TypeOK, Time, TimeOrNull, Off, IdleTick, IdleReq, Holding, Narratives, store
<1>1. ASSUME NEW t \in Ticks, StartTick(t) PROVE TypeOK'
  <2>1. StoreOK'
    BY <1>1 DEF StartTick, StoreOK
  <2>2. TicksOK'
    BY <1>1 DEF StartTick, StoreOK, TicksOK, WorkersOK, RequestsOK
  <2>3. WorkersOK'
    BY <1>1 DEF StartTick, WorkersOK
  <2>4. RequestsOK'
    BY <1>1 DEF StartTick, RequestsOK
  <2> QED BY <2>1, <2>2, <2>3, <2>4
<1>2. ASSUME NEW t \in Ticks, GetDue(t) PROVE TypeOK'
  <2>1. StoreOK'
    BY <1>2 DEF GetDue, GetDueAnalyses, StoreOK
  <2>2. TicksOK'
    <3> DEFINE due == GetDueAnalyses(tick[t].now)
    <3>1. due \in SUBSET Analyses
      BY DEF GetDueAnalyses
    <3> HIDE DEF due
    <3>2. CASE due = {}
      BY <1>2, <3>2 DEF GetDue, due, TicksOK
    <3>3. CASE due # {}
      <4>1. tick' = [tick EXCEPT ![t] = [pc |-> "run", now |-> tick[t].now, todo |-> {}, queue |-> due]]
        BY <1>2, <3>3 DEF GetDue, due
      <4>2. tick[t].pc = "refresh"
        BY <1>2 DEF GetDue
      <4>3. \A p \in Procs : work'[p] = IF p[1] = t THEN [Off EXCEPT !.pc = "pick"] ELSE work[p]
        BY <1>2, <3>3 DEF GetDue, due
      <4> QED BY <4>1, <4>2, <4>3, <3>1 DEF TicksOK
    <3> QED BY <3>2, <3>3
  <2>3. WorkersOK'
    <3>1. \/ work' = work
          \/ work' = [p \in Procs |-> IF p[1] = t THEN [Off EXCEPT !.pc = "pick"] ELSE work[p]]
      BY <1>2 DEF GetDue
    <3> QED BY <3>1 DEF WorkersOK
  <2>4. RequestsOK'
    BY <1>2 DEF GetDue, GetDueAnalyses, RequestsOK
  <2> QED BY <2>1, <2>2, <2>3, <2>4
<1>3. ASSUME NEW t \in Ticks, TickDone(t) PROVE TypeOK'
  <2>1. StoreOK'
    BY <1>3 DEF TickDone, StoreOK
  <2>2. TicksOK'
    BY <1>3 DEF TickDone, StoreOK, TicksOK, WorkersOK, RequestsOK
  <2>3. WorkersOK'
    BY <1>3 DEF TickDone, WorkersOK
  <2>4. RequestsOK'
    BY <1>3 DEF TickDone, RequestsOK
  <2> QED BY <2>1, <2>2, <2>3, <2>4
<1>4. ASSUME NEW t \in Ticks, NEW a \in Analyses, Upsert(t, a) PROVE TypeOK'
  <2>1. StoreOK'
    BY <1>4 DEF Upsert, StoreOK, TicksOK, WorkersOK, RequestsOK
  <2>2. TicksOK'
    BY <1>4 DEF Upsert, StoreOK, TicksOK, WorkersOK, RequestsOK
  <2>3. WorkersOK'
    BY <1>4 DEF Upsert, WorkersOK
  <2>4. RequestsOK'
    BY <1>4 DEF Upsert, RequestsOK
  <2> QED BY <2>1, <2>2, <2>3, <2>4
<1>5. ASSUME NEW p \in Procs, NEW a \in Analyses, Shift(p, a) PROVE TypeOK'
  <2>1. StoreOK'
    BY <1>5 DEF Shift, StoreOK
  <2>2. TicksOK'
    <3>1. p[1] \in Ticks /\ work[p].pc = "pick"
      BY <1>5 DEF Shift
    <3>2. tick[p[1]].queue \ {a} \in SUBSET Analyses
      BY <3>1 DEF TicksOK
    <3>3. tick' = [tick EXCEPT ![p[1]].queue = tick[p[1]].queue \ {a}]
      BY <1>5 DEF Shift
    <3>4. tick' \in [Ticks -> [pc : {"idle", "refresh", "run"}, now : TimeOrNull,
                               todo : SUBSET Analyses, queue : SUBSET Analyses]]
      BY <3>1, <3>2, <3>3 DEF TicksOK
    <3>5. \A t \in Ticks : tick'[t].pc = tick[t].pc /\ tick'[t].now = tick[t].now
      BY <3>1, <3>3 DEF TicksOK
    <3>6. tick[p[1]].pc = "run"
      BY <1>5, <3>1 DEF TicksOK
    <3>7. \A q \in Procs : q # p => work'[q] = work[q]
      BY <1>5 DEF Shift, WorkersOK
    <3> QED BY <3>4, <3>5, <3>6, <3>7 DEF TicksOK
  <2>3. WorkersOK'
    BY <1>5 DEF Shift, StoreOK, TicksOK, WorkersOK, RequestsOK
  <2>4. RequestsOK'
    BY <1>5 DEF Shift, RequestsOK
  <2> QED BY <2>1, <2>2, <2>3, <2>4
<1>6. ASSUME NEW p \in Procs, Claim(p) PROVE TypeOK'
  <2>1. StoreOK'
    BY <1>6 DEF Claim, StoreOK, TicksOK, WorkersOK, RequestsOK
  <2>2. TicksOK'
    BY <1>6 DEF Claim, StoreOK, TicksOK, WorkersOK, RequestsOK
  <2>3. WorkersOK'
    BY <1>6 DEF Claim, StoreOK, TicksOK, WorkersOK, RequestsOK
  <2>4. RequestsOK'
    BY <1>6 DEF Claim, RequestsOK
  <2> QED BY <2>1, <2>2, <2>3, <2>4
<1>7. ASSUME NEW p \in Procs, Skip(p) PROVE TypeOK'
  <2>1. StoreOK'
    BY <1>7 DEF Skip, StoreOK
  <2>2. TicksOK'
    BY <1>7 DEF Skip, StoreOK, TicksOK, WorkersOK, RequestsOK
  <2>3. WorkersOK'
    BY <1>7 DEF Skip, StoreOK, TicksOK, WorkersOK, RequestsOK
  <2>4. RequestsOK'
    BY <1>7 DEF Skip, RequestsOK
  <2> QED BY <2>1, <2>2, <2>3, <2>4
<1>8. ASSUME NEW p \in Procs, WorkerDone(p) PROVE TypeOK'
  <2>1. StoreOK'
    BY <1>8 DEF WorkerDone, StoreOK
  <2>2. TicksOK'
    BY <1>8 DEF WorkerDone, StoreOK, TicksOK, WorkersOK, RequestsOK
  <2>3. WorkersOK'
    BY <1>8 DEF WorkerDone, StoreOK, TicksOK, WorkersOK, RequestsOK
  <2>4. RequestsOK'
    BY <1>8 DEF WorkerDone, RequestsOK
  <2> QED BY <2>1, <2>2, <2>3, <2>4
<1>9. ASSUME NEW p \in Procs, RunSql(p) PROVE TypeOK'
  <2>1. StoreOK'
    BY <1>9 DEF RunSql, RowToDefinition, StoreOK
  <2>2. TicksOK'
    BY <1>9 DEF RunSql, RowToDefinition, StoreOK, TicksOK, WorkersOK, RequestsOK
  <2>3. WorkersOK'
    <3>1. PICK x \in Narratives :
            work' = [work EXCEPT ![p] =
                       [pc |-> "insert", a |-> work[p].a, at |-> work[p].at, gen |-> now, text |-> x]]
      BY <1>9, Zenon DEF RunSql
    <3>2. now \in Time /\ work[p].pc = "sql"
      BY <1>9 DEF StoreOK, RunSql
    <3> QED BY <3>1, <3>2 DEF WorkersOK
  <2>4. RequestsOK'
    BY <1>9 DEF RunSql, RowToDefinition, RequestsOK
  <2> QED BY <2>1, <2>2, <2>3, <2>4
<1>10. ASSUME NEW p \in Procs, Insert(p) PROVE TypeOK'
  <2>1. StoreOK'
    <3> DEFINE row == [gen |-> work[p].gen, exp |-> tick[p[1]].now + Retention, text |-> work[p].text]
    <3>1. work[p].a \in Analyses /\ work[p].gen \in Time /\ work[p].text \in Narratives
      BY <1>10 DEF Insert, WorkersOK
    <3>2. tick[p[1]].now \in Time
      BY <1>10 DEF Insert, TicksOK
    <3>3. row \in [gen : Time, exp : Time, text : Narratives]
      BY <3>1, <3>2
    <3> HIDE DEF row, Narratives
    <3>4. results' = [results EXCEPT ![work[p].a] = @ \cup {row}]
      BY <1>10 DEF Insert, InsertResult, row
    <3>5. results' \in [Analyses -> SUBSET [gen : Time, exp : Time, text : Narratives]]
      BY <3>1, <3>3, <3>4 DEF StoreOK
    <3>6. inserted' \in [Analyses -> SUBSET Time]
      BY <1>10, <3>1 DEF Insert, InsertResult, StoreOK
    <3> QED BY <1>10, <3>5, <3>6 DEF Insert, StoreOK
  <2>2. TicksOK'
    BY <1>10 DEF Insert, InsertResult, StoreOK, TicksOK, WorkersOK, RequestsOK
  <2>3. WorkersOK'
    BY <1>10 DEF Insert, InsertResult, StoreOK, TicksOK, WorkersOK, RequestsOK
  <2>4. RequestsOK'
    BY <1>10 DEF Insert, InsertResult, RequestsOK
  <2> QED BY <2>1, <2>2, <2>3, <2>4
<1>11. ASSUME NEW p \in Procs, Mark(p) PROVE TypeOK'
  <2>1. StoreOK'
    BY <1>11 DEF Mark, MarkRan, StoreOK, TicksOK, WorkersOK, RequestsOK
  <2>2. TicksOK'
    BY <1>11 DEF Mark, MarkRan, StoreOK, TicksOK, WorkersOK, RequestsOK
  <2>3. WorkersOK'
    BY <1>11 DEF Mark, MarkRan, StoreOK, TicksOK, WorkersOK, RequestsOK
  <2>4. RequestsOK'
    BY <1>11 DEF Mark, MarkRan, RequestsOK
  <2> QED BY <2>1, <2>2, <2>3, <2>4
<1>12. ASSUME NEW p \in Procs, Release(p) PROVE TypeOK'
  <2>1. StoreOK'
    BY <1>12 DEF Release, ReleaseClaim, StoreOK, TicksOK, WorkersOK, RequestsOK
  <2>2. TicksOK'
    BY <1>12 DEF Release, ReleaseClaim, StoreOK, TicksOK, WorkersOK, RequestsOK
  <2>3. WorkersOK'
    BY <1>12 DEF Release, ReleaseClaim, StoreOK, TicksOK, WorkersOK, RequestsOK
  <2>4. RequestsOK'
    BY <1>12 DEF Release, ReleaseClaim, RequestsOK
  <2> QED BY <2>1, <2>2, <2>3, <2>4
<1>13. ASSUME NEW r \in Requests, RequestSql(r) PROVE TypeOK'
  <2>1. StoreOK'
    BY <1>13 DEF RequestSql, StoreOK
  <2>2. TicksOK'
    BY <1>13 DEF RequestSql, TicksOK
  <2>3. WorkersOK'
    BY <1>13 DEF RequestSql, WorkersOK
  <2>4. RequestsOK'
    <3>1. now \in Time
      BY DEF StoreOK
    <3> QED BY <1>13, <3>1 DEF RequestSql, RequestsOK
  <2> QED BY <2>1, <2>2, <2>3, <2>4
<1>14. ASSUME NEW r \in Requests, RequestInsert(r) PROVE TypeOK'
  <2>1. StoreOK'
    BY <1>14 DEF RequestInsert, InsertResult, StoreOK, TicksOK, WorkersOK, RequestsOK
  <2>2. TicksOK'
    BY <1>14 DEF RequestInsert, InsertResult, TicksOK
  <2>3. WorkersOK'
    BY <1>14 DEF RequestInsert, InsertResult, WorkersOK
  <2>4. RequestsOK'
    BY <1>14 DEF RequestInsert, InsertResult, StoreOK, TicksOK, WorkersOK, RequestsOK
  <2> QED BY <2>1, <2>2, <2>3, <2>4
<1>15. ASSUME NEW r \in Requests, RequestMark(r) PROVE TypeOK'
  <2>1. StoreOK'
    BY <1>15 DEF RequestMark, MarkRan, StoreOK, TicksOK, WorkersOK, RequestsOK
  <2>2. TicksOK'
    BY <1>15 DEF RequestMark, MarkRan, TicksOK
  <2>3. WorkersOK'
    BY <1>15 DEF RequestMark, MarkRan, WorkersOK
  <2>4. RequestsOK'
    BY <1>15 DEF RequestMark, MarkRan, StoreOK, TicksOK, WorkersOK, RequestsOK
  <2> QED BY <2>1, <2>2, <2>3, <2>4
<1>16. ASSUME NEW r \in Requests, NEW a \in Analyses, StartRequest(r, a) PROVE TypeOK'
  <2>1. StoreOK'
    BY <1>16 DEF StartRequest, StoreOK
  <2>2. TicksOK'
    BY <1>16 DEF StartRequest, TicksOK
  <2>3. WorkersOK'
    BY <1>16 DEF StartRequest, WorkersOK
  <2>4. RequestsOK'
    BY <1>16 DEF StartRequest, StoreOK, TicksOK, WorkersOK, RequestsOK
  <2> QED BY <2>1, <2>2, <2>3, <2>4
<1>17. ASSUME NEW t \in Ticks, Crash(t) PROVE TypeOK'
  <2>1. StoreOK'
    BY <1>17 DEF Crash, Fault, StoreOK, TicksOK, WorkersOK, RequestsOK
  <2>2. TicksOK'
    BY <1>17 DEF Crash, Fault, StoreOK, TicksOK, WorkersOK, RequestsOK
  <2>3. WorkersOK'
    BY <1>17 DEF Crash, Fault, StoreOK, TicksOK, WorkersOK, RequestsOK
  <2>4. RequestsOK'
    BY <1>17 DEF Crash, Fault, RequestsOK
  <2> QED BY <2>1, <2>2, <2>3, <2>4
<1>18. ASSUME NEW t \in Ticks, NEW a \in Analyses, UpsertFails(t, a) PROVE TypeOK'
  <2>1. StoreOK'
    BY <1>18 DEF UpsertFails, Fault, StoreOK, TicksOK, WorkersOK, RequestsOK
  <2>2. TicksOK'
    BY <1>18 DEF UpsertFails, Fault, StoreOK, TicksOK, WorkersOK, RequestsOK
  <2>3. WorkersOK'
    BY <1>18 DEF UpsertFails, Fault, WorkersOK
  <2>4. RequestsOK'
    BY <1>18 DEF UpsertFails, Fault, RequestsOK
  <2> QED BY <2>1, <2>2, <2>3, <2>4
<1>19. ASSUME NEW p \in Procs, ClaimFails(p) PROVE TypeOK'
  <2>1. StoreOK'
    BY <1>19 DEF ClaimFails, Fault, StoreOK, TicksOK, WorkersOK, RequestsOK
  <2>2. TicksOK'
    BY <1>19 DEF ClaimFails, Fault, StoreOK, TicksOK, WorkersOK, RequestsOK
  <2>3. WorkersOK'
    BY <1>19 DEF ClaimFails, Fault, StoreOK, TicksOK, WorkersOK, RequestsOK
  <2>4. RequestsOK'
    BY <1>19 DEF ClaimFails, Fault, RequestsOK
  <2> QED BY <2>1, <2>2, <2>3, <2>4
<1>20. ASSUME NEW p \in Procs, ReleaseFails(p) PROVE TypeOK'
  <2>1. StoreOK'
    BY <1>20 DEF ReleaseFails, Fault, StoreOK, TicksOK, WorkersOK, RequestsOK
  <2>2. TicksOK'
    BY <1>20 DEF ReleaseFails, Fault, StoreOK, TicksOK, WorkersOK, RequestsOK
  <2>3. WorkersOK'
    BY <1>20 DEF ReleaseFails, Fault, StoreOK, TicksOK, WorkersOK, RequestsOK
  <2>4. RequestsOK'
    BY <1>20 DEF ReleaseFails, Fault, RequestsOK
  <2> QED BY <2>1, <2>2, <2>3, <2>4
<1>21. ASSUME NEW p \in Procs, RunFails(p) PROVE TypeOK'
  <2>1. StoreOK'
    BY <1>21 DEF RunFails, Fault, StoreOK, TicksOK, WorkersOK, RequestsOK
  <2>2. TicksOK'
    BY <1>21 DEF RunFails, Fault, StoreOK, TicksOK, WorkersOK, RequestsOK
  <2>3. WorkersOK'
    BY <1>21 DEF RunFails, Fault, StoreOK, TicksOK, WorkersOK, RequestsOK
  <2>4. RequestsOK'
    BY <1>21 DEF RunFails, Fault, RequestsOK
  <2> QED BY <2>1, <2>2, <2>3, <2>4
<1>22. ASSUME NEW r \in Requests, RequestFails(r) PROVE TypeOK'
  <2>1. StoreOK'
    BY <1>22 DEF RequestFails, Fault, StoreOK, TicksOK, WorkersOK, RequestsOK
  <2>2. TicksOK'
    BY <1>22 DEF RequestFails, Fault, TicksOK
  <2>3. WorkersOK'
    BY <1>22 DEF RequestFails, Fault, WorkersOK
  <2>4. RequestsOK'
    BY <1>22 DEF RequestFails, Fault, StoreOK, TicksOK, WorkersOK, RequestsOK
  <2> QED BY <2>1, <2>2, <2>3, <2>4
<1>23. CASE PurgeExpired
  BY <1>23 DEF PurgeExpired, StoreOK, TicksOK, WorkersOK, RequestsOK
<1>24. CASE Advance
  BY <1>24 DEF Advance, StoreOK, TicksOK, WorkersOK, RequestsOK
<1>25. CASE UNCHANGED vars
  BY <1>25 DEF vars, StoreOK, TicksOK, WorkersOK, RequestsOK
<1> QED
  BY <1>1, <1>2, <1>3, <1>4, <1>5, <1>6, <1>7, <1>8, <1>9, <1>10, <1>11, <1>12, <1>13,
     <1>14, <1>15, <1>16, <1>17, <1>18, <1>19, <1>20, <1>21, <1>22, <1>23, <1>24, <1>25
  DEF Next, TickStep, WorkerStep, RequestStep, Failure

\* The tables and the handlers of the scheduler keep their types in every
\* execution, whatever fails and however the handlers interleave.
THEOREM TypeCorrect == Spec => []TypeOK
<1>1. Init => TypeOK
  BY InitType
<1>2. TypeOK /\ [Next]_vars => TypeOK'
  BY StepType
<1> QED
  BY <1>1, <1>2, PTL DEF Spec

-----------------------------------------------------------------------------
\* Every step of the scheduler preserves the lease invariant.
LEMMA StepLease == LeaseInv /\ [Next]_vars => LeaseInv'
<1> SUFFICES ASSUME LeaseInv, [Next]_vars PROVE LeaseInv'
  OBVIOUS
<1> TypeOK'
  BY StepType DEF LeaseInv
<1> TypeOK /\ StoreOK /\ WorkersOK /\ RequestsOK
  BY DEF LeaseInv, TypeOK
<1> USE AnalysesAssumption DEF Time, TimeOrNull, Holding, Off, IdleReq, store
<1>1. ASSUME NEW t \in Ticks, GetDue(t) PROVE LeaseInv'
  <2>1. PastTimes'
    BY <1>1 DEF GetDue, LeaseInv, PastTimes, StoreOK, WorkersOK
  <2>2. HolderInRow'
    BY <1>1 DEF GetDue, LeaseInv, HolderInRow, ExclusiveRun, Active, StoreOK, WorkersOK
  <2>3. HolderNewest'
    BY <1>1 DEF GetDue, LeaseInv, HolderNewest, ExclusiveRun, PastTimes, Active, StoreOK, WorkersOK
  <2>4. ExclusiveRun'
    BY <1>1 DEF GetDue, LeaseInv, ExclusiveRun, Active, StoreOK, WorkersOK
  <2>5. MarkHasResult'
    BY <1>1 DEF GetDue, LeaseInv, MarkHasResult, StoreOK, WorkersOK
  <2>6. RanOnlyAfterResult'
    BY <1>1 DEF GetDue, LeaseInv, RanOnlyAfterResult, MarkHasResult, StoreOK, WorkersOK
  <2> QED BY <2>1, <2>2, <2>3, <2>4, <2>5, <2>6 DEF LeaseInv
<1>2. ASSUME NEW p \in Procs, NEW b \in Analyses, Shift(p, b) PROVE LeaseInv'
  <2>1. PastTimes'
    BY <1>2 DEF Shift, LeaseInv, PastTimes, StoreOK, WorkersOK
  <2>2. HolderInRow'
    BY <1>2 DEF Shift, LeaseInv, HolderInRow, ExclusiveRun, Active, StoreOK, WorkersOK
  <2>3. HolderNewest'
    BY <1>2 DEF Shift, LeaseInv, HolderNewest, ExclusiveRun, PastTimes, Active, StoreOK, WorkersOK
  <2>4. ExclusiveRun'
    BY <1>2 DEF Shift, LeaseInv, ExclusiveRun, Active, StoreOK, WorkersOK
  <2>5. MarkHasResult'
    BY <1>2 DEF Shift, LeaseInv, MarkHasResult, StoreOK, WorkersOK
  <2>6. RanOnlyAfterResult'
    BY <1>2 DEF Shift, LeaseInv, RanOnlyAfterResult, MarkHasResult, StoreOK, WorkersOK
  <2> QED BY <2>1, <2>2, <2>3, <2>4, <2>5, <2>6 DEF LeaseInv
<1>3. ASSUME NEW p \in Procs, Claim(p) PROVE LeaseInv'
  <2>1. PastTimes'
    BY <1>3 DEF Claim, LeaseFree, LeaseInv, PastTimes, StoreOK, WorkersOK
  <2>2. HolderInRow'
    BY <1>3 DEF Claim, LeaseFree, LeaseInv, HolderInRow, ExclusiveRun, Active, PastTimes, StoreOK, WorkersOK
  <2>3. HolderNewest'
    BY <1>3 DEF Claim, LeaseFree, LeaseInv, HolderNewest, ExclusiveRun, PastTimes, Active, StoreOK, WorkersOK
  <2>4. ExclusiveRun'
    BY <1>3 DEF Claim, LeaseFree, LeaseInv, ExclusiveRun, HolderInRow, PastTimes, Active, StoreOK, WorkersOK
  <2>5. MarkHasResult'
    BY <1>3 DEF Claim, LeaseFree, LeaseInv, MarkHasResult, StoreOK, WorkersOK
  <2>6. RanOnlyAfterResult'
    BY <1>3 DEF Claim, LeaseFree, LeaseInv, RanOnlyAfterResult, MarkHasResult, StoreOK, WorkersOK
  <2> QED BY <2>1, <2>2, <2>3, <2>4, <2>5, <2>6 DEF LeaseInv
<1>4. ASSUME NEW p \in Procs, Skip(p) \/ WorkerDone(p) PROVE LeaseInv'
  <2>1. PastTimes'
    <3>1. /\ \A q \in Procs : q # p => work'[q] = work[q]
          /\ work'[p].pc \in {"pick", "off"}
          /\ UNCHANGED <<now, lastRun, req>>
      BY <1>4 DEF Skip, WorkerDone, WorkersOK
    <3> QED BY <3>1 DEF LeaseInv, PastTimes
  <2>2. HolderInRow'
    BY <1>4 DEF Skip, WorkerDone, LeaseInv, HolderInRow, ExclusiveRun, Active, StoreOK, WorkersOK
  <2>3. HolderNewest'
    BY <1>4 DEF Skip, WorkerDone, LeaseInv, HolderNewest, ExclusiveRun, PastTimes, Active, StoreOK, WorkersOK
  <2>4. ExclusiveRun'
    BY <1>4 DEF Skip, WorkerDone, LeaseInv, ExclusiveRun, Active, StoreOK, WorkersOK
  <2>5. MarkHasResult'
    BY <1>4 DEF Skip, WorkerDone, LeaseInv, MarkHasResult, StoreOK, WorkersOK
  <2>6. RanOnlyAfterResult'
    BY <1>4 DEF Skip, WorkerDone, LeaseInv, RanOnlyAfterResult, MarkHasResult, StoreOK, WorkersOK
  <2> QED BY <2>1, <2>2, <2>3, <2>4, <2>5, <2>6 DEF LeaseInv
<1>5. ASSUME NEW p \in Procs, RunSql(p) PROVE LeaseInv'
  <2>1. PastTimes'
    BY <1>5 DEF RunSql, LeaseInv, PastTimes, StoreOK, WorkersOK
  <2>2. HolderInRow'
    BY <1>5 DEF RunSql, LeaseInv, HolderInRow, ExclusiveRun, Active, StoreOK, WorkersOK
  <2>3. HolderNewest'
    BY <1>5 DEF RunSql, LeaseInv, HolderNewest, ExclusiveRun, PastTimes, Active, StoreOK, WorkersOK
  <2>4. ExclusiveRun'
    BY <1>5 DEF RunSql, LeaseInv, ExclusiveRun, Active, StoreOK, WorkersOK
  <2>5. MarkHasResult'
    BY <1>5 DEF RunSql, LeaseInv, MarkHasResult, StoreOK, WorkersOK
  <2>6. RanOnlyAfterResult'
    BY <1>5 DEF RunSql, LeaseInv, RanOnlyAfterResult, MarkHasResult, StoreOK, WorkersOK
  <2> QED BY <2>1, <2>2, <2>3, <2>4, <2>5, <2>6 DEF LeaseInv
<1>6. ASSUME NEW p \in Procs, Insert(p) PROVE LeaseInv'
  <2>1. PastTimes'
    BY <1>6 DEF Insert, InsertResult, LeaseInv, PastTimes, StoreOK, WorkersOK
  <2>2. HolderInRow'
    BY <1>6 DEF Insert, InsertResult, LeaseInv, HolderInRow, ExclusiveRun, Active, StoreOK, WorkersOK
  <2>3. HolderNewest'
    BY <1>6 DEF Insert, InsertResult, LeaseInv, HolderNewest, ExclusiveRun, PastTimes, Active, StoreOK, WorkersOK
  <2>4. ExclusiveRun'
    BY <1>6 DEF Insert, InsertResult, LeaseInv, ExclusiveRun, Active, StoreOK, WorkersOK
  <2>5. MarkHasResult'
    BY <1>6 DEF Insert, InsertResult, LeaseInv, MarkHasResult, StoreOK, WorkersOK
  <2>6. RanOnlyAfterResult'
    BY <1>6 DEF Insert, InsertResult, LeaseInv, RanOnlyAfterResult, MarkHasResult, StoreOK, WorkersOK
  <2> QED BY <2>1, <2>2, <2>3, <2>4, <2>5, <2>6 DEF LeaseInv
<1>7. ASSUME NEW p \in Procs, Mark(p) PROVE LeaseInv'
  <2>1. PastTimes'
    BY <1>7 DEF Mark, MarkRan, LeaseInv, PastTimes, StoreOK, WorkersOK
  <2>2. HolderInRow'
    BY <1>7 DEF Mark, MarkRan, LeaseInv, HolderInRow, ExclusiveRun, Active, StoreOK, WorkersOK
  <2>3. HolderNewest'
    BY <1>7 DEF Mark, MarkRan, LeaseInv, HolderNewest, ExclusiveRun, PastTimes, Active, StoreOK, WorkersOK
  <2>4. ExclusiveRun'
    BY <1>7 DEF Mark, MarkRan, LeaseInv, ExclusiveRun, Active, StoreOK, WorkersOK
  <2>5. MarkHasResult'
    BY <1>7 DEF Mark, MarkRan, LeaseInv, MarkHasResult, StoreOK, WorkersOK
  <2>6. RanOnlyAfterResult'
    BY <1>7 DEF Mark, MarkRan, LeaseInv, RanOnlyAfterResult, MarkHasResult, StoreOK, WorkersOK
  <2> QED BY <2>1, <2>2, <2>3, <2>4, <2>5, <2>6 DEF LeaseInv
<1>8. ASSUME NEW p \in Procs, Release(p) PROVE LeaseInv'
  <2>1. PastTimes'
    BY <1>8 DEF Release, ReleaseClaim, LeaseInv, PastTimes, StoreOK, WorkersOK
  <2>2. HolderInRow'
    BY <1>8 DEF Release, ReleaseClaim, LeaseInv, HolderInRow, ExclusiveRun, Active, StoreOK, WorkersOK
  <2>3. HolderNewest'
    BY <1>8 DEF Release, ReleaseClaim, LeaseInv, HolderNewest, ExclusiveRun, PastTimes, Active, StoreOK, WorkersOK
  <2>4. ExclusiveRun'
    BY <1>8 DEF Release, ReleaseClaim, LeaseInv, ExclusiveRun, Active, StoreOK, WorkersOK
  <2>5. MarkHasResult'
    BY <1>8 DEF Release, ReleaseClaim, LeaseInv, MarkHasResult, StoreOK, WorkersOK
  <2>6. RanOnlyAfterResult'
    BY <1>8 DEF Release, ReleaseClaim, LeaseInv, RanOnlyAfterResult, MarkHasResult, StoreOK, WorkersOK
  <2> QED BY <2>1, <2>2, <2>3, <2>4, <2>5, <2>6 DEF LeaseInv
<1>9. ASSUME NEW p \in Procs, ClaimFails(p) \/ ReleaseFails(p) PROVE LeaseInv'
  <2>1. PastTimes'
    <3>1. /\ \A q \in Procs : q # p => work'[q] = work[q]
          /\ work'[p].pc \in {"pick", "off"}
          /\ UNCHANGED <<now, lastRun, req>>
      BY <1>9 DEF ClaimFails, ReleaseFails, WorkersOK
    <3> QED BY <3>1 DEF LeaseInv, PastTimes
  <2>2. HolderInRow'
    BY <1>9 DEF ClaimFails, ReleaseFails, LeaseInv, HolderInRow, ExclusiveRun, Active, StoreOK, WorkersOK
  <2>3. HolderNewest'
    BY <1>9 DEF ClaimFails, ReleaseFails, LeaseInv, HolderNewest, ExclusiveRun, PastTimes, Active, StoreOK, WorkersOK
  <2>4. ExclusiveRun'
    BY <1>9 DEF ClaimFails, ReleaseFails, LeaseInv, ExclusiveRun, Active, StoreOK, WorkersOK
  <2>5. MarkHasResult'
    BY <1>9 DEF ClaimFails, ReleaseFails, LeaseInv, MarkHasResult, StoreOK, WorkersOK
  <2>6. RanOnlyAfterResult'
    BY <1>9 DEF ClaimFails, ReleaseFails, LeaseInv, RanOnlyAfterResult, MarkHasResult, StoreOK, WorkersOK
  <2> QED BY <2>1, <2>2, <2>3, <2>4, <2>5, <2>6 DEF LeaseInv
<1>10. ASSUME NEW p \in Procs, RunFails(p) PROVE LeaseInv'
  <2>1. PastTimes'
    BY <1>10 DEF RunFails, LeaseInv, PastTimes, StoreOK, WorkersOK
  <2>2. HolderInRow'
    BY <1>10 DEF RunFails, LeaseInv, HolderInRow, ExclusiveRun, Active, StoreOK, WorkersOK
  <2>3. HolderNewest'
    BY <1>10 DEF RunFails, LeaseInv, HolderNewest, ExclusiveRun, PastTimes, Active, StoreOK, WorkersOK
  <2>4. ExclusiveRun'
    BY <1>10 DEF RunFails, LeaseInv, ExclusiveRun, Active, StoreOK, WorkersOK
  <2>5. MarkHasResult'
    BY <1>10 DEF RunFails, LeaseInv, MarkHasResult, StoreOK, WorkersOK
  <2>6. RanOnlyAfterResult'
    BY <1>10 DEF RunFails, LeaseInv, RanOnlyAfterResult, MarkHasResult, StoreOK, WorkersOK
  <2> QED BY <2>1, <2>2, <2>3, <2>4, <2>5, <2>6 DEF LeaseInv
<1>11. ASSUME NEW t \in Ticks, Crash(t) PROVE LeaseInv'
  <2>1. PastTimes'
    BY <1>11 DEF Crash, LeaseInv, PastTimes, StoreOK, WorkersOK
  <2>2. HolderInRow'
    BY <1>11 DEF Crash, LeaseInv, HolderInRow, ExclusiveRun, Active, StoreOK, WorkersOK
  <2>3. HolderNewest'
    BY <1>11 DEF Crash, LeaseInv, HolderNewest, ExclusiveRun, PastTimes, Active, StoreOK, WorkersOK
  <2>4. ExclusiveRun'
    BY <1>11 DEF Crash, LeaseInv, ExclusiveRun, Active, StoreOK, WorkersOK
  <2>5. MarkHasResult'
    BY <1>11 DEF Crash, LeaseInv, MarkHasResult, StoreOK, WorkersOK
  <2>6. RanOnlyAfterResult'
    BY <1>11 DEF Crash, LeaseInv, RanOnlyAfterResult, MarkHasResult, StoreOK, WorkersOK
  <2> QED BY <2>1, <2>2, <2>3, <2>4, <2>5, <2>6 DEF LeaseInv
<1>12. ASSUME NEW r \in Requests, NEW b \in Analyses, StartRequest(r, b) PROVE LeaseInv'
  <2>1. PastTimes'
    BY <1>12 DEF StartRequest, LeaseInv, PastTimes, StoreOK, RequestsOK, WorkersOK
  <2>2. HolderInRow'
    BY <1>12 DEF StartRequest, LeaseInv, HolderInRow, ExclusiveRun, Active, StoreOK, RequestsOK, WorkersOK
  <2>3. HolderNewest'
    BY <1>12 DEF StartRequest, LeaseInv, HolderNewest, ExclusiveRun, PastTimes, Active, StoreOK, RequestsOK, WorkersOK
  <2>4. ExclusiveRun'
    BY <1>12 DEF StartRequest, LeaseInv, ExclusiveRun, Active, StoreOK, RequestsOK, WorkersOK
  <2>5. MarkHasResult'
    BY <1>12 DEF StartRequest, LeaseInv, MarkHasResult, StoreOK, RequestsOK, WorkersOK
  <2>6. RanOnlyAfterResult'
    BY <1>12 DEF StartRequest, LeaseInv, RanOnlyAfterResult, MarkHasResult, StoreOK, RequestsOK, WorkersOK
  <2> QED BY <2>1, <2>2, <2>3, <2>4, <2>5, <2>6 DEF LeaseInv
<1>13. ASSUME NEW r \in Requests, RequestSql(r) PROVE LeaseInv'
  <2>1. PastTimes'
    BY <1>13 DEF RequestSql, LeaseInv, PastTimes, StoreOK, RequestsOK, WorkersOK
  <2>2. HolderInRow'
    BY <1>13 DEF RequestSql, LeaseInv, HolderInRow, ExclusiveRun, Active, StoreOK, RequestsOK, WorkersOK
  <2>3. HolderNewest'
    BY <1>13 DEF RequestSql, LeaseInv, HolderNewest, ExclusiveRun, PastTimes, Active, StoreOK, RequestsOK, WorkersOK
  <2>4. ExclusiveRun'
    BY <1>13 DEF RequestSql, LeaseInv, ExclusiveRun, Active, StoreOK, RequestsOK, WorkersOK
  <2>5. MarkHasResult'
    BY <1>13 DEF RequestSql, LeaseInv, MarkHasResult, StoreOK, RequestsOK, WorkersOK
  <2>6. RanOnlyAfterResult'
    BY <1>13 DEF RequestSql, LeaseInv, RanOnlyAfterResult, MarkHasResult, StoreOK, RequestsOK, WorkersOK
  <2> QED BY <2>1, <2>2, <2>3, <2>4, <2>5, <2>6 DEF LeaseInv
<1>14. ASSUME NEW r \in Requests, RequestInsert(r) PROVE LeaseInv'
  <2>1. PastTimes'
    BY <1>14 DEF RequestInsert, InsertResult, LeaseInv, PastTimes, StoreOK, RequestsOK, WorkersOK
  <2>2. HolderInRow'
    BY <1>14 DEF RequestInsert, InsertResult, LeaseInv, HolderInRow, ExclusiveRun, Active, StoreOK, RequestsOK, WorkersOK
  <2>3. HolderNewest'
    BY <1>14 DEF RequestInsert, InsertResult, LeaseInv, HolderNewest, ExclusiveRun, PastTimes, Active, StoreOK, RequestsOK, WorkersOK
  <2>4. ExclusiveRun'
    BY <1>14 DEF RequestInsert, InsertResult, LeaseInv, ExclusiveRun, Active, StoreOK, RequestsOK, WorkersOK
  <2>5. MarkHasResult'
    BY <1>14 DEF RequestInsert, InsertResult, LeaseInv, MarkHasResult, StoreOK, RequestsOK, WorkersOK
  <2>6. RanOnlyAfterResult'
    BY <1>14 DEF RequestInsert, InsertResult, LeaseInv, RanOnlyAfterResult, MarkHasResult, StoreOK, RequestsOK, WorkersOK
  <2> QED BY <2>1, <2>2, <2>3, <2>4, <2>5, <2>6 DEF LeaseInv
<1>15. ASSUME NEW r \in Requests, RequestMark(r) PROVE LeaseInv'
  <2>1. PastTimes'
    BY <1>15 DEF RequestMark, MarkRan, LeaseInv, PastTimes, StoreOK, RequestsOK, WorkersOK
  <2>2. HolderInRow'
    BY <1>15 DEF RequestMark, MarkRan, LeaseInv, HolderInRow, ExclusiveRun, Active, StoreOK, RequestsOK, WorkersOK
  <2>3. HolderNewest'
    BY <1>15 DEF RequestMark, MarkRan, LeaseInv, HolderNewest, ExclusiveRun, PastTimes, Active, StoreOK, RequestsOK, WorkersOK
  <2>4. ExclusiveRun'
    BY <1>15 DEF RequestMark, MarkRan, LeaseInv, ExclusiveRun, Active, StoreOK, RequestsOK, WorkersOK
  <2>5. MarkHasResult'
    BY <1>15 DEF RequestMark, MarkRan, LeaseInv, MarkHasResult, StoreOK, RequestsOK, WorkersOK
  <2>6. RanOnlyAfterResult'
    BY <1>15 DEF RequestMark, MarkRan, LeaseInv, RanOnlyAfterResult, MarkHasResult, StoreOK, RequestsOK, WorkersOK
  <2> QED BY <2>1, <2>2, <2>3, <2>4, <2>5, <2>6 DEF LeaseInv
<1>16. ASSUME NEW r \in Requests, RequestFails(r) PROVE LeaseInv'
  <2>1. PastTimes'
    BY <1>16 DEF RequestFails, LeaseInv, PastTimes, StoreOK, RequestsOK, WorkersOK
  <2>2. HolderInRow'
    BY <1>16 DEF RequestFails, LeaseInv, HolderInRow, ExclusiveRun, Active, StoreOK, RequestsOK, WorkersOK
  <2>3. HolderNewest'
    BY <1>16 DEF RequestFails, LeaseInv, HolderNewest, ExclusiveRun, PastTimes, Active, StoreOK, RequestsOK, WorkersOK
  <2>4. ExclusiveRun'
    BY <1>16 DEF RequestFails, LeaseInv, ExclusiveRun, Active, StoreOK, RequestsOK, WorkersOK
  <2>5. MarkHasResult'
    BY <1>16 DEF RequestFails, LeaseInv, MarkHasResult, StoreOK, RequestsOK, WorkersOK
  <2>6. RanOnlyAfterResult'
    BY <1>16 DEF RequestFails, LeaseInv, RanOnlyAfterResult, MarkHasResult, StoreOK, RequestsOK, WorkersOK
  <2> QED BY <2>1, <2>2, <2>3, <2>4, <2>5, <2>6 DEF LeaseInv
<1>17. ASSUME NEW t \in Ticks,
            \/ StartTick(t) \/ TickDone(t)
            \/ \E a \in Analyses : Upsert(t, a) \/ UpsertFails(t, a)
      PROVE LeaseInv'
  BY <1>17 DEF StartTick, TickDone, Upsert, UpsertFails, LeaseInv, PastTimes, HolderInRow, HolderNewest, ExclusiveRun, MarkHasResult, RanOnlyAfterResult, Active
<1>18. CASE PurgeExpired
  BY <1>18 DEF PurgeExpired, LeaseInv, PastTimes, HolderInRow, HolderNewest, ExclusiveRun, MarkHasResult, RanOnlyAfterResult, Active
<1>19. CASE Advance
  BY <1>19 DEF Advance, LeaseInv, PastTimes, HolderInRow, HolderNewest, ExclusiveRun, MarkHasResult, RanOnlyAfterResult, Active, StoreOK, WorkersOK, RequestsOK
<1>20. CASE UNCHANGED vars
  BY <1>20 DEF vars, LeaseInv, PastTimes, HolderInRow, HolderNewest, ExclusiveRun, MarkHasResult, RanOnlyAfterResult, Active
<1> QED
  BY <1>1, <1>2, <1>3, <1>4, <1>5, <1>6, <1>7, <1>8, <1>9, <1>10, <1>11, <1>12, <1>13, <1>14, <1>15, <1>16, <1>17, <1>18, <1>19, <1>20
  DEF Next, TickStep, WorkerStep, RequestStep, Failure

\* No analysis has run and nobody holds a lease when the collector starts.
LEMMA InitLease == Init => LeaseInv
<1> SUFFICES ASSUME Init PROVE LeaseInv
  OBVIOUS
<1>1. TypeOK
  BY InitType
<1> QED BY <1>1 DEF Init, LeaseInv, PastTimes, HolderInRow, HolderNewest, ExclusiveRun, MarkHasResult, RanOnlyAfterResult, Active, Off, IdleReq, Holding

\* The lease invariant holds in every execution of the scheduler.
THEOREM LeaseInvariant == Spec => []LeaseInv
<1>1. Init => LeaseInv
  BY InitLease
<1>2. LeaseInv /\ [Next]_vars => LeaseInv'
  BY StepLease
<1> QED
  BY <1>1, <1>2, PTL DEF Spec

\* claimAnalysis gives each analysis to one worker at a time, for any number of
\* ticks, workers and faults, until a run outlives its lease or an on-demand
\* run clears it.
THEOREM ExclusiveRunHolds == Spec => []ExclusiveRun
<1>1. LeaseInv => ExclusiveRun
  BY DEF LeaseInv
<1> QED BY <1>1, LeaseInvariant, PTL

\* Of all the statements only the two markRan calls move last_run_at.
LEMMA StepForward == LeaseInv /\ [Next]_vars => [LastRunStep]_vars
<1> SUFFICES ASSUME LeaseInv, Next PROVE LastRunStep
  OBVIOUS
<1> StoreOK /\ WorkersOK
  BY DEF LeaseInv, TypeOK
<1> USE AnalysesAssumption DEF Time, TimeOrNull, Holding, store
<1>1. ASSUME NEW p \in Procs, Mark(p) PROVE LastRunStep
  BY <1>1 DEF Mark, MarkRan, LastRunStep, LeaseInv, HolderNewest, Active, StoreOK, WorkersOK
<1>2. ASSUME NEW r \in Requests, RequestMark(r) PROVE LastRunStep
  BY <1>2 DEF RequestMark, MarkRan, LastRunStep, StoreOK
<1>3. CASE lastRun' = lastRun
  BY <1>3 DEF LastRunStep, StoreOK
<1> QED
  BY <1>1, <1>2, <1>3 DEF Next, TickStep, WorkerStep, RequestStep, Failure, StartTick, GetDue,
     TickDone, Upsert, UpsertFails, Crash, Shift, Claim, Skip, ClaimFails, RunSql, Insert, RunFails,
     Release, ReleaseClaim, ReleaseFails, WorkerDone, StartRequest, RequestSql, RequestInsert,
     RequestFails, PurgeExpired, Advance

\* last_run_at never moves back while the lease guards the analysis.
THEOREM LastRunForwardHolds == Spec => LastRunForward
<1>1. LeaseInv /\ [Next]_vars => [LastRunStep]_vars
  BY StepForward
<1> QED
  BY <1>1, LeaseInvariant, PTL DEF Spec, LastRunForward

\* last_run_at always names a result that insertResult stored.
THEOREM RanOnlyAfterResultHolds == Spec => []RanOnlyAfterResult
<1>1. LeaseInv => RanOnlyAfterResult
  BY DEF LeaseInv
<1> QED BY <1>1, LeaseInvariant, PTL
=============================================================================
