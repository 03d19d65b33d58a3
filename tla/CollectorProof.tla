--------------------------- MODULE CollectorProof ---------------------------
(***************************************************************************)
(* Proofs about three parts of the collector, each for every value of its  *)
(* constants: the action graph, the eval runs and the live-tail hub.  They *)
(* share one module for the facts about finite sets, least elements and    *)
(* sequences that they rest on.                                            *)
(***************************************************************************)
EXTENDS ActionGraph, EvalRuns, TailHub,
        SequenceTheorems, FiniteSetTheorems, WellFoundedInduction, TLAPS

\* A nonempty set of numbers has a least one.
LEMMA MinFacts ==
    ASSUME NEW S \in SUBSET Nat, S # {}
    PROVE  Min(S) \in S /\ \A x \in S : Min(S) <= x
<1>1. \E x \in S : \A y \in S : ~ (<<y, x>> \in OpToRel(<, Nat))
  BY NatLessThanWellFounded, WFMin
<1>2. PICK x \in S : \A y \in S : ~ (<<y, x>> \in OpToRel(<, Nat))
  BY <1>1
<1>3. \A y \in S : ~(y < x)
  BY <1>2 DEF OpToRel
<1>4. \A y \in S : x <= y
  BY <1>3
<1> QED BY <1>4 DEF Min

-----------------------------------------------------------------------------
(***************************************************************************)
(* The action graph. A request writes the graph before it stores its       *)
(* spans, so what makes a stored span's rows present is that a processed   *)
(* request's rows are, where a batch writes all its records: nothing is    *)
(* ever taken out of the graph, and a row is always one that a span with   *)
(* its id makes.                                                           *)
(***************************************************************************)

Handler == [pc : {"idle", "store", "ok", "unavailable"}, batch : Seq(Spans), rejected : Int]

GraphTypes ==
    /\ handler \in [Requests -> Handler]
    /\ rows \in [Spans -> 0..1]
    /\ processed \subseteq Requests
    /\ \A q \in processed : handler[q].pc # "idle"
    /\ graphFaults \in Nat

\* Span s has all its rows.
Graphed(s) ==
    /\ ActionId(s) \in DOMAIN actions
    /\ Parts[s] \X {s} \subseteq details
    /\ IsAgentRun(s) => ActionId(s) \in DOMAIN runs

\* What a request has processed is in the graph, where a batch writes all its
\* records.
ProcessedGraphed ==
    ~SharedStatement /\ graphFaults = 0 =>
        \A q \in processed : \A s \in Content(handler[q].batch) : IsActionSpan(s) => Graphed(s)

\* A row is one that a span with its id makes, whichever request wrote it last.
RowOf(s) == [span |-> s, root |-> RootActionId(s), cause |-> CausedByActionId(s)]
RowsRight ==
    \A id \in DOMAIN actions : \E s \in Spans : ActionId(s) = id /\ actions[id] = RowOf(s)

GraphInv == GraphTypes /\ ProcessedGraphed /\ StoredSpansGraphed /\ RowsRight

-----------------------------------------------------------------------------
\* A batch writes records of its action spans only, a run's row only for a run,
\* and of the records that clash one.
LEMMA WrittenFacts ==
    ASSUME NEW batch \in Seq(Spans), NEW written \in Written(batch)
    PROVE  /\ written \subseteq Bound(batch)
           /\ \A x \in Bound(batch) : \E y \in written : Clash(x, y)
<1> DEFINE bound == Bound(batch)
<1> DEFINE rivals == {x \in bound : \E y \in bound \ {x} : Clash(x, y)}
<1>1. PICK last \in SUBSET rivals :
          /\ written = (bound \ rivals) \cup last
          /\ \A x \in rivals : \E y \in last : \A z \in last : Clash(x, z) <=> z = y
  BY DEF Written
<1>2. ASSUME NEW x \in bound, x \notin rivals PROVE \E y \in written : Clash(x, y)
  <2>1. x \in written /\ Clash(x, x)
    BY <1>1, <1>2 DEF Clash
  <2> QED BY <2>1
<1>3. ASSUME NEW x \in rivals PROVE \E y \in written : Clash(x, y)
  BY <1>1, <1>3
<1> HIDE DEF rivals
<1>4. rivals \subseteq bound
  BY DEF rivals
<1> QED BY <1>1, <1>2, <1>3, <1>4

\* The records of a batch are those of its action spans.
LEMMA BoundFacts ==
    ASSUME NEW batch \in Seq(Spans)
    PROVE  /\ \A x \in Bound(batch) :
                /\ x[2] \in Content(batch) /\ x[2] \in Spans /\ IsActionSpan(x[2])
                /\ x = <<x[1], x[2]>>
                /\ x[1] = "agent_runs" => IsAgentRun(x[2])
                /\ x[1] \notin {"actions", "agent_runs"} => x[1] \in Parts[x[2]]
           /\ \A s \in Content(batch) : IsActionSpan(s) =>
                /\ <<"actions", s>> \in Bound(batch)
                /\ IsAgentRun(s) => <<"agent_runs", s>> \in Bound(batch)
                /\ Parts[s] \X {s} \subseteq Bound(batch)
<1> DEFINE actionSpans == {s \in Content(batch) : IsActionSpan(s)}
<1> DEFINE found == {s \in actionSpans : IsAgentRun(s)}
<1>1. Bound(batch) = ({"actions"} \X actionSpans) \cup ({"agent_runs"} \X found)
                         \cup UNION {Parts[s] \X {s} : s \in actionSpans}
  BY DEF Bound
<1>2. Content(batch) \subseteq Spans
  BY DEF Content
<1>3. ASSUME NEW s \in Spans, NEW t \in Parts[s] PROVE t \notin {"actions", "agent_runs"}
  BY ActionGraphAssumption DEF ActionGraphAssumption
<1>4. ASSUME NEW x \in Bound(batch)
      PROVE  /\ x[2] \in Content(batch) /\ x[2] \in Spans /\ IsActionSpan(x[2])
             /\ x = <<x[1], x[2]>>
             /\ x[1] = "agent_runs" => IsAgentRun(x[2])
             /\ x[1] \notin {"actions", "agent_runs"} => x[1] \in Parts[x[2]]
  <2>1. CASE x \in {"actions"} \X actionSpans
    BY <1>2, <2>1
  <2>2. CASE x \in {"agent_runs"} \X found
    BY <1>2, <2>2
  <2>3. ASSUME NEW s \in actionSpans, x \in Parts[s] \X {s}
        PROVE  x[1] \in Parts[s] /\ x[2] = s /\ x = <<x[1], x[2]>> /\ s \in Spans
    BY <1>2, <2>3
  <2>4. CASE x \in UNION {Parts[s] \X {s} : s \in actionSpans}
    BY <1>3, <2>3, <2>4
  <2> QED BY <1>1, <2>1, <2>2, <2>4
<1>5. ASSUME NEW s \in Content(batch), IsActionSpan(s)
      PROVE  /\ <<"actions", s>> \in Bound(batch)
             /\ IsAgentRun(s) => <<"agent_runs", s>> \in Bound(batch)
             /\ Parts[s] \X {s} \subseteq Bound(batch)
  BY <1>1, <1>5
<1> QED BY <1>4, <1>5

\* The spans that a written record of a table is made from.
LEMMA OfFacts ==
    ASSUME NEW batch \in Seq(Spans), NEW written \in Written(batch)
    PROVE  /\ \A s \in Of("actions", written) : s \in Spans /\ IsActionSpan(s)
           /\ \A s \in Of("agent_runs", written) : s \in Spans /\ IsAgentRun(s) /\ IsActionSpan(s)
           /\ \A x \in DetailRows(written) : x[1] \in Parts[x[2]]
<1>1. \A x \in written : x \in Bound(batch)
  BY WrittenFacts
<1>2. \A s : s \in Of("actions", written) => \E x \in written : x[2] = s /\ x[1] = "actions"
  BY DEF Of
<1>3. \A s : s \in Of("agent_runs", written) => \E x \in written : x[2] = s /\ x[1] = "agent_runs"
  BY DEF Of
<1>4. \A x \in DetailRows(written) : x \in written /\ x[1] \notin {"actions", "agent_runs"}
  BY DEF DetailRows
<1>5. \A x \in Bound(batch) :
                /\ x[2] \in Spans /\ IsActionSpan(x[2])
                /\ x[1] = "agent_runs" => IsAgentRun(x[2])
                /\ x[1] \notin {"actions", "agent_runs"} => x[1] \in Parts[x[2]]
  BY BoundFacts
<1>6. ASSUME NEW s \in Of("actions", written) PROVE s \in Spans /\ IsActionSpan(s)
  BY <1>1, <1>2, <1>5
<1>7. ASSUME NEW s \in Of("agent_runs", written) PROVE s \in Spans /\ IsAgentRun(s) /\ IsActionSpan(s)
  BY <1>1, <1>3, <1>5
<1>8. ASSUME NEW x \in DetailRows(written) PROVE x[1] \in Parts[x[2]]
  BY <1>1, <1>4, <1>5
<1> QED BY <1>6, <1>7, <1>8

\* Where every bind makes a statement of its own, every action span of a batch
\* gets its rows, under its id.
LEMMA AllWritten ==
    ASSUME ~SharedStatement, NEW batch \in Seq(Spans), NEW written \in Written(batch),
           NEW s \in Content(batch), IsActionSpan(s)
    PROVE  /\ \E t \in Of("actions", written) : ActionId(t) = ActionId(s)
           /\ IsAgentRun(s) => \E t \in Of("agent_runs", written) : ActionId(t) = ActionId(s)
           /\ Parts[s] \X {s} \subseteq DetailRows(written)
<1>0. /\ written \subseteq Bound(batch)
      /\ \A x \in Bound(batch) : \E y \in written : Clash(x, y)
  BY WrittenFacts
<1>1. ASSUME NEW table \in {"actions", "agent_runs"}, <<table, s>> \in Bound(batch)
      PROVE  \E t \in Of(table, written) : ActionId(t) = ActionId(s)
  <2>1. PICK y \in written : Clash(<<table, s>>, y)
    BY <1>0, <1>1
  <2>2. y[1] = table /\ RowId(<<table, s>>) = RowId(y)
    BY <2>1 DEF Clash
  <2>3. ActionId(y[2]) = ActionId(s)
    BY <2>2 DEF RowId
  <2>4. y[2] \in Of(table, written)
    BY <2>2 DEF Of
  <2> QED BY <2>3, <2>4
<1>2. ASSUME NEW table \in Parts[s] PROVE <<table, s>> \in DetailRows(written)
  <2>1. <<table, s>> \in Bound(batch) /\ s \in Spans
    BY BoundFacts DEF Content
  <2>2. table \notin {"actions", "agent_runs"}
    BY <2>1, ActionGraphAssumption DEF ActionGraphAssumption
  <2>3. PICK y \in written : Clash(<<table, s>>, y)
    BY <1>0, <2>1
  <2>4. y[1] = table /\ y[2] = s
    BY <2>2, <2>3 DEF Clash, RowId
  <2>5. y = <<y[1], y[2]>>
    BY <1>0, BoundFacts
  <2> QED BY <2>2, <2>4, <2>5 DEF DetailRows
<1>3. <<"actions", s>> \in Bound(batch) /\ (IsAgentRun(s) => <<"agent_runs", s>> \in Bound(batch))
  BY BoundFacts
<1> QED BY <1>1, <1>2, <1>3

\* The rows written: one for each id of their spans, the one that one of them makes.
LEMMA ActionRowsFacts ==
    ASSUME NEW spans \in SUBSET Spans
    PROVE  /\ DOMAIN ActionRows(spans) = {ActionId(s) : s \in spans}
           /\ \A id \in DOMAIN ActionRows(spans) :
                  \E s \in Spans : ActionId(s) = id /\ ActionRows(spans)[id] = RowOf(s)
<1> DEFINE From(id) == CHOOSE s \in spans : ActionId(s) = id
<1>1. ActionRows(spans) = [id \in {ActionId(s) : s \in spans} |->
          [span |-> From(id), root |-> RootActionId(From(id)), cause |-> CausedByActionId(From(id))]]
  BY DEF ActionRows
<1>2. ASSUME NEW id \in {ActionId(s) : s \in spans}
      PROVE  \E s \in Spans : ActionId(s) = id /\ ActionRows(spans)[id] = RowOf(s)
  <2>1. From(id) \in spans /\ ActionId(From(id)) = id
    BY <1>2
  <2>2. ActionRows(spans)[id] = RowOf(From(id))
    BY <1>1, <1>2 DEF RowOf
  <2> QED BY <2>1, <2>2
<1> QED BY <1>1, <1>2

\* An upsert adds to a table and takes nothing out.
LEMMA UpsertFacts ==
    ASSUME NEW f, NEW g
    PROVE  /\ DOMAIN Upsert(f, g) = DOMAIN f \cup DOMAIN g
           /\ \A x \in DOMAIN g : Upsert(f, g)[x] = g[x]
           /\ \A x \in DOMAIN f : x \notin DOMAIN g => Upsert(f, g)[x] = f[x]
BY DEF Upsert

\* A graph batch takes no row out, and where every bind makes a statement of its
\* own adds all rows of its spans.
LEMMA WriteGraphFacts ==
    ASSUME NEW batch \in Seq(Spans), RowsRight, WriteGraph(batch)
    PROVE  /\ \A s \in Spans : Graphed(s) => Graphed(s)'
           /\ ~SharedStatement => \A s \in Content(batch) : IsActionSpan(s) => Graphed(s)'
           /\ RowsRight'
<1>1. PICK written \in Written(batch) :
          /\ actions' = Upsert(actions, ActionRows(Of("actions", written)))
          /\ runs' = Upsert(runs, RunRows(Of("agent_runs", written), batch))
          /\ details' = details \cup DetailRows(written)
  BY DEF WriteGraph
<1> DEFINE new == ActionRows(Of("actions", written))
<1>2. /\ DOMAIN actions' = DOMAIN actions \cup DOMAIN new
      /\ DOMAIN runs' = DOMAIN runs \cup DOMAIN RunRows(Of("agent_runs", written), batch)
  BY <1>1, UpsertFacts
<1>6. /\ DOMAIN new = {ActionId(s) : s \in Of("actions", written)}
      /\ \A id \in DOMAIN new : \E s \in Spans : ActionId(s) = id /\ new[id] = RowOf(s)
  <2>1. Of("actions", written) \in SUBSET Spans
    BY OfFacts
  <2> QED BY <2>1, ActionRowsFacts
<1>7. DOMAIN RunRows(Of("agent_runs", written), batch) = {ActionId(s) : s \in Of("agent_runs", written)}
  BY DEF RunRows
<1>3. \A s \in Spans : Graphed(s) => Graphed(s)'
  BY <1>1, <1>2 DEF Graphed
<1>4. ASSUME ~SharedStatement, NEW s \in Content(batch), IsActionSpan(s) PROVE Graphed(s)'
  <2>1. /\ \E t \in Of("actions", written) : ActionId(t) = ActionId(s)
        /\ IsAgentRun(s) => \E t \in Of("agent_runs", written) : ActionId(t) = ActionId(s)
        /\ Parts[s] \X {s} \subseteq DetailRows(written)
    BY <1>4, AllWritten
  <2>2. ActionId(s) \in DOMAIN new
    BY <1>6, <2>1
  <2>3. IsAgentRun(s) => ActionId(s) \in DOMAIN RunRows(Of("agent_runs", written), batch)
    BY <1>7, <2>1
  <2> QED
    BY <1>1, <1>2, <2>1, <2>2, <2>3 DEF Graphed
<1>5. RowsRight'
  <2> SUFFICES ASSUME NEW id \in DOMAIN actions'
               PROVE  \E s \in Spans : ActionId(s) = id /\ actions'[id] = RowOf(s)
    BY DEF RowsRight
  <2>0. /\ id \in DOMAIN new => actions'[id] = new[id]
        /\ id \in DOMAIN actions /\ id \notin DOMAIN new => actions'[id] = actions[id]
    <3>1. actions' = Upsert(actions, new)
      BY <1>1
    <3> HIDE DEF new
    <3>2. /\ \A x \in DOMAIN new : Upsert(actions, new)[x] = new[x]
          /\ \A x \in DOMAIN actions : x \notin DOMAIN new => Upsert(actions, new)[x] = actions[x]
      BY UpsertFacts
    <3> QED
      BY <3>1, <3>2, Zenon
  <2> HIDE DEF new
  <2>1. CASE id \in DOMAIN new
    BY <1>6, <2>0, <2>1
  <2>2. CASE id \notin DOMAIN new
    BY <1>2, <2>0, <2>2 DEF RowsRight
  <2> QED
    BY <2>1, <2>2
<1> QED
  BY <1>3, <1>4, <1>5

-----------------------------------------------------------------------------
\* What the receiver keeps of a request are spans of the trace.
LEMMA ReceiveFacts ==
    ASSUME GraphTypes, NEW q \in Requests, NEW batch \in Batches, R!Receive(q, batch)
    PROVE  /\ handler' \in [Requests -> Handler]
           /\ handler[q].pc = "idle" /\ handler'[q].pc = "store"
           /\ \A p \in Requests : p # q => handler'[p] = handler[p]
           /\ UNCHANGED <<rows, storeFaults>>
<1> DEFINE n == R!SmallerOf(Len(batch), MaxPerRequest)
<1> DEFINE kept == SubSeq(batch, 1, n)
<1> DEFINE h == [pc |-> "store", batch |-> kept, rejected |-> Len(batch) - Len(kept)]
<1>1. batch \in Seq(Spans) /\ MaxPerRequest \in Nat /\ Len(batch) \in Nat
  BY ActionGraphAssumption
<1>2. n \in Nat /\ n <= Len(batch)
  BY <1>1 DEF R!SmallerOf
<1> HIDE DEF n
<1>3. kept \in Seq(Spans) /\ Len(kept) \in Nat
  BY <1>1, <1>2
<1> HIDE DEF kept
<1>4. h \in Handler
  BY <1>1, <1>3 DEF Handler
<1>5. handler[q].pc = "idle" /\ handler' = [handler EXCEPT ![q] = h] /\ UNCHANGED <<rows, storeFaults>>
  BY DEF R!Receive, n, kept
<1>6. h.pc = "store"
  OBVIOUS
<1> HIDE DEF h
<1> QED
  BY <1>4, <1>5, <1>6 DEF GraphTypes

\* The later steps of a request keep its batch, until the answer.
LEMMA HandlerFacts ==
    ASSUME GraphTypes, NEW q \in Requests, NEW pc \in {"ok", "unavailable"},
           handler' = [handler EXCEPT ![q].pc = pc]
    PROVE  /\ handler' \in [Requests -> Handler]
           /\ \A p \in Requests : handler'[p].batch = handler[p].batch
           /\ \A p \in Requests : handler[p].pc # "idle" => handler'[p].pc # "idle"
BY DEF GraphTypes, Handler

\* Every step keeps the invariant.
LEMMA GraphStep == ASSUME GraphInv, [Next]_vars PROVE GraphInv'
<1>0. GraphTypes /\ ProcessedGraphed /\ StoredSpansGraphed /\ RowsRight
  BY DEF GraphInv
<1>1. StoredSpansGraphed <=>
        (~SharedStatement /\ graphFaults = 0 =>
             \A s \in Spans : rows[s] > 0 /\ IsActionSpan(s) => Graphed(s))
  BY DEF StoredSpansGraphed, Graphed
<1>2. StoredSpansGraphed' <=>
        (~SharedStatement /\ graphFaults' = 0 =>
             \A s \in Spans : rows'[s] > 0 /\ IsActionSpan(s) => Graphed(s)')
  BY DEF StoredSpansGraphed, Graphed
<1>3. UNCHANGED graph => RowsRight' /\ \A s \in Spans : Graphed(s) => Graphed(s)'
  BY <1>0 DEF graph, RowsRight, Graphed
<1>4. \A q \in Requests : handler[q].batch \in Seq(Spans) /\ Content(handler[q].batch) \subseteq Spans
  BY <1>0 DEF GraphTypes, Handler, Content
<1>5. ASSUME NEW q \in Requests, NEW batch \in Batches, Post(q, batch) PROVE GraphInv'
  <2>1. /\ UNCHANGED <<processed, graph, graphFaults, rows>>
        /\ handler' \in [Requests -> Handler]
        /\ handler[q].pc = "idle" /\ handler'[q].pc = "store"
        /\ \A p \in Requests : p # q => handler'[p] = handler[p]
    BY <1>0, <1>5, ReceiveFacts DEF Post
  <2>2. q \notin processed
    BY <1>0, <2>1 DEF GraphTypes
  <2>3. GraphTypes'
    BY <1>0, <2>1, <2>2 DEF GraphTypes
  <2>4. ProcessedGraphed'
    BY <1>0, <1>3, <1>4, <2>1, <2>2 DEF ProcessedGraphed, GraphTypes
  <2>5. StoredSpansGraphed'
    BY <1>0, <1>1, <1>2, <1>3, <2>1
  <2> QED
    BY <1>3, <2>1, <2>3, <2>4, <2>5 DEF GraphInv
<1>6. ASSUME NEW q \in Requests, Process(q) PROVE GraphInv'
  <2>1. /\ handler[q].pc = "store" /\ processed' = processed \cup {q}
        /\ WriteGraph(handler[q].batch)
        /\ UNCHANGED <<handler, rows, graphFaults>>
    BY <1>6 DEF Process, receiver
  <2>2. /\ \A s \in Spans : Graphed(s) => Graphed(s)'
        /\ ~SharedStatement => \A s \in Content(handler[q].batch) : IsActionSpan(s) => Graphed(s)'
        /\ RowsRight'
    BY <1>0, <1>4, <2>1, WriteGraphFacts
  <2>3. GraphTypes'
    BY <1>0, <2>1 DEF GraphTypes
  <2>4. ProcessedGraphed'
    BY <1>0, <1>4, <2>1, <2>2 DEF ProcessedGraphed, GraphTypes
  <2>5. StoredSpansGraphed'
    BY <1>0, <1>1, <1>2, <2>1, <2>2
  <2> QED
    BY <2>2, <2>3, <2>4, <2>5 DEF GraphInv
<1>7. ASSUME NEW q \in Requests, ProcessFails(q) PROVE GraphInv'
  <2>1. /\ handler[q].pc = "store" /\ processed' = processed \cup {q}
        /\ graphFaults' = graphFaults + 1
        /\ WriteGraph(handler[q].batch) \/ UNCHANGED graph
        /\ UNCHANGED <<handler, rows>>
    BY <1>7 DEF ProcessFails, receiver
  <2>2. graphFaults' \in Nat /\ graphFaults' # 0
    BY <1>0, <2>1 DEF GraphTypes
  <2>3. GraphTypes'
    BY <1>0, <2>1, <2>2 DEF GraphTypes
  <2>4. RowsRight'
    BY <1>0, <1>3, <1>4, <2>1, WriteGraphFacts
  <2> QED
    BY <1>2, <2>2, <2>3, <2>4 DEF GraphInv, ProcessedGraphed
<1>8. ASSUME NEW q \in Requests, Ingest(q) PROVE GraphInv'
  <2>1. q \in processed /\ UNCHANGED <<processed, graph, graphFaults>>
    BY <1>8 DEF Ingest
  <2>2. PICK pc \in {"ok", "unavailable"} :
            /\ handler' = [handler EXCEPT ![q].pc = pc]
            /\ \/ rows' = rows
               \/ rows' = [s \in Spans |-> IF s \in Content(handler[q].batch) THEN 1 ELSE rows[s]]
    <3>1. R!RowsAfter(handler[q].batch)
            = [s \in Spans |-> IF s \in Content(handler[q].batch) THEN 1 ELSE rows[s]]
      BY DEF R!RowsAfter, R!Executed, R!Inserted, Content
    <3> QED BY <1>8, <3>1 DEF Ingest, R!Store, R!StoreFails
  <2>3. /\ handler' \in [Requests -> Handler]
        /\ \A p \in Requests : handler'[p].batch = handler[p].batch
        /\ \A p \in Requests : handler[p].pc # "idle" => handler'[p].pc # "idle"
    BY <1>0, <2>2, HandlerFacts
  <2>4. GraphTypes'
    BY <1>0, <2>1, <2>2, <2>3 DEF GraphTypes
  <2>5. ProcessedGraphed'
    BY <1>0, <1>3, <1>4, <2>1, <2>3 DEF ProcessedGraphed, GraphTypes
  <2>6. StoredSpansGraphed'
    <3> SUFFICES ASSUME ~SharedStatement, graphFaults = 0, NEW s \in Spans, rows'[s] > 0,
                        IsActionSpan(s)
                 PROVE  Graphed(s)
      BY <1>2, <1>3, <2>1
    <3>1. CASE s \in Content(handler[q].batch)
      BY <1>0, <2>1, <3>1 DEF ProcessedGraphed
    <3>2. CASE s \notin Content(handler[q].batch)
      <4>1. rows'[s] = rows[s]
        BY <2>2, <3>2
      <4> QED BY <1>0, <1>1, <4>1
    <3> QED
      BY <3>1, <3>2
  <2> QED
    BY <1>3, <2>1, <2>4, <2>5, <2>6 DEF GraphInv
<1>9. ASSUME NEW q \in Requests, Answer(q) PROVE GraphInv'
  <2>1. /\ handler' = [handler EXCEPT ![q] = R!Idle] /\ processed' = processed \ {q}
        /\ UNCHANGED <<rows, graph, graphFaults>>
    BY <1>9 DEF Answer, R!Respond
  <2>2. R!Idle \in Handler
    BY DEF R!Idle, Handler
  <2>3. handler' \in [Requests -> Handler] /\ \A p \in Requests : p # q => handler'[p] = handler[p]
    BY <1>0, <2>1, <2>2 DEF GraphTypes
  <2>4. GraphTypes'
    BY <1>0, <2>1, <2>3 DEF GraphTypes
  <2>5. ProcessedGraphed'
    BY <1>0, <1>3, <1>4, <2>1, <2>3 DEF ProcessedGraphed, GraphTypes
  <2>6. StoredSpansGraphed'
    BY <1>0, <1>1, <1>2, <1>3, <2>1
  <2> QED
    BY <1>3, <2>1, <2>4, <2>5, <2>6 DEF GraphInv
<1>10. CASE UNCHANGED vars
  <2>1. UNCHANGED <<handler, rows, processed, graph, graphFaults>>
    BY <1>10 DEF vars, receiver
  <2>2. ProcessedGraphed'
    BY <1>0, <1>3, <1>4, <2>1 DEF ProcessedGraphed, GraphTypes
  <2> QED
    BY <1>0, <1>1, <1>2, <1>3, <2>1, <2>2 DEF GraphInv, GraphTypes
<1> QED
  BY <1>5, <1>6, <1>7, <1>8, <1>9, <1>10 DEF Next

\* The inductive invariant: what was processed is graphed, what is stored was
\* processed, and every row is its span's.
THEOREM GraphInvariant == Spec => []GraphInv
<1>1. Init => GraphInv
  <2> SUFFICES ASSUME Init PROVE GraphInv
    OBVIOUS
  <2>1. R!Idle \in Handler
    BY DEF R!Idle, Handler
  <2>2. /\ handler = [q \in Requests |-> R!Idle] /\ rows = [s \in Spans |-> 0]
        /\ processed = {} /\ graphFaults = 0 /\ DOMAIN actions = {}
    BY DEF Init, R!ReceiverInit, NoRows
  <2> QED
    BY <2>1, <2>2 DEF GraphInv, GraphTypes, ProcessedGraphed, StoredSpansGraphed, RowsRight
<1>2. GraphInv /\ [Next]_vars => GraphInv'
  BY GraphStep
<1> QED
  BY <1>1, <1>2, PTL DEF Spec

\* Unless a graph batch failed, every stored action span has its action row, its
\* detail rows and, for a run, its run row: whatever requests overlap and
\* whatever batches repeat, the processor writes before the store does.  It says
\* so of D1, where every bind makes a statement of its own.
THEOREM StoredSpansGraphedHolds == Spec => []StoredSpansGraphed
<1>1. GraphInv => StoredSpansGraphed
  BY DEF GraphInv
<1> QED
  BY <1>1, GraphInvariant, PTL

\* A stored child's cause is the row of its stored parent, in whatever order and
\* batches the two arrived (causedByActionId, action-identity.ts), on D1 and
\* where no other span states the id of either.
THEOREM CausesResolveHolds == Spec => []CausesResolve
<1>1. ASSUME GraphInv PROVE CausesResolve
  <2> SUFFICES ASSUME graphFaults = 0, NEW s \in Spans,
                      Parent[s] # None, IsActionSpan(s), rows[s] > 0,
                      IsActionSpan(Parent[s]), rows[Parent[s]] > 0,
                      Alone(s), Alone(Parent[s]), ~SharedStatement,
                      Cause[s] = Parent[s] \/ (Cause[s] = None /\ StatedId[Parent[s]] = None)
               PROVE  /\ actions[ActionId(s)].cause \in DOMAIN actions
                      /\ actions[actions[ActionId(s)].cause].span = Parent[s]
    BY DEF CausesResolve
  <2> DEFINE p == Parent[s]
  <2>1. p \in Spans
    BY ActionGraphAssumption
  <2>2. ActionId(s) \in DOMAIN actions /\ ActionId(p) \in DOMAIN actions
    BY <1>1, <2>1 DEF GraphInv, StoredSpansGraphed
  <2>3. actions[ActionId(s)] = RowOf(s) /\ actions[ActionId(p)] = RowOf(p)
    BY <1>1, <2>1, <2>2 DEF GraphInv, RowsRight, Alone
  <2>4. CausedByActionId(s) = ActionId(p)
    BY DEF CausedByActionId, ActionId
  <2>5. actions[ActionId(s)].cause = ActionId(p) /\ actions[ActionId(p)].span = p
    BY <2>3, <2>4 DEF RowOf
  <2> QED
    BY <2>2, <2>5
<1> QED
  BY <1>1, GraphInvariant, PTL

\* The bounds, and what a batch of upserts keeps of the tables.
GraphBounds ==
    /\ storeFaults \in 0..MaxStoreFaults /\ graphFaults \in 0..MaxGraphFaults
    /\ posts \in 0..MaxPosts
    /\ \A q \in Requests : Len(handler[q].batch) <= MaxPerRequest
    /\ SharedStatement \/ DOMAIN runs \subseteq DOMAIN actions
    /\ \A d \in details : d[1] \in Parts[d[2]]

\* A graph batch writes a run with its action, where it writes all its records,
\* and details its spans have attributes for.
LEMMA WriteGraphBounds ==
    ASSUME NEW batch \in Seq(Spans), WriteGraph(batch),
           SharedStatement \/ DOMAIN runs \subseteq DOMAIN actions,
           \A d \in details : d[1] \in Parts[d[2]]
    PROVE  /\ SharedStatement \/ DOMAIN runs' \subseteq DOMAIN actions'
           /\ \A d \in details' : d[1] \in Parts[d[2]]
<1>1. PICK written \in Written(batch) :
          /\ actions' = Upsert(actions, ActionRows(Of("actions", written)))
          /\ runs' = Upsert(runs, RunRows(Of("agent_runs", written), batch))
          /\ details' = details \cup DetailRows(written)
  BY DEF WriteGraph
<1>2. /\ DOMAIN actions' = DOMAIN actions \cup DOMAIN ActionRows(Of("actions", written))
      /\ DOMAIN runs' = DOMAIN runs \cup DOMAIN RunRows(Of("agent_runs", written), batch)
  BY <1>1, UpsertFacts
<1>3. /\ DOMAIN ActionRows(Of("actions", written)) = {ActionId(s) : s \in Of("actions", written)}
      /\ DOMAIN RunRows(Of("agent_runs", written), batch) = {ActionId(s) : s \in Of("agent_runs", written)}
  BY DEF ActionRows, RunRows
<1>4. ASSUME ~SharedStatement, NEW r \in Of("agent_runs", written)
      PROVE  \E s \in Of("actions", written) : ActionId(s) = ActionId(r)
  <2>1. r \in Content(batch) /\ IsActionSpan(r)
    <3>1. PICK x \in written : x[2] = r
      BY <1>4 DEF Of
    <3> QED BY <3>1, WrittenFacts, BoundFacts
  <2> QED BY <1>4, <2>1, AllWritten
<1>5. ~SharedStatement => DOMAIN runs' \subseteq DOMAIN actions'
  BY <1>2, <1>3, <1>4
<1>6. \A d \in DetailRows(written) : d[1] \in Parts[d[2]]
  BY OfFacts
<1> QED BY <1>1, <1>5, <1>6

\* Every step keeps them.
LEMMA GraphBoundsStep == ASSUME GraphInv, GraphBounds, [Next]_vars PROVE GraphBounds'
<1>1. /\ GraphTypes /\ MaxPerRequest \in Nat /\ MaxStoreFaults \in Nat
      /\ MaxPosts \in Nat /\ MaxGraphFaults \in Nat
  BY ActionGraphAssumption DEF ActionGraphAssumption, GraphInv
<1>2. ASSUME NEW q \in Requests, NEW batch \in Batches, Post(q, batch) PROVE GraphBounds'
  <2>1. posts < MaxPosts /\ posts' = posts + 1 /\ UNCHANGED <<actions, runs, details, graphFaults, storeFaults>>
    BY <1>2 DEF Post, graph, R!Receive
  <2>2. \A p \in Requests : p # q => handler'[p] = handler[p]
    BY <1>1, <1>2, ReceiveFacts DEF Post
  <2> DEFINE n == R!SmallerOf(Len(batch), MaxPerRequest)
  <2> DEFINE kept == SubSeq(batch, 1, n)
  <2>3. handler'[q].batch = kept
    BY <1>1, <1>2 DEF Post, R!Receive, GraphTypes
  <2>4. batch \in Seq(Spans)
    BY ActionGraphAssumption DEF ActionGraphAssumption
  <2>5. n \in Nat /\ n <= Len(batch) /\ n <= MaxPerRequest
    BY <2>4, <1>1 DEF R!SmallerOf
  <2> HIDE DEF n
  <2>6. Len(kept) <= MaxPerRequest
    BY <2>4, <2>5
  <2> HIDE DEF kept
  <2> QED BY <2>1, <2>2, <2>3, <2>6, <1>1 DEF GraphBounds
<1>8. \A q \in Requests : handler[q].batch \in Seq(Spans)
  BY <1>1 DEF GraphTypes, Handler
<1>3. ASSUME NEW q \in Requests, Process(q) PROVE GraphBounds'
  <2>1. WriteGraph(handler[q].batch) /\ UNCHANGED <<handler, storeFaults, posts, graphFaults>>
    BY <1>3 DEF Process, receiver
  <2>2. /\ SharedStatement \/ DOMAIN runs' \subseteq DOMAIN actions'
        /\ \A d \in details' : d[1] \in Parts[d[2]]
    BY <1>8, <2>1, WriteGraphBounds DEF GraphBounds
  <2> QED BY <2>1, <2>2 DEF GraphBounds
<1>4. ASSUME NEW q \in Requests, ProcessFails(q) PROVE GraphBounds'
  <2>1. /\ WriteGraph(handler[q].batch) \/ UNCHANGED <<actions, runs, details>>
        /\ UNCHANGED <<handler, storeFaults, posts>> /\ graphFaults' \in 0..MaxGraphFaults
    BY <1>1, <1>4 DEF ProcessFails, receiver, graph, GraphBounds
  <2>2. /\ SharedStatement \/ DOMAIN runs' \subseteq DOMAIN actions'
        /\ \A d \in details' : d[1] \in Parts[d[2]]
    BY <1>8, <2>1, WriteGraphBounds DEF GraphBounds
  <2> QED BY <2>1, <2>2 DEF GraphBounds
<1>5. ASSUME NEW q \in Requests, Ingest(q) PROVE GraphBounds'
  <2>1. UNCHANGED <<posts, graphFaults, actions, runs, details>>
    BY <1>5 DEF Ingest, graph
  <2>2. \E pc \in {"ok", "unavailable"} : handler' = [handler EXCEPT ![q].pc = pc]
    BY <1>5 DEF Ingest, R!Store, R!StoreFails
  <2>3. \A p \in Requests : handler'[p].batch = handler[p].batch
    BY <2>2, <1>1, HandlerFacts
  <2>4. storeFaults' \in 0..MaxStoreFaults
    BY <1>1, <1>5 DEF Ingest, R!Store, R!StoreFails, GraphBounds
  <2> QED BY <2>1, <2>3, <2>4 DEF GraphBounds
<1>6. ASSUME NEW q \in Requests, Answer(q) PROVE GraphBounds'
  <2>1. /\ handler' = [handler EXCEPT ![q] = R!Idle]
        /\ UNCHANGED <<posts, graphFaults, storeFaults, actions, runs, details>>
    BY <1>6 DEF Answer, R!Respond, graph
  <2>2. handler'[q] = R!Idle /\ \A p \in Requests : p # q => handler'[p] = handler[p]
    BY <2>1, <1>1 DEF GraphTypes
  <2>3. Len(R!Idle.batch) <= MaxPerRequest
    BY <1>1 DEF R!Idle
  <2> QED BY <2>1, <2>2, <2>3 DEF GraphBounds
<1>7. CASE UNCHANGED vars
  BY <1>7 DEF vars, receiver, graph, GraphBounds
<1> QED BY <1>2, <1>3, <1>4, <1>5, <1>6, <1>7 DEF Next

\* The trace receiver keeps its types and the cap on a request's spans; every
\* agent run has its action row, unless the statements of a table are one, and a
\* detail row is one its span has attributes for (action-graph-processor.ts).
THEOREM GraphTypeOKHolds == Spec => []TypeOK
<1>1. Init => GraphBounds
  <2> SUFFICES ASSUME Init PROVE GraphBounds
    OBVIOUS
  <2>1. /\ handler = [q \in Requests |-> R!Idle] /\ storeFaults = 0 /\ graphFaults = 0 /\ posts = 0
        /\ DOMAIN runs = {} /\ details = {}
    BY DEF Init, R!ReceiverInit, NoRows
  <2>2. \A q \in Requests : handler[q].batch = <<>>
    BY <2>1 DEF R!Idle
  <2>3. 0 \in 0..MaxStoreFaults /\ 0 \in 0..MaxGraphFaults /\ 0 \in 0..MaxPosts /\ Len(<<>>) <= MaxPerRequest
    BY ActionGraphAssumption DEF ActionGraphAssumption
  <2> QED BY <2>1, <2>2, <2>3 DEF GraphBounds
<1>2. GraphInv /\ GraphBounds /\ [Next]_vars => GraphBounds'
  BY GraphBoundsStep
<1>3. GraphInv /\ GraphBounds => TypeOK
  BY DEF GraphInv, GraphTypes, GraphBounds, Handler, TypeOK
<1> QED BY <1>1, <1>2, <1>3, GraphInvariant, PTL DEF Spec

-----------------------------------------------------------------------------
(***************************************************************************)
(* What a set of spans costs. The sum is a fold over the set, an element   *)
(* at a time in an order of the definition's choosing: that the fold is    *)
(* defined, that the order does not matter and that a larger set costs no  *)
(* less follows, for finite sets, from a least counterexample.             *)
(***************************************************************************)

\* The element the fold takes next.
Some(s) == CHOOSE x \in s : TRUE

\* f gives each set in D the sum of its costs, an element at a time.
Sums(f, D) == f = [s \in D |-> IF s = {} THEN 0 ELSE Cost[Some(s)] + f[s \ {Some(s)}]]

\* f gives each subset of S its sum.
SumsOf(f, S) == Sums(f, SUBSET S)

\* The subsets of S with no more than n elements.
Small(S, n) == {s \in SUBSET S : Cardinality(s) <= n}

\* CostOf is what the fold computes.
LEMMA CostOfIs ==
    ASSUME NEW S
    PROVE  CostOf(S) = (CHOOSE f : Sums(f, SUBSET S))[S]
BY Zenon DEF CostOf, MapThenSumSet, MapThenFoldSet, Sums, Some

\* A set without its chosen element.
LEMMA Without ==
    ASSUME NEW S, IsFiniteSet(S), NEW s \in SUBSET S, s # {}
    PROVE  /\ Some(s) \in s /\ Cardinality(s) \in Nat /\ Cardinality(s \ {Some(s)}) \in Nat
           /\ Cardinality(s \ {Some(s)}) = Cardinality(s) - 1 /\ s \ {Some(s)} \in SUBSET S
<1>1. Some(s) \in s
  BY DEF Some
<1>2. IsFiniteSet(s) /\ Cardinality(s) \in Nat
  BY FS_Subset, FS_CardinalityType
<1>3. IsFiniteSet(s \ {Some(s)}) /\ Cardinality(s \ {Some(s)}) = Cardinality(s) - 1
  BY <1>1, <1>2, FS_RemoveElement
<1>4. Cardinality(s \ {Some(s)}) \in Nat
  BY <1>3, FS_CardinalityType
<1> QED BY <1>1, <1>2, <1>3, <1>4

\* The sums of the sets of n + 1 elements, from those of n.
LEMMA SumsGrow ==
    ASSUME NEW S, IsFiniteSet(S), NEW n \in Nat, NEW f, Sums(f, Small(S, n))
    PROVE  \E g : Sums(g, Small(S, n + 1))
<1> DEFINE V(s) == IF s = {} THEN 0 ELSE Cost[Some(s)] + f[s \ {Some(s)}]
<1> DEFINE g == [s \in Small(S, n + 1) |-> V(s)]
<1>1. f = [s \in Small(S, n) |-> V(s)]
  BY DEF Sums
<1>2. \A s \in Small(S, n) : f[s] = V(s)
  BY <1>1, Zenon
<1>3. \A s \in Small(S, n) : s \in Small(S, n + 1)
  <2> SUFFICES ASSUME NEW s \in SUBSET S, Cardinality(s) <= n PROVE Cardinality(s) <= n + 1
    BY DEF Small
  <2>1. Cardinality(s) \in Nat
    BY FS_Subset, FS_CardinalityType
  <2> QED BY <2>1
<1>4. \A s \in Small(S, n) : g[s] = f[s]
  BY <1>2, <1>3, Zenon
<1>5. ASSUME NEW s \in Small(S, n + 1), s # {} PROVE s \ {Some(s)} \in Small(S, n)
  <2>1. s \in SUBSET S /\ Cardinality(s) <= n + 1
    BY DEF Small
  <2>2. /\ Cardinality(s) \in Nat /\ Cardinality(s \ {Some(s)}) \in Nat
        /\ Cardinality(s \ {Some(s)}) = Cardinality(s) - 1 /\ s \ {Some(s)} \in SUBSET S
    BY <2>1, <1>5, Without
  <2>3. Cardinality(s \ {Some(s)}) <= n
    BY <2>1, <2>2
  <2> QED BY <2>2, <2>3 DEF Small
<1>6. ASSUME NEW s \in Small(S, n + 1)
      PROVE  V(s) = IF s = {} THEN 0 ELSE Cost[Some(s)] + g[s \ {Some(s)}]
  <2>1. CASE s = {}
    BY <2>1, Zenon
  <2>2. CASE s # {}
    <3>1. g[s \ {Some(s)}] = f[s \ {Some(s)}]
      BY <2>2, <1>4, <1>5, Zenon
    <3> HIDE DEF g
    <3> QED BY <3>1, <2>2, Zenon
  <2> QED BY <2>1, <2>2
<1>7. g = [s \in Small(S, n + 1) |-> V(s)]
  OBVIOUS
<1> HIDE DEF g, V
<1>8. g = [s \in Small(S, n + 1) |-> IF s = {} THEN 0 ELSE Cost[Some(s)] + g[s \ {Some(s)}]]
  BY <1>6, <1>7, Zenon
<1>9. Sums(g, Small(S, n + 1))
  BY <1>8, Zenon DEF Sums
<1> QED BY <1>9, Zenon

\* Every finite set has its sums.
LEMMA SumsExist ==
    ASSUME NEW S, IsFiniteSet(S)
    PROVE  \E f : Sums(f, SUBSET S)
<1> DEFINE Has(n) == \E f : Sums(f, Small(S, n))
<1>1. Has(0)
  <2> DEFINE f == [s \in Small(S, 0) |-> 0]
  <2>1. \A s \in Small(S, 0) : s = {}
    <3> SUFFICES ASSUME NEW s \in SUBSET S, Cardinality(s) <= 0 PROVE s = {}
      BY DEF Small
    <3>1. IsFiniteSet(s) /\ Cardinality(s) \in Nat
      BY FS_Subset, FS_CardinalityType
    <3>2. Cardinality(s) = 0
      BY <3>1
    <3> QED BY <3>1, <3>2, FS_EmptySet
  <2>2. f = [s \in Small(S, 0) |-> 0]
    OBVIOUS
  <2> HIDE DEF f
  <2>3. f = [s \in Small(S, 0) |-> IF s = {} THEN 0 ELSE Cost[Some(s)] + f[s \ {Some(s)}]]
    BY <2>1, <2>2, Zenon
  <2>4. Sums(f, Small(S, 0))
    BY <2>3, Zenon DEF Sums
  <2> QED BY <2>4, Zenon
<1>2. ASSUME NEW n \in Nat, Has(n) PROVE Has(n + 1)
  <2>1. PICK f : Sums(f, Small(S, n))
    BY <1>2
  <2> QED BY <2>1, SumsGrow
<1> DEFINE bad == {n \in Nat : ~Has(n)}
<1> HIDE DEF Has
<1>3. bad = {}
  <2> SUFFICES ASSUME bad # {} PROVE FALSE
    OBVIOUS
  <2> DEFINE m == Min(bad)
  <2>1. bad \in SUBSET Nat
    OBVIOUS
  <2>2. m \in bad /\ \A x \in bad : m <= x
    <3> HIDE DEF bad
    <3> QED BY <2>1, MinFacts
  <2> HIDE DEF m
  <2>3. m \in Nat /\ ~Has(m)
    BY <2>2
  <2>4. m # 0
    BY <2>3, <1>1
  <2>5. m - 1 \in Nat /\ m - 1 \notin bad
    BY <2>2, <2>3, <2>4
  <2>6. Has(m - 1)
    BY <2>5
  <2>7. Has((m - 1) + 1)
    BY <2>5, <2>6, <1>2
  <2>8. (m - 1) + 1 = m
    BY <2>3
  <2> QED BY <2>3, <2>7, <2>8
<1>4. Cardinality(S) \in Nat
  BY FS_CardinalityType
<1>5. Has(Cardinality(S))
  BY <1>3, <1>4
<1>6. Small(S, Cardinality(S)) = SUBSET S
  BY FS_Subset DEF Small
<1> QED BY <1>5, <1>6, Zenon DEF Has

\* A set of subsets has one that contains no other.
LEMMA LeastSet ==
    ASSUME NEW S, IsFiniteSet(S), NEW B \in SUBSET (SUBSET S), B # {}
    PROVE  \E s \in B : \A t \in B : t \subseteq s => t = s
<1>1. IsWellFoundedOn(StrictSubsetOrdering(S), SUBSET S)
  BY FS_StrictSubsetOrderingWellFounded, FS_FiniteSubsetsOfFinite
<1>2. PICK s \in B : \A t \in B : ~(<<t, s>> \in StrictSubsetOrdering(S))
  BY <1>1, WFMin
<1>3. \A t \in B : t \subseteq s => t = s
  BY <1>2 DEF StrictSubsetOrdering
<1> QED BY <1>3

\* One step of the sum.
LEMMA SumStep ==
    ASSUME NEW S, NEW f, SumsOf(f, S)
    PROVE  /\ f[{}] = 0
           /\ \A s \in SUBSET S : s # {} =>
                  Some(s) \in s /\ s \ {Some(s)} \in SUBSET S /\ f[s] = Cost[Some(s)] + f[s \ {Some(s)}]
<1>1. \A s \in SUBSET S : f[s] = IF s = {} THEN 0 ELSE Cost[Some(s)] + f[s \ {Some(s)}]
  BY Zenon DEF Sums, SumsOf
<1>2. {} \in SUBSET S
  OBVIOUS
<1>3. \A s \in SUBSET S : s # {} => Some(s) \in s
  BY DEF Some
<1> QED BY <1>1, <1>2, <1>3

\* Sums are natural numbers.
LEMMA SumsAreNat ==
    ASSUME NEW S \in SUBSET Spans, IsFiniteSet(S), NEW f, SumsOf(f, S), NEW s \in SUBSET S
    PROVE  f[s] \in Nat
<1>0. /\ f[{}] = 0
      /\ \A w \in SUBSET S : w # {} =>
             Some(w) \in w /\ w \ {Some(w)} \in SUBSET S /\ f[w] = Cost[Some(w)] + f[w \ {Some(w)}]
  BY SumStep
<1> DEFINE B == {t \in SUBSET S : f[t] \notin Nat}
<1> SUFFICES ASSUME B # {} PROVE FALSE
  OBVIOUS
<1>1. PICK t \in B : \A u \in B : u \subseteq t => u = t
  <2>1. B \in SUBSET (SUBSET S)
    OBVIOUS
  <2> HIDE DEF B
  <2> QED BY <2>1, LeastSet
<1>2. t # {} /\ t \in SUBSET S
  <2>1. 0 \in Nat
    OBVIOUS
  <2> QED BY <2>1, <1>0, <1>1, Zenon
<1>3. /\ Some(t) \in t /\ t \ {Some(t)} \in SUBSET S /\ f[t] = Cost[Some(t)] + f[t \ {Some(t)}]
  BY <1>0, <1>2, Zenon
<1>4. t \ {Some(t)} \notin B
  <2>1. t \ {Some(t)} \subseteq t /\ t \ {Some(t)} # t
    BY <1>3
  <2> QED BY <1>1, <2>1, Zenon
<1>5. f[t \ {Some(t)}] \in Nat
  BY <1>3, <1>4, Zenon
<1>6. Cost[Some(t)] \in Nat
  BY <1>3, ActionGraphAssumption DEF ActionGraphAssumption
<1>7. f[t] \in Nat
  BY <1>3, <1>5, <1>6
<1> QED BY <1>1, <1>7

\* Sums do not depend on the order of their terms.
LEMMA SumsInAnyOrder ==
    ASSUME NEW S \in SUBSET Spans, IsFiniteSet(S), NEW f, SumsOf(f, S),
           NEW s \in SUBSET S, NEW x \in s
    PROVE  f[s] = Cost[x] + f[s \ {x}]
<1>0. /\ f[{}] = 0
      /\ \A w \in SUBSET S : w # {} =>
             Some(w) \in w /\ w \ {Some(w)} \in SUBSET S /\ f[w] = Cost[Some(w)] + f[w \ {Some(w)}]
  BY SumStep
<1> DEFINE B == {t \in SUBSET S : \E y \in t : f[t] # Cost[y] + f[t \ {y}]}
<1> SUFFICES ASSUME B # {} PROVE FALSE
  OBVIOUS
<1>1. PICK t \in B : \A u \in B : u \subseteq t => u = t
  <2>1. B \in SUBSET (SUBSET S)
    OBVIOUS
  <2> HIDE DEF B
  <2> QED BY <2>1, LeastSet
<1>2. PICK y \in t : f[t] # Cost[y] + f[t \ {y}]
  BY <1>1
<1> DEFINE z == Some(t)
<1>3. z \in t /\ f[t] = Cost[z] + f[t \ {z}]
  <2>1. t # {} /\ t \in SUBSET S
    BY <1>1, <1>2, Zenon
  <2> QED BY <2>1, <1>0, Zenon
<1> HIDE DEF z
<1>4. y # z
  BY <1>2, <1>3
<1>5. t \ {z} \notin B /\ t \ {y} \notin B /\ t \ {z} \in SUBSET S /\ t \ {y} \in SUBSET S
  BY <1>1, <1>2, <1>3
<1>6. f[t \ {z}] = Cost[y] + f[(t \ {z}) \ {y}]
  <2>1. y \in t \ {z}
    BY <1>4, <1>2
  <2> QED BY <2>1, <1>5
<1>7. f[t \ {y}] = Cost[z] + f[(t \ {y}) \ {z}]
  <2>1. z \in t \ {y}
    BY <1>3, <1>4
  <2> QED BY <2>1, <1>5
<1> HIDE DEF B
<1>8. (t \ {z}) \ {y} = (t \ {y}) \ {z}
  OBVIOUS
<1>9. Cost[y] \in Nat /\ Cost[z] \in Nat
  BY <1>1, <1>2, <1>3, ActionGraphAssumption DEF ActionGraphAssumption, B
<1>10. f[(t \ {y}) \ {z}] \in Nat
  <2> DEFINE u == (t \ {y}) \ {z}
  <2>1. u \in SUBSET S
    BY <1>5
  <2> HIDE DEF u
  <2>2. f[u] \in Nat
    BY <2>1, SumsAreNat
  <2> QED BY <2>2 DEF u
<1>11. \E r \in Nat : f[t \ {z}] = Cost[y] + r /\ f[t \ {y}] = Cost[z] + r
  BY <1>6, <1>7, <1>8, <1>10, Zenon
<1>12. \A c, d, r \in Nat : c + (d + r) = d + (c + r)
  OBVIOUS
<1>13. Cost[z] + f[t \ {z}] = Cost[y] + f[t \ {y}]
  <2>1. PICK r \in Nat : f[t \ {z}] = Cost[y] + r /\ f[t \ {y}] = Cost[z] + r
    BY <1>11
  <2>2. Cost[z] + (Cost[y] + r) = Cost[y] + (Cost[z] + r)
    BY <1>9, <1>12
  <2> QED BY <2>1, <2>2, Zenon
<1> QED BY <1>2, <1>3, <1>13, Zenon

\* A set costs no less than its subsets.
LEMMA SumsMonotone ==
    ASSUME NEW S \in SUBSET Spans, IsFiniteSet(S), NEW f, SumsOf(f, S),
           NEW A \in SUBSET S
    PROVE  f[A] <= f[S]
<1> DEFINE B == {t \in SUBSET S : A \subseteq t /\ ~(f[A] <= f[t])}
<1> SUFFICES ASSUME B # {} PROVE FALSE
  OBVIOUS
<1>1. PICK t \in B : \A u \in B : u \subseteq t => u = t
  <2>1. B \in SUBSET (SUBSET S)
    OBVIOUS
  <2> HIDE DEF B
  <2> QED BY <2>1, LeastSet
<1>2. t \in SUBSET S /\ A \subseteq t /\ ~(f[A] <= f[t])
  BY <1>1
<1>3. f[A] \in Nat /\ f[t] \in Nat
  BY <1>2, SumsAreNat
<1>4. A # t
  BY <1>2, <1>3
<1>5. PICK x \in t : x \notin A
  BY <1>2, <1>4
<1>6. t \ {x} \in SUBSET S /\ A \subseteq t \ {x} /\ t \ {x} \notin B
  BY <1>1, <1>2, <1>5
<1>7. f[A] <= f[t \ {x}]
  BY <1>6
<1> HIDE DEF B
<1>8. f[t] = Cost[x] + f[t \ {x}]
  BY <1>2, <1>5, SumsInAnyOrder
<1>9. Cost[x] \in Nat /\ f[t \ {x}] \in Nat
  BY <1>2, <1>5, <1>6, SumsAreNat, ActionGraphAssumption DEF ActionGraphAssumption
<1> QED BY <1>2, <1>3, <1>7, <1>8, <1>9

\* The sum of a set is the same whichever larger set it is taken in.
LEMMA SumsAgree ==
    ASSUME NEW S \in SUBSET Spans, IsFiniteSet(S), NEW A \in SUBSET S,
           NEW f, SumsOf(f, S), NEW h, SumsOf(h, A)
    PROVE  f[A] = h[A]
<1>0. /\ f[{}] = 0
      /\ \A w \in SUBSET S : w # {} =>
             Some(w) \in w /\ w \ {Some(w)} \in SUBSET S /\ f[w] = Cost[Some(w)] + f[w \ {Some(w)}]
  BY SumStep
<1>7. /\ h[{}] = 0
      /\ \A w \in SUBSET A : w # {} => h[w] = Cost[Some(w)] + h[w \ {Some(w)}]
  BY SumStep
<1> DEFINE B == {t \in SUBSET A : f[t] # h[t]}
<1> SUFFICES ASSUME B # {} PROVE FALSE
  OBVIOUS
<1>1. IsFiniteSet(A)
  BY FS_Subset
<1>2. PICK t \in B : \A u \in B : u \subseteq t => u = t
  <2>1. B \in SUBSET (SUBSET A)
    OBVIOUS
  <2> HIDE DEF B
  <2> QED BY <2>1, <1>1, LeastSet
<1>3. t # {} /\ t \in SUBSET A /\ t \in SUBSET S
  BY <1>0, <1>2, <1>7, Zenon
<1>4. Some(t) \in t /\ f[t] = Cost[Some(t)] + f[t \ {Some(t)}] /\ h[t] = Cost[Some(t)] + h[t \ {Some(t)}]
  BY <1>0, <1>3, <1>7, Zenon
<1>5. t \ {Some(t)} \in SUBSET A /\ t \ {Some(t)} \notin B
  BY <1>2, <1>4
<1>6. f[t \ {Some(t)}] = h[t \ {Some(t)}]
  BY <1>5
<1> QED BY <1>2, <1>4, <1>6, Zenon

\* What a set of spans costs, and that more spans cost no less.
LEMMA CostOfFacts ==
    ASSUME NEW S \in SUBSET Spans, NEW A \in SUBSET S
    PROVE  CostOf(S) \in Nat /\ CostOf(A) \in Nat /\ CostOf(A) <= CostOf(S)
<1>1. IsFiniteSet(S) /\ IsFiniteSet(A) /\ A \in SUBSET Spans
  BY FS_Subset, ActionGraphAssumption DEF ActionGraphAssumption
<1> DEFINE f == CHOOSE g : SumsOf(g, S)
<1> DEFINE h == CHOOSE g : SumsOf(g, A)
<1>2. SumsOf(f, S) /\ SumsOf(h, A)
  BY <1>1, SumsExist, Zenon DEF SumsOf
<1>3. CostOf(S) = f[S] /\ CostOf(A) = h[A]
  BY CostOfIs, Zenon DEF SumsOf
<1> HIDE DEF f, h
<1>4. f[A] = h[A]
  BY <1>1, <1>2, SumsAgree
<1>5. f[S] \in Nat /\ f[A] \in Nat /\ f[A] <= f[S]
  BY <1>1, <1>2, SumsAreNat, SumsMonotone
<1> QED BY <1>3, <1>4, <1>5

-----------------------------------------------------------------------------
\* A run row written holds the total of a run with its id.
LEMMA RunRowsTotal ==
    ASSUME NEW batch, NEW found, NEW id \in DOMAIN RunRows(found, batch)
    PROVE  \E r \in found : ActionId(r) = id /\ RunRows(found, batch)[id] = RunTotal(r, batch)
<1> DEFINE From(x) == CHOOSE r \in found : ActionId(r) = x
<1>1. RunRows(found, batch) = [x \in {ActionId(r) : r \in found} |-> RunTotal(From(x), batch)]
  BY DEF RunRows
<1>2. PICK t \in found : ActionId(t) = id
  BY <1>1
<1>3. From(id) \in found /\ ActionId(From(id)) = id
  BY <1>2
<1>4. RunRows(found, batch)[id] = RunTotal(From(id), batch)
  BY <1>1, <1>2, Zenon
<1> HIDE DEF From
<1> QED BY <1>3, <1>4

\* Whatever part of the trace a batch holds, the total is within bounds.
LEMMA RunTotalFacts ==
    ASSUME NEW batch \in Seq(Spans), NEW r \in Spans
    PROVE  /\ Cost[r] <= RunTotal(r, batch)
           /\ RunTotal(r, batch) <= LargerOf(Cost[r], CostOf(AllChildren(r)))
<1> DEFINE A == ChildActions(r, batch)
<1> DEFINE S == AllChildren(r)
<1>1. A \in SUBSET S
  <2> SUFFICES ASSUME NEW s \in ChildActions(r, batch) PROVE s \in AllChildren(r)
    OBVIOUS
  <2>1. s \in Spans
    BY DEF ChildActions, Content
  <2>2. IsActionSpan(s) /\ ActionId(s) # ActionId(r) /\ (RootActionId(s) = ActionId(r) \/ AgentRunId(s) = ActionId(r))
    BY DEF ChildActions
  <2> QED BY <2>1, <2>2 DEF AllChildren
<1>2. S \in SUBSET Spans
  BY DEF AllChildren
<1>3. RunTotal(r, batch) = LargerOf(Cost[r], CostOf(A))
  BY DEF RunTotal
<1> HIDE DEF A, S
<1>4. CostOf(S) \in Nat /\ CostOf(A) \in Nat /\ CostOf(A) <= CostOf(S)
  BY <1>1, <1>2, CostOfFacts
<1>5. Cost[r] \in Nat
  BY ActionGraphAssumption DEF ActionGraphAssumption
<1>6. Cost[r] <= LargerOf(Cost[r], CostOf(A)) /\ LargerOf(Cost[r], CostOf(A)) <= LargerOf(Cost[r], CostOf(S))
  BY <1>4, <1>5 DEF LargerOf
<1> QED BY <1>3, <1>6 DEF S

\* A graph batch leaves every total within bounds: the rows it replaces are
\* replaced, not added to.
LEMMA TotalsKept ==
    ASSUME RunTotalsBounded, NEW batch \in Seq(Spans), WriteGraph(batch)
    PROVE  RunTotalsBounded'
<1>0. PICK written \in Written(batch) : runs' = Upsert(runs, RunRows(Of("agent_runs", written), batch))
  BY DEF WriteGraph
<1> DEFINE found == Of("agent_runs", written)
<1> DEFINE new == RunRows(found, batch)
<1> DEFINE Within(id, total) ==
              \E r \in Spans : /\ IsAgentRun(r) /\ ActionId(r) = id
                               /\ Cost[r] <= total
                               /\ total <= LargerOf(Cost[r], CostOf(AllChildren(r)))
<1>1. \A r \in found : r \in Spans /\ IsAgentRun(r)
  BY OfFacts
<1> HIDE DEF found
<1>2. ASSUME NEW id \in DOMAIN new PROVE Within(id, new[id])
  <2>1. PICK r \in found : ActionId(r) = id /\ new[id] = RunTotal(r, batch)
    BY <1>2, RunRowsTotal
  <2>2. /\ Cost[r] <= RunTotal(r, batch)
        /\ RunTotal(r, batch) <= LargerOf(Cost[r], CostOf(AllChildren(r)))
    BY <1>1, RunTotalFacts
  <2> QED BY <1>1, <2>1, <2>2
<1>3. \A id \in DOMAIN runs : Within(id, runs[id])
  BY DEF RunTotalsBounded
<1>4. /\ DOMAIN runs' = DOMAIN runs \cup DOMAIN new
      /\ \A x \in DOMAIN new : runs'[x] = new[x]
      /\ \A x \in DOMAIN runs : x \notin DOMAIN new => runs'[x] = runs[x]
  <2>1. runs' = Upsert(runs, new)
    BY <1>0 DEF found
  <2> HIDE DEF new
  <2>2. /\ DOMAIN Upsert(runs, new) = DOMAIN runs \cup DOMAIN new
        /\ \A x \in DOMAIN new : Upsert(runs, new)[x] = new[x]
        /\ \A x \in DOMAIN runs : x \notin DOMAIN new => Upsert(runs, new)[x] = runs[x]
    BY UpsertFacts
  <2> QED BY <2>1, <2>2, Zenon
<1> HIDE DEF new, Within
<1>5. ASSUME NEW id \in DOMAIN runs' PROVE Within(id, runs'[id])
  <2>1. CASE id \in DOMAIN new
    <3>1. runs'[id] = new[id]
      BY <1>4, <2>1
    <3>2. Within(id, new[id])
      BY <1>2, <2>1, Zenon
    <3> QED BY <3>1, <3>2, Zenon
  <2>2. CASE id \notin DOMAIN new
    <3>1. id \in DOMAIN runs /\ runs'[id] = runs[id]
      BY <1>4, <2>2
    <3>2. Within(id, runs[id])
      BY <1>3, <3>1, Zenon
    <3> QED BY <3>1, <3>2, Zenon
  <2> QED BY <2>1, <2>2
<1> QED BY <1>5 DEF RunTotalsBounded, Within

\* An agent run's total stays between what the run reports and the larger of that
\* and what all its actions cost, however the exporters' retries repeat, split or
\* merge the batches they come in.
THEOREM RunTotalsBoundedHolds == Spec => []RunTotalsBounded
<1>1. Init => RunTotalsBounded
  <2> SUFFICES ASSUME Init PROVE RunTotalsBounded
    OBVIOUS
  <2>1. DOMAIN runs = {}
    BY DEF Init, NoRows
  <2> QED BY <2>1 DEF RunTotalsBounded
<1>2. GraphInv /\ RunTotalsBounded /\ [Next]_vars => RunTotalsBounded'
  <2> SUFFICES ASSUME GraphInv, RunTotalsBounded, [Next]_vars PROVE RunTotalsBounded'
    OBVIOUS
  <2>1. ASSUME NEW q \in Requests, WriteGraph(handler[q].batch) PROVE RunTotalsBounded'
    <3>1. handler[q].batch \in Seq(Spans)
      BY DEF GraphInv, GraphTypes, Handler
    <3> QED BY <2>1, <3>1, TotalsKept
  <2>2. CASE UNCHANGED runs
    BY <2>2 DEF RunTotalsBounded
  <2>3. (\E q \in Requests : WriteGraph(handler[q].batch)) \/ UNCHANGED runs
    BY DEF Next, Post, Process, ProcessFails, Ingest, Answer, graph, vars
  <2> QED BY <2>1, <2>2, <2>3
<1> QED BY <1>1, <1>2, GraphInvariant, PTL DEF Spec

-----------------------------------------------------------------------------
(***************************************************************************)
(* Eval runs. Posts of results and creations of runs interleave; a refresh *)
(* counts the results there are at that moment and writes the counts. What *)
(* is kept is that a run's counts are those of some set of its results     *)
(* that leaves out none whose post saw the run and was answered.           *)
(***************************************************************************)

PostStates == {"new", "run", "insert", "refresh", "done", "refused", "failed"}
RunRecord == [case : Cases \cup {NoId}, total : Nat, pass : Nat, fail : Nat,
              fresh : BOOLEAN, row : BOOLEAN]
PostRecord == [pc : PostStates, case : Cases \cup {NoId}, run : Runs \cup {NoId},
               passed : BOOLEAN, saw : BOOLEAN]
CreatorRecord == [pc : {"new", "insert", "done"}, case : Cases \cup {NoId},
                  run : Runs \cup {NoId}, claim : Nat]

EvalTypes ==
    /\ saved \subseteq Cases
    /\ run \in [Runs -> RunRecord]
    /\ results \subseteq Posts
    /\ post \in [Posts -> PostRecord]
    /\ creator \in [Creators -> CreatorRecord]
    /\ faults \in 0..MaxFaults

\* A post that was accepted, and a creation that was, name a run.
Named ==
    /\ \A p \in Posts : post[p].pc # "new" => post[p].run \in Runs
    /\ \A c \in Creators : creator[c].pc # "new" => creator[c].run \in Runs

\* A post has a result from its INSERT on, and refreshes only a run it saw.
Placed ==
    \A p \in Posts :
        /\ p \in results => post[p].pc \in {"refresh", "done", "failed"}
        /\ post[p].pc = "refresh" => p \in results /\ post[p].saw
        /\ post[p].saw => post[p].pc # "new" /\ run[post[p].run].row

\* The counts of run r are those of the results in C, which leaves out no
\* result whose post saw the run and was answered.
CountsAre(r, C) ==
    /\ C \subseteq ResultsOf(r)
    /\ run[r].total = Cardinality(C)
    /\ run[r].pass = Cardinality({p \in C : post[p].passed = TRUE})
    /\ run[r].fail = Cardinality({p \in C : post[p].passed = FALSE})
    /\ \A p \in ResultsOf(r) \ C : post[p].pc # "done" \/ ~post[p].saw

Counted ==
    \A r \in Runs : run[r].fresh => run[r].row /\ \E C \in SUBSET Posts : CountsAre(r, C)

EvalInv == EvalTypes /\ Named /\ Placed /\ Counted
-----------------------------------------------------------------------------
\* A set of results of a run is finite, so its counts are numbers, and the two
\* verdicts split it.
LEMMA CountFacts ==
    ASSUME EvalRunsAssumption, post \in [Posts -> PostRecord], NEW C \in SUBSET Posts
    PROVE  /\ IsFiniteSet(C) /\ Cardinality(C) \in Nat
           /\ Cardinality({p \in C : post[p].passed = TRUE}) \in Nat
           /\ Cardinality({p \in C : post[p].passed = FALSE}) \in Nat
           /\ Cardinality(C) = Cardinality({p \in C : post[p].passed = TRUE})
                                   + Cardinality({p \in C : post[p].passed = FALSE})
<1> DEFINE yes == {p \in C : post[p].passed = TRUE}
<1> DEFINE no == {p \in C : post[p].passed = FALSE}
<1>1. IsFiniteSet(C)
  BY FS_Subset DEF EvalRunsAssumption
<1>2. \A p \in C : post[p].passed \in BOOLEAN
  BY DEF PostRecord
<1>3. yes \cup no = C /\ yes \cap no = {} /\ yes \in SUBSET C /\ no \in SUBSET C
  BY <1>2, Zenon
<1> HIDE DEF yes, no
<1>4. IsFiniteSet(yes) /\ IsFiniteSet(no)
  BY <1>1, <1>3, FS_Subset
<1>5. Cardinality(C) = Cardinality(yes) + Cardinality(no) - Cardinality(yes \cap no)
  BY <1>3, <1>4, FS_Union
<1>6. Cardinality(yes \cap no) = 0
  BY <1>3, FS_EmptySet
<1>7. Cardinality(C) \in Nat /\ Cardinality(yes) \in Nat /\ Cardinality(no) \in Nat
  BY <1>1, <1>4, FS_CardinalityType
<1>8. Cardinality(C) = Cardinality(yes) + Cardinality(no)
  BY <1>5, <1>6, <1>7
<1> QED BY <1>1, <1>7, <1>8 DEF yes, no

\* Counts that are those of C stay so while the run's row does, results keep
\* their run and verdict, and no result outside C is answered.
LEMMA CountsKept ==
    ASSUME NEW r, NEW C, CountsAre(r, C), run'[r] = run[r],
           \A p \in results : /\ p \in results' /\ post'[p].run = post[p].run
                              /\ post'[p].passed = post[p].passed,
           \A p \in results' : post'[p].run = r =>
               p \in C \/ post'[p].pc # "done" \/ ~post'[p].saw
    PROVE  CountsAre(r, C)'
<1>1. C \subseteq ResultsOf(r) /\ C \subseteq results
  BY DEF CountsAre, ResultsOf
<1>2. C \subseteq ResultsOf(r)'
  BY <1>1 DEF ResultsOf
<1>3. /\ {p \in C : post[p].passed = TRUE} = {p \in C : post'[p].passed = TRUE}
      /\ {p \in C : post[p].passed = FALSE} = {p \in C : post'[p].passed = FALSE}
  BY <1>1, Zenon
<1>4. \A p \in ResultsOf(r)' \ C : post'[p].pc # "done" \/ ~post'[p].saw
  BY Zenon DEF ResultsOf
<1> QED BY <1>2, <1>3, <1>4 DEF CountsAre

\* The row an INSERT makes.
LEMMA NewRunRow ==
    ASSUME NEW k \in Cases \cup {NoId}, NEW n \in Nat
    PROVE  /\ [NoRun EXCEPT !.case = k, !.total = n, !.row = TRUE] \in RunRecord
           /\ [NoRun EXCEPT !.case = k, !.total = n, !.row = TRUE].row = TRUE
           /\ [NoRun EXCEPT !.case = k, !.total = n, !.row = TRUE].fresh = FALSE
<1>1. NoRun \in RunRecord /\ NoRun.fresh = FALSE
  BY DEF NoRun, RunRecord
<1>2. ASSUME NEW x \in RunRecord, NEW d \in BOOLEAN
      PROVE  /\ [x EXCEPT !.case = k, !.total = n, !.row = d] \in RunRecord
             /\ [x EXCEPT !.case = k, !.total = n, !.row = d].row = d
             /\ [x EXCEPT !.case = k, !.total = n, !.row = d].fresh = x.fresh
  BY DEF RunRecord
<1> QED BY <1>1, <1>2, Zenon

\* The INSERT of a run: a row of its own, or none.
LEMMA InsertRunTo ==
    ASSUME EvalInv, NEW c \in Creators, InsertRun(c)
    PROVE  /\ creator[c].run \in Runs
           /\ run' \in [Runs -> RunRecord]
           /\ \A r \in Runs : /\ run[r].row => run'[r] = run[r] /\ run'[r].row
                              /\ run'[r] # run[r] => ~run'[r].fresh /\ run'[r].row
<1> DEFINE k == creator[c].run
<1> DEFINE new == [NoRun EXCEPT !.case = creator[c].case, !.total = creator[c].claim, !.row = TRUE]
<1>1. k \in Runs /\ creator[c].case \in Cases \cup {NoId} /\ creator[c].claim \in Nat
  BY DEF EvalInv, EvalTypes, Named, InsertRun, CreatorRecord
<1>3. new \in RunRecord /\ new.fresh = FALSE /\ new.row = TRUE
  BY <1>1, NewRunRow, Zenon
<1> HIDE DEF new
<1>4. run' = IF run[k].row THEN run ELSE [run EXCEPT ![k] = new]
  BY DEF InsertRun, new
<1>5. run \in [Runs -> RunRecord]
  BY DEF EvalInv, EvalTypes
<1>6. CASE run[k].row
  <2>1. run' = run
    BY <1>4, <1>6
  <2> QED BY <2>1, <1>1, <1>5
<1>7. CASE ~run[k].row
  <2>1. run' = [run EXCEPT ![k] = new]
    BY <1>4, <1>7
  <2>2. run' \in [Runs -> RunRecord]
    BY <2>1, <1>5, <1>3
  <2>3. \A r \in Runs : r # k => run'[r] = run[r]
    BY <2>1, <1>5
  <2>4. run'[k] = new
    BY <2>1, <1>1, <1>5
  <2> QED BY <2>2, <2>3, <2>4, <1>1, <1>3, <1>7, Zenon
<1> QED BY <1>6, <1>7

\* What a step of one post does to its record.
LEMMA PostTo ==
    ASSUME EvalTypes, NEW p \in Posts, NEW rec \in PostRecord,
           post' = [post EXCEPT ![p] = rec]
    PROVE  /\ post' \in [Posts -> PostRecord]
           /\ post'[p] = rec
           /\ \A q \in Posts \ {p} : post'[q] = post[q]
BY DEF EvalTypes

\* A post's record with another position.
LEMMA Moved ==
    ASSUME EvalTypes, NEW p \in Posts, NEW pc \in PostStates,
           post' = [post EXCEPT ![p].pc = pc]
    PROVE  /\ post' \in [Posts -> PostRecord]
           /\ post'[p].pc = pc
           /\ post'[p].run = post[p].run /\ post'[p].passed = post[p].passed
           /\ post'[p].saw = post[p].saw /\ post'[p].case = post[p].case
           /\ \A q \in Posts \ {p} : post'[q] = post[q]
<1> DEFINE rec == [post[p] EXCEPT !.pc = pc]
<1>1. post[p] \in PostRecord
  BY DEF EvalTypes
<1>2. /\ rec \in PostRecord /\ rec.pc = pc /\ rec.run = post[p].run
      /\ rec.passed = post[p].passed /\ rec.saw = post[p].saw /\ rec.case = post[p].case
  BY <1>1 DEF PostRecord
<1>3. post' = [post EXCEPT ![p] = rec]
  OBVIOUS
<1> HIDE DEF rec
<1>4. /\ post' \in [Posts -> PostRecord] /\ post'[p] = rec
      /\ \A q \in Posts \ {p} : post'[q] = post[q]
  BY <1>2, <1>3, PostTo
<1> QED BY <1>2, <1>4

\* EvalInv holds at the start: nothing is stored and nobody has begun.
LEMMA EvalInvInit == ASSUME EvalRunsAssumption, EvalInit PROVE EvalInv
<1>1. NoRun \in RunRecord /\ NoRun.fresh = FALSE
  BY DEF NoRun, RunRecord
<1>2. /\ NewPost \in PostRecord /\ NewPost.pc = "new" /\ NewPost.saw = FALSE
  BY DEF NewPost, PostRecord, PostStates
<1>3. NewCreator \in CreatorRecord /\ NewCreator.pc = "new"
  BY DEF NewCreator, CreatorRecord
<1>4. EvalTypes
  BY <1>1, <1>2, <1>3 DEF EvalTypes, EvalInit, EvalRunsAssumption
<1>5. Named
  BY <1>2, <1>3 DEF Named, EvalInit
<1>6. Placed
  BY <1>2 DEF Placed, EvalInit
<1>7. Counted
  BY <1>1 DEF Counted, EvalInit
<1> QED BY <1>4, <1>5, <1>6, <1>7 DEF EvalInv

\* A step keeps Counted when it changes no fresh row, results keep their run
\* and verdict, and what is new about a result is not that it was answered.
LEMMA CountedKept ==
    ASSUME EvalInv,
           \A q \in results : /\ q \in results'
                              /\ post'[q].run = post[q].run /\ post'[q].passed = post[q].passed,
           \A q \in results' : \/ q \in results /\ post'[q] = post[q]
                               \/ post'[q].pc # "done"
                               \/ ~post'[q].saw,
           \A r \in Runs : run'[r].fresh => run'[r] = run[r]
    PROVE  Counted'
<1> SUFFICES ASSUME NEW r \in Runs, run'[r].fresh
             PROVE  run'[r].row /\ \E C \in SUBSET Posts : CountsAre(r, C)'
  BY Zenon DEF Counted
<1>1. run'[r] = run[r] /\ run[r].fresh
  BY Zenon
<1>2. run[r].row /\ \E C \in SUBSET Posts : CountsAre(r, C)
  BY <1>1, Zenon DEF EvalInv, Counted
<1>3. PICK C \in SUBSET Posts : CountsAre(r, C)
  BY <1>2
<1>4. ASSUME NEW q \in results', post'[q].run = r
      PROVE  q \in C \/ post'[q].pc # "done" \/ ~post'[q].saw
  <2> SUFFICES ASSUME q \in results, post'[q] = post[q]
               PROVE  q \in C \/ post[q].pc # "done" \/ ~post[q].saw
    BY Zenon
  <2>1. q \in ResultsOf(r)
    BY <1>4 DEF ResultsOf
  <2> QED BY <2>1, <1>3, Zenon DEF CountsAre
<1>5. CountsAre(r, C)'
  BY <1>1, <1>3, <1>4, CountsKept, Zenon
<1> QED BY <1>1, <1>2, <1>5, Zenon

\* The UPDATE of a run's counts: they are those of all its results.
LEMMA RefreshTo ==
    ASSUME EvalRunsAssumption, EvalInv, NEW p \in Posts, Refresh(p)
    PROVE  /\ post[p].run \in Runs /\ run' \in [Runs -> RunRecord]
           /\ run'[post[p].run].row
           /\ run'[post[p].run].total = Cardinality(ResultsOf(post[p].run))
           /\ run'[post[p].run].pass = Cardinality(Verdicts(post[p].run, TRUE))
           /\ run'[post[p].run].fail = Cardinality(Verdicts(post[p].run, FALSE))
           /\ \A r \in Runs : r # post[p].run => run'[r] = run[r]
<1> DEFINE k == post[p].run
<1>1. k \in Runs /\ run[k].row /\ run \in [Runs -> RunRecord] /\ run[k] \in RunRecord
  BY DEF EvalInv, EvalTypes, Named, Placed, Refresh
<1>2. ResultsOf(k) \in SUBSET Posts
  BY DEF ResultsOf, EvalInv, EvalTypes
<1>3. /\ Cardinality(ResultsOf(k)) \in Nat /\ Cardinality(Verdicts(k, TRUE)) \in Nat
      /\ Cardinality(Verdicts(k, FALSE)) \in Nat
  <2>1. post \in [Posts -> PostRecord]
    BY DEF EvalInv, EvalTypes
  <2> QED BY <2>1, <1>2, CountFacts DEF Verdicts
<1>4. /\ Summary(k) \in RunRecord /\ Summary(k).row = run[k].row
      /\ Summary(k).total = Cardinality(ResultsOf(k))
      /\ Summary(k).pass = Cardinality(Verdicts(k, TRUE))
      /\ Summary(k).fail = Cardinality(Verdicts(k, FALSE))
  <2> DEFINE a == Cardinality(ResultsOf(k))
  <2> DEFINE b == Cardinality(Verdicts(k, TRUE))
  <2> DEFINE c == Cardinality(Verdicts(k, FALSE))
  <2>1. Summary(k) = [run[k] EXCEPT !.total = a, !.pass = b, !.fail = c, !.fresh = TRUE]
    BY Zenon DEF Summary
  <2>2. a \in Nat /\ b \in Nat /\ c \in Nat
    BY <1>3
  <2> DEFINE x == run[k]
  <2> DEFINE y == Summary(k)
  <2> DEFINE d == TRUE
  <2>4. /\ x \in RunRecord /\ d \in BOOLEAN
        /\ y = [x EXCEPT !.total = a, !.pass = b, !.fail = c, !.fresh = d]
    BY <1>1, <2>1, Zenon
  <2> HIDE DEF a, b, c, x, y, d
  <2>5. y \in RunRecord /\ y.total = a /\ y.pass = b /\ y.fail = c /\ y.row = x.row
    BY <2>2, <2>4 DEF RunRecord
  <2>3. /\ Summary(k) \in RunRecord /\ Summary(k).row = run[k].row
        /\ Summary(k).total = a /\ Summary(k).pass = b /\ Summary(k).fail = c
    BY <2>5, Zenon DEF x, y
  <2> QED BY <2>3, Zenon DEF a, b, c
<1>5. run' = [run EXCEPT ![k] = Summary(k)]
  BY DEF Refresh
<1> HIDE DEF k
<1>6. /\ run' \in [Runs -> RunRecord] /\ run'[k] = Summary(k)
      /\ \A r \in Runs : r # k => run'[r] = run[r]
  BY <1>1, <1>4, <1>5
<1> QED BY <1>1, <1>4, <1>6, Zenon DEF k

\* Every step of a post keeps the invariant.
LEMMA PostKeeps ==
    ASSUME EvalRunsAssumption, EvalInv, NEW p \in Posts,
           \/ \E k \in Cases, r \in Runs, passed \in BOOLEAN : GetCase(p, k, r, passed)
           \/ GetRun(p) \/ InsertResult(p) \/ PostFails(p)
    PROVE  EvalInv'
<1> USE DEF EvalInv
<1>1. CASE \E k \in Cases, r \in Runs, passed \in BOOLEAN : GetCase(p, k, r, passed)
  <2>1. PICK k \in Cases, r \in Runs, passed \in BOOLEAN : GetCase(p, k, r, passed)
    BY <1>1
  <2> DEFINE rec == [pc |-> "run", case |-> k, run |-> r, passed |-> passed, saw |-> FALSE]
  <2>2. /\ rec \in PostRecord /\ rec.pc = "run" /\ rec.saw = FALSE /\ rec.run = r
    BY DEF PostRecord, PostStates
  <2>3. post' = [post EXCEPT ![p] = rec] /\ post[p].pc = "new"
    BY <2>1 DEF GetCase
  <2> HIDE DEF rec
  <2>4. UNCHANGED <<saved, run, results, creator, faults>>
    BY <2>1 DEF GetCase
  <2>5. /\ post' \in [Posts -> PostRecord] /\ post'[p] = rec
        /\ \A q \in Posts \ {p} : post'[q] = post[q]
    BY <2>2, <2>3, PostTo
  <2>6. p \notin results
    BY <2>3 DEF Placed
  <2>7. EvalTypes'
    BY <2>4, <2>5 DEF EvalTypes
  <2>8. Named'
    BY <2>2, <2>4, <2>5 DEF Named
  <2>9. Placed'
    <3> SUFFICES ASSUME NEW q \in Posts
                 PROVE  /\ q \in results' => post'[q].pc \in {"refresh", "done", "failed"}
                        /\ post'[q].pc = "refresh" => q \in results' /\ post'[q].saw
                        /\ post'[q].saw => post'[q].pc # "new" /\ run'[post'[q].run].row
      BY Zenon DEF Placed
    <3>1. CASE q = p
      BY <3>1, <2>2, <2>4, <2>5, <2>6
    <3>2. CASE q # p
      BY <3>2, <2>4, <2>5, Zenon DEF Placed
    <3> QED BY <3>1, <3>2
  <2>10. Counted'
    <3>1. results' = results /\ run' = run /\ \A q \in results : post'[q] = post[q]
      BY <2>4, <2>5, <2>6 DEF EvalTypes
    <3> QED BY <3>1, CountedKept, Zenon
  <2> QED BY <2>7, <2>8, <2>9, <2>10
<1>2. CASE GetRun(p)
  <2> DEFINE r == run[post[p].run]
  <2> DEFINE pc == IF r.row /\ r.case \notin {NoId, post[p].case} THEN "refused" ELSE "insert"
  <2> DEFINE rec == [post[p] EXCEPT !.saw = r.row, !.pc = pc]
  <2>1. post[p].pc = "run" /\ post[p].run \in Runs
    BY <1>2 DEF GetRun, Named
  <2>2. r \in RunRecord /\ r.row \in BOOLEAN
    BY <2>1 DEF EvalTypes, RunRecord
  <2>3. post[p] \in PostRecord
    BY DEF EvalTypes
  <2>4. UNCHANGED <<saved, run, results, creator, faults>>
    BY <1>2 DEF GetRun
  <2>5. post' = [post EXCEPT ![p] = rec]
    BY <1>2 DEF GetRun
  <2>6. pc \in {"refused", "insert"}
    OBVIOUS
  <2> HIDE DEF r, pc
  <2>7. /\ rec \in PostRecord /\ rec.run = post[p].run /\ rec.saw = r.row /\ rec.pc = pc
    BY <2>2, <2>3, <2>6 DEF PostRecord, PostStates
  <2> HIDE DEF rec
  <2>8. /\ post' \in [Posts -> PostRecord] /\ post'[p] = rec
        /\ \A q \in Posts \ {p} : post'[q] = post[q]
    BY <2>7, <2>5, PostTo
  <2>9. p \notin results
    BY <2>1 DEF Placed
  <2>10. EvalTypes'
    BY <2>4, <2>8 DEF EvalTypes
  <2>11. Named'
    BY <2>1, <2>4, <2>7, <2>8 DEF Named
  <2>12. Placed'
    <3> SUFFICES ASSUME NEW q \in Posts
                 PROVE  /\ q \in results' => post'[q].pc \in {"refresh", "done", "failed"}
                        /\ post'[q].pc = "refresh" => q \in results' /\ post'[q].saw
                        /\ post'[q].saw => post'[q].pc # "new" /\ run'[post'[q].run].row
      BY Zenon DEF Placed
    <3>1. CASE q = p
      <4>1. run'[post'[q].run] = r
        BY <3>1, <2>4, <2>7, <2>8 DEF r
      <4>2. post'[q].pc = pc /\ pc # "refresh" /\ pc # "new" /\ post'[q].saw = r.row
        BY <3>1, <2>6, <2>7, <2>8
      <4> QED BY <4>1, <4>2, <3>1, <2>4, <2>9, Zenon
    <3>2. CASE q # p
      BY <3>2, <2>4, <2>8, Zenon DEF Placed
    <3> QED BY <3>1, <3>2
  <2>13. Counted'
    <3>1. results' = results /\ run' = run /\ \A q \in results : post'[q] = post[q]
      BY <2>4, <2>8, <2>9 DEF EvalTypes
    <3> QED BY <3>1, CountedKept, Zenon
  <2> QED BY <2>10, <2>11, <2>12, <2>13
<1>3. CASE InsertResult(p)
  <2> DEFINE pc == IF post[p].saw THEN "refresh" ELSE "done"
  <2>1. /\ post[p].pc = "insert" /\ results' = results \cup {p}
        /\ post' = [post EXCEPT ![p].pc = pc]
    BY <1>3 DEF InsertResult
  <2>2. UNCHANGED <<saved, run, creator, faults>>
    BY <1>3 DEF InsertResult
  <2>3. (pc = "refresh" => post[p].saw) /\ (pc # "done" \/ ~post[p].saw)
    BY Zenon
  <2>10. pc \in {"refresh", "done"} /\ pc \in PostStates
    BY DEF PostStates
  <2> HIDE DEF pc
  <2>4. /\ post' \in [Posts -> PostRecord] /\ post'[p].pc = pc /\ post'[p].run = post[p].run
        /\ post'[p].saw = post[p].saw /\ \A q \in Posts \ {p} : post'[q] = post[q]
    BY <2>1, <2>10, Moved, Zenon
  <2>5. p \notin results
    BY <2>1 DEF Placed
  <2>6. EvalTypes'
    BY <2>1, <2>2, <2>4 DEF EvalTypes
  <2>7. Named'
    BY <2>1, <2>2, <2>4 DEF Named
  <2>8. Placed'
    <3> SUFFICES ASSUME NEW q \in Posts
                 PROVE  /\ q \in results' => post'[q].pc \in {"refresh", "done", "failed"}
                        /\ post'[q].pc = "refresh" => q \in results' /\ post'[q].saw
                        /\ post'[q].saw => post'[q].pc # "new" /\ run'[post'[q].run].row
      BY Zenon DEF Placed
    <3>1. CASE q = p
      <4>1. run'[post'[q].run] = run[post[p].run] /\ p \in results'
        BY <3>1, <2>1, <2>2, <2>4
      <4>2. post'[q].pc \in {"refresh", "done"} /\ post'[q].pc # "new"
        BY <3>1, <2>10, <2>4
      <4>3. post[p].saw => run[post[p].run].row
        BY Zenon DEF Placed
      <4> QED BY <4>1, <4>2, <4>3, <3>1, <2>3, <2>4, Zenon
    <3>2. CASE q # p
      BY <3>2, <2>1, <2>2, <2>4, Zenon DEF Placed
    <3> QED BY <3>1, <3>2
  <2>9. Counted'
    <3>1. \A q \in results : post'[q] = post[q]
      BY <2>4, <2>5 DEF EvalTypes
    <3>2. run' = run /\ results \subseteq results' /\ \A q \in results' : q = p \/ q \in results
      BY <2>1, <2>2
    <3>3. post'[p].pc # "done" \/ ~post'[p].saw
      BY <2>3, <2>4, Zenon
    <3>4. \A q \in results' : \/ q \in results /\ post'[q] = post[q]
                              \/ post'[q].pc # "done" \/ ~post'[q].saw
      BY <3>1, <3>2, <3>3, Zenon
    <3> QED BY <3>1, <3>2, <3>4, CountedKept, Zenon
  <2> QED BY <2>6, <2>7, <2>8, <2>9
<1>4. CASE PostFails(p)
  <2>1. /\ post[p].pc \in {"run", "insert", "refresh"} /\ faults < MaxFaults /\ faults' = faults + 1
        /\ post' = [post EXCEPT ![p].pc = "failed"]
    BY <1>4 DEF PostFails
  <2>2. UNCHANGED <<saved, run, results, creator>>
    BY <1>4 DEF PostFails
  <2>4. /\ post' \in [Posts -> PostRecord] /\ post'[p].pc = "failed" /\ post'[p].run = post[p].run
        /\ post'[p].saw = post[p].saw /\ post'[p].passed = post[p].passed
        /\ \A q \in Posts \ {p} : post'[q] = post[q]
    BY <2>1, Moved DEF PostStates
  <2>6. EvalTypes'
    BY <2>1, <2>2, <2>4 DEF EvalTypes, EvalRunsAssumption
  <2>7. Named'
    BY <2>1, <2>2, <2>4 DEF Named
  <2>8. Placed'
    <3> SUFFICES ASSUME NEW q \in Posts
                 PROVE  /\ q \in results' => post'[q].pc \in {"refresh", "done", "failed"}
                        /\ post'[q].pc = "refresh" => q \in results' /\ post'[q].saw
                        /\ post'[q].saw => post'[q].pc # "new" /\ run'[post'[q].run].row
      BY Zenon DEF Placed
    <3>1. CASE q = p
      <4>1. post[p].saw => run[post[p].run].row
        BY Zenon DEF Placed
      <4>2. run'[post'[q].run] = run[post[p].run] /\ post'[q].pc = "failed" /\ post'[q].saw = post[p].saw
        BY <3>1, <2>2, <2>4
      <4>3. "failed" # "refresh" /\ "failed" # "new"
        OBVIOUS
      <4> QED BY <4>1, <4>2, <4>3, Zenon
    <3>2. CASE q # p
      BY <3>2, <2>1, <2>2, <2>4, Zenon DEF Placed
    <3> QED BY <3>1, <3>2
  <2>9. Counted'
    <3>1. \A q \in results : q = p \/ post'[q] = post[q]
      BY <2>4 DEF EvalTypes
    <3>2. run' = run /\ results' = results
      BY <2>2
    <3>3. post'[p].pc # "done"
      BY <2>4
    <3>4. \A q \in results : post'[q].run = post[q].run /\ post'[q].passed = post[q].passed
      BY <3>1, <2>4, Zenon
    <3>5. \A q \in results' : (q \in results /\ post'[q] = post[q]) \/ post'[q].pc # "done"
      BY <3>1, <3>2, <3>3, Zenon
    <3> QED BY <3>2, <3>4, <3>5, CountedKept, Zenon
  <2> QED BY <2>6, <2>7, <2>8, <2>9
<1> QED BY <1>1, <1>2, <1>3, <1>4

\* The refresh of a run: its counts are those of all its results.
LEMMA RefreshKeeps ==
    ASSUME EvalRunsAssumption, EvalInv, NEW p \in Posts, Refresh(p)
    PROVE  EvalInv'
<1> DEFINE k == post[p].run
<1>1. /\ post[p].pc = "refresh" /\ post' = [post EXCEPT ![p].pc = "done"]
      /\ UNCHANGED <<saved, results, creator, faults>>
  BY DEF Refresh
<1>2. /\ k \in Runs /\ run' \in [Runs -> RunRecord] /\ run'[k].row
      /\ run'[k].total = Cardinality(ResultsOf(k))
      /\ run'[k].pass = Cardinality(Verdicts(k, TRUE))
      /\ run'[k].fail = Cardinality(Verdicts(k, FALSE))
      /\ \A r \in Runs : r # k => run'[r] = run[r]
  BY RefreshTo, Zenon
<1>3. EvalTypes /\ Named /\ Placed /\ Counted
  BY DEF EvalInv
<1>4. /\ post' \in [Posts -> PostRecord] /\ post'[p].pc = "done" /\ post'[p].run = post[p].run
      /\ post'[p].saw = post[p].saw /\ post'[p].passed = post[p].passed
      /\ \A q \in Posts \ {p} : post'[q] = post[q]
  BY <1>1, <1>3, Moved DEF PostStates
<1>5. EvalTypes'
  BY <1>1, <1>2, <1>3, <1>4 DEF EvalTypes
<1>6. Named'
  BY <1>1, <1>2, <1>3, <1>4 DEF Named
<1>7. Placed'
  <2> SUFFICES ASSUME NEW q \in Posts
               PROVE  /\ q \in results' => post'[q].pc \in {"refresh", "done", "failed"}
                      /\ post'[q].pc = "refresh" => q \in results' /\ post'[q].saw
                      /\ post'[q].saw => post'[q].pc # "new" /\ run'[post'[q].run].row
    BY Zenon DEF Placed
  <2>1. CASE q = p
    <3>1. "done" # "new" /\ "done" # "refresh"
      OBVIOUS
    <3> QED BY <2>1, <3>1, <1>2, <1>4, Zenon
  <2>2. CASE q # p
    <3>1. post'[q] = post[q] /\ results' = results
      BY <2>2, <1>1, <1>4
    <3>2. post[q].saw => post[q].pc # "new" /\ run[post[q].run].row
      BY <1>3, Zenon DEF Placed
    <3>3. post[q].pc # "new" => post[q].run \in Runs
      BY <1>3, Zenon DEF Named
    <3>4. post[q].saw => run'[post[q].run].row
      BY <3>2, <3>3, <1>2, Zenon
    <3> QED BY <3>1, <3>2, <3>4, <1>3, Zenon DEF Placed
  <2> QED BY <2>1, <2>2
<1>8. Counted'
  <2> SUFFICES ASSUME NEW r \in Runs, run'[r].fresh
               PROVE  run'[r].row /\ \E C \in SUBSET Posts : CountsAre(r, C)'
    BY Zenon DEF Counted
  <2>1. \A q \in results : q \in results' /\ post'[q].run = post[q].run /\ post'[q].passed = post[q].passed
    <3>1. \A q \in Posts : q = p \/ post'[q] = post[q]
      BY <1>4
    <3> QED BY <3>1, <1>1, <1>3, <1>4, Zenon DEF EvalTypes
  <2>2. CASE r = k
    <3> DEFINE C == {q \in results : post[q].run = r}
    <3>1. C = ResultsOf(r) /\ C \in SUBSET Posts
      BY <1>3 DEF ResultsOf, EvalTypes
    <3>2. ResultsOf(r)' = {q \in results' : post'[q].run = r}
      BY DEF ResultsOf
    <3>3. ResultsOf(r)' = C
      BY <3>2, <2>1, <1>1
    <3>4. /\ Verdicts(r, TRUE) = {q \in C : post'[q].passed = TRUE}
          /\ Verdicts(r, FALSE) = {q \in C : post'[q].passed = FALSE}
      BY <3>1, <2>1, Zenon DEF Verdicts
    <3>5. /\ run'[r].row /\ run'[r].total = Cardinality(C)
          /\ run'[r].pass = Cardinality({q \in C : post'[q].passed = TRUE})
          /\ run'[r].fail = Cardinality({q \in C : post'[q].passed = FALSE})
      BY <2>2, <1>2, <3>1, <3>4, Zenon
    <3> HIDE DEF C
    <3>6. ASSUME NEW D, D = C PROVE CountsAre(r, D)'
      BY <3>3, <3>5, <3>6, Zenon DEF CountsAre
    <3> QED BY <3>1, <3>5, <3>6, Zenon
  <2>3. CASE r # k
    <3>1. run'[r] = run[r] /\ run[r].fresh /\ run[r].row
      BY <2>3, <1>2, <1>3, Zenon DEF Counted
    <3>2. PICK C \in SUBSET Posts : CountsAre(r, C)
      BY <3>1, <1>3, Zenon DEF Counted
    <3>3. ASSUME NEW q \in results', post'[q].run = r
          PROVE  q \in C \/ post'[q].pc # "done" \/ ~post'[q].saw
      <4>1. q # p /\ q \in results /\ q \in Posts
        BY <3>3, <2>3, <1>1, <1>3, <1>4 DEF EvalTypes
      <4>2. post'[q] = post[q] /\ q \in ResultsOf(r)
        BY <4>1, <3>3, <1>4 DEF ResultsOf
      <4> QED BY <4>2, <3>2, Zenon DEF CountsAre
    <3>4. CountsAre(r, C)'
      BY <3>1, <3>2, <3>3, <2>1, CountsKept, Zenon
    <3> QED BY <3>1, <3>4, Zenon
  <2> QED BY <2>2, <2>3
<1> QED BY <1>5, <1>6, <1>7, <1>8 DEF EvalInv

\* Cases and creations: a row that exists is never written by a creation.
LEMMA CreationKeeps ==
    ASSUME EvalRunsAssumption, EvalInv,
           \/ \E k \in Cases : CreateCase(k)
           \/ \E c \in Creators, r \in Runs, k \in Cases \cup {NoId}, claim \in Claims :
                  CheckRun(c, r, k, claim)
           \/ \E c \in Creators : InsertRun(c)
    PROVE  EvalInv'
<1>0. EvalTypes /\ Named /\ Placed /\ Counted
  BY DEF EvalInv
<1>1. CASE \E k \in Cases : CreateCase(k)
  <2>1. PICK k \in Cases : CreateCase(k)
    BY <1>1
  <2>2. saved' \subseteq Cases /\ UNCHANGED <<run, results, post, creator, faults>>
    BY <2>1, <1>0 DEF CreateCase, EvalTypes
  <2>3. EvalTypes' /\ Named' /\ Placed'
    BY <2>2, <1>0 DEF EvalTypes, Named, Placed
  <2>4. Counted'
    BY <2>2, CountedKept, Zenon
  <2> QED BY <2>3, <2>4 DEF EvalInv
<1>2. CASE \E c \in Creators, r \in Runs, k \in Cases \cup {NoId}, claim \in Claims :
               CheckRun(c, r, k, claim)
  <2>1. PICK c \in Creators, r \in Runs, k \in Cases \cup {NoId}, claim \in Claims :
            CheckRun(c, r, k, claim)
    BY <1>2
  <2> DEFINE rec == [pc |-> "insert", case |-> k, run |-> r, claim |-> claim]
  <2>2. rec \in CreatorRecord /\ rec.run \in Runs
    BY DEF CreatorRecord, EvalRunsAssumption
  <2>3. creator' = [creator EXCEPT ![c] = rec] /\ UNCHANGED <<saved, run, results, post, faults>>
    BY <2>1 DEF CheckRun
  <2> HIDE DEF rec
  <2>4. EvalTypes' /\ Named'
    BY <2>2, <2>3, <1>0 DEF EvalTypes, Named
  <2>5. Placed'
    BY <2>3, <1>0 DEF Placed
  <2>6. Counted'
    BY <2>3, CountedKept, Zenon
  <2> QED BY <2>4, <2>5, <2>6 DEF EvalInv
<1>3. CASE \E c \in Creators : InsertRun(c)
  <2>1. PICK c \in Creators : InsertRun(c)
    BY <1>3
  <2>2. /\ run' \in [Runs -> RunRecord]
        /\ \A r \in Runs : /\ run[r].row => run'[r] = run[r] /\ run'[r].row
                           /\ run'[r] # run[r] => ~run'[r].fresh /\ run'[r].row
    BY <2>1, InsertRunTo, Zenon
  <2>3. creator' = [creator EXCEPT ![c].pc = "done"] /\ UNCHANGED <<saved, results, post, faults>>
    BY <2>1 DEF InsertRun
  <2> DEFINE rec == [creator[c] EXCEPT !.pc = "done"]
  <2>4. rec \in CreatorRecord /\ rec.run = creator[c].run
    BY <1>0 DEF EvalTypes, CreatorRecord
  <2>5. creator' = [creator EXCEPT ![c] = rec]
    BY <2>3
  <2>6. creator[c].run \in Runs
    BY <2>1, InsertRunTo
  <2> HIDE DEF rec
  <2>7. EvalTypes' /\ Named'
    BY <2>2, <2>3, <2>4, <2>5, <2>6, <1>0 DEF EvalTypes, Named
  <2>8. Placed'
    <3> SUFFICES ASSUME NEW q \in Posts, post[q].saw
                 PROVE  run'[post[q].run].row
      BY <2>3, <1>0, Zenon DEF Placed
    <3>1. post[q].pc # "new" /\ run[post[q].run].row
      BY <1>0, Zenon DEF Placed
    <3>2. post[q].run \in Runs
      BY <3>1, <1>0 DEF Named
    <3> QED BY <3>1, <3>2, <2>2, Zenon
  <2>9. Counted'
    <3>1. \A r \in Runs : run'[r].fresh => run'[r] = run[r]
      BY <2>2, Zenon
    <3> QED BY <2>3, <3>1, CountedKept, Zenon
  <2> QED BY <2>7, <2>8, <2>9 DEF EvalInv
<1> QED BY <1>1, <1>2, <1>3

\* The invariant of the eval runs is inductive.
LEMMA EvalInvInductive ==
    ASSUME EvalRunsAssumption, EvalInv, [EvalNext]_evalVars
    PROVE  EvalInv'
<1>1. CASE UNCHANGED evalVars
  <2>1. EvalTypes /\ Named /\ Placed /\ Counted
    BY DEF EvalInv
  <2>2. UNCHANGED <<saved, run, results, post, creator, faults>>
    BY <1>1 DEF evalVars
  <2>3. EvalTypes' /\ Named' /\ Placed'
    BY <2>1, <2>2 DEF EvalTypes, Named, Placed
  <2>4. Counted'
    BY <2>2, CountedKept, Zenon
  <2> QED BY <2>3, <2>4 DEF EvalInv
<1>2. CASE EvalNext
  <2>1. CASE \/ \E k \in Cases : CreateCase(k)
             \/ \E c \in Creators, r \in Runs, k \in Cases \cup {NoId}, claim \in Claims :
                    CheckRun(c, r, k, claim)
             \/ \E c \in Creators : InsertRun(c)
    BY <2>1, CreationKeeps
  <2>2. CASE \E p \in Posts : Refresh(p)
    BY <2>2, RefreshKeeps
  <2>3. CASE \E p \in Posts :
                 \/ \E k \in Cases, r \in Runs, passed \in BOOLEAN : GetCase(p, k, r, passed)
                 \/ GetRun(p) \/ InsertResult(p) \/ PostFails(p)
    BY <2>3, PostKeeps
  <2> QED BY <1>2, <2>1, <2>2, <2>3, Zenon DEF EvalNext
<1> QED BY <1>1, <1>2

\* EvalInv holds in every reachable state.
THEOREM EvalRunsInvariant == EvalSpec => []EvalInv
<1>1. EvalInit => EvalInv
  BY EvalRunsAssumption, EvalInvInit
<1>2. EvalInv /\ [EvalNext]_evalVars => EvalInv'
  BY EvalRunsAssumption, EvalInvInductive
<1> QED BY <1>1, <1>2, PTL DEF EvalSpec

\* Types, and that a recomputed summary splits its total (refreshRunSummary,
\* eval-cases-store.ts).
THEOREM EvalTypeOKHolds == EvalSpec => []EvalTypeOK
<1>1. ASSUME EvalInv PROVE EvalTypeOK
  <2>1. EvalTypes /\ Counted
    BY <1>1 DEF EvalInv
  <2>2. ASSUME NEW r \in Runs
        PROVE  /\ run[r].case \in Cases \cup {NoId} /\ run[r].fresh \in BOOLEAN /\ run[r].row \in BOOLEAN
               /\ run[r].total \in Nat /\ run[r].pass \in Nat /\ run[r].fail \in Nat
    BY <2>1 DEF EvalTypes, RunRecord
  <2>3. ASSUME NEW r \in Runs, run[r].fresh
        PROVE  run[r].total = run[r].pass + run[r].fail
    <3>1. PICK C \in SUBSET Posts : CountsAre(r, C)
      BY <2>1, <2>3, Zenon DEF Counted
    <3>2. Cardinality(C) = Cardinality({p \in C : post[p].passed = TRUE})
                               + Cardinality({p \in C : post[p].passed = FALSE})
      BY <2>1, EvalRunsAssumption, CountFacts DEF EvalTypes
    <3> QED BY <3>1, <3>2, Zenon DEF CountsAre
  <2>4. \A r \in Runs : {run[r].fresh, run[r].row} \subseteq BOOLEAN
    BY <2>2, Zenon
  <2>5. \A r \in Runs : {run[r].total, run[r].pass, run[r].fail} \subseteq Nat
    BY <2>2
  <2>6. /\ \A p \in Posts : post[p].pc \in PostStates
        /\ \A c \in Creators : creator[c].pc \in {"new", "insert", "done"}
    BY <2>1 DEF EvalTypes, PostRecord, CreatorRecord
  <2>7. saved \subseteq Cases /\ results \subseteq Posts /\ faults \in 0..MaxFaults
    BY <2>1 DEF EvalTypes
  <2> QED BY <2>2, <2>3, <2>4, <2>5, <2>6, <2>7, Zenon DEF EvalTypeOK, PostStates
<1> QED BY <1>1, EvalRunsInvariant, PTL

\* A result whose post saw its run and was answered is in the run's counts,
\* whatever other posts and creations did meanwhile (recordResult and
\* refreshRunSummary, eval-cases-store.ts).
THEOREM AnsweredIsCountedHolds == EvalSpec => []AnsweredIsCounted
<1>1. ASSUME EvalInv PROVE AnsweredIsCounted
  <2> SUFFICES ASSUME NEW r \in Runs, run[r].fresh
               PROVE  Cardinality(ResultsOf(r)) - run[r].total <=
                          Cardinality({p \in ResultsOf(r) : post[p].pc # "done" \/ ~post[p].saw})
    BY DEF AnsweredIsCounted
  <2> DEFINE missing == {p \in ResultsOf(r) : post[p].pc # "done" \/ ~post[p].saw}
  <2> DEFINE all == ResultsOf(r)
  <2>1. PICK C \in SUBSET Posts : CountsAre(r, C)
    BY <1>1, Zenon DEF EvalInv, Counted
  <2>2. /\ C \subseteq all /\ run[r].total = Cardinality(C)
        /\ all \ C \subseteq missing
    BY <2>1, Zenon DEF CountsAre
  <2>3. all \in SUBSET Posts /\ missing \in SUBSET Posts
    BY <1>1 DEF EvalInv, EvalTypes, ResultsOf
  <2> HIDE DEF all, missing
  <2>4. IsFiniteSet(all) /\ IsFiniteSet(missing)
    BY <2>3, FS_Subset, EvalRunsAssumption DEF EvalRunsAssumption
  <2>5. /\ IsFiniteSet(all \ C)
        /\ Cardinality(all \ C) = Cardinality(all) - Cardinality(all \cap C)
    BY <2>4, FS_Difference
  <2>6. all \cap C = C
    BY <2>2
  <2>7. Cardinality(all \ C) <= Cardinality(missing)
    BY <2>2, <2>4, FS_Subset
  <2>8. Cardinality(all) - Cardinality(C) <= Cardinality(missing)
    BY <2>5, <2>6, <2>7
  <2> QED BY <2>8, <2>2 DEF all, missing
<1> QED BY <1>1, EvalRunsInvariant, PTL

\* Two refreshes of a run may pass each other, and its counts still never go
\* down: each UPDATE counts the results that are there (refreshRunSummary).
THEOREM CountsGrowHolds == EvalSpec => CountsGrow
<1> DEFINE Grows == \A r \in Runs : run[r].fresh =>
        /\ run[r].total <= run'[r].total
        /\ run[r].pass <= run'[r].pass /\ run[r].fail <= run'[r].fail
<1>1. ASSUME EvalInv, EvalNext PROVE Grows
  <2> SUFFICES ASSUME NEW r \in Runs, run[r].fresh
               PROVE  /\ run[r].total <= run'[r].total
                      /\ run[r].pass <= run'[r].pass /\ run[r].fail <= run'[r].fail
    OBVIOUS
  <2>1. run[r].total \in Nat /\ run[r].pass \in Nat /\ run[r].fail \in Nat
    BY <1>1 DEF EvalInv, EvalTypes, RunRecord
  <2>2. CASE run'[r] = run[r]
    BY <2>1, <2>2
  <2>3. CASE \E c \in Creators : InsertRun(c)
    <3>1. run[r].row
      BY <1>1, Zenon DEF EvalInv, Counted
    <3>2. run'[r] = run[r]
      BY <3>1, <2>3, <1>1, InsertRunTo, Zenon
    <3> QED BY <3>2, <2>2
  <2>4. CASE \E p \in Posts : Refresh(p)
    <3>1. PICK p \in Posts : Refresh(p)
      BY <2>4
    <3>2. /\ r = post[p].run => /\ run'[r].total = Cardinality(ResultsOf(r))
                                /\ run'[r].pass = Cardinality(Verdicts(r, TRUE))
                                /\ run'[r].fail = Cardinality(Verdicts(r, FALSE))
          /\ r # post[p].run => run'[r] = run[r]
      BY <3>1, <1>1, EvalRunsAssumption, RefreshTo, Zenon
    <3>3. CASE r = post[p].run
      <4>1. PICK C \in SUBSET Posts : CountsAre(r, C)
        BY <1>1, Zenon DEF EvalInv, Counted
      <4> DEFINE yes == {q \in C : post[q].passed = TRUE}
      <4> DEFINE no == {q \in C : post[q].passed = FALSE}
      <4>2. /\ run[r].total = Cardinality(C)
            /\ run[r].pass = Cardinality(yes) /\ run[r].fail = Cardinality(no)
            /\ C \in SUBSET ResultsOf(r)
        BY <4>1, Zenon DEF CountsAre
      <4>3. yes \in SUBSET Verdicts(r, TRUE) /\ no \in SUBSET Verdicts(r, FALSE)
        BY <4>2, Zenon DEF Verdicts
      <4>4. /\ ResultsOf(r) \in SUBSET Posts /\ Verdicts(r, TRUE) \in SUBSET Posts
            /\ Verdicts(r, FALSE) \in SUBSET Posts
        BY <1>1 DEF EvalInv, EvalTypes, ResultsOf, Verdicts
      <4> HIDE DEF yes, no
      <4>5. /\ IsFiniteSet(ResultsOf(r)) /\ IsFiniteSet(Verdicts(r, TRUE))
            /\ IsFiniteSet(Verdicts(r, FALSE))
        BY <4>4, FS_Subset, EvalRunsAssumption DEF EvalRunsAssumption
      <4>6. /\ Cardinality(C) <= Cardinality(ResultsOf(r))
            /\ Cardinality(yes) <= Cardinality(Verdicts(r, TRUE))
            /\ Cardinality(no) <= Cardinality(Verdicts(r, FALSE))
        BY <4>2, <4>3, <4>5, FS_Subset
      <4> QED BY <4>2, <4>6, <3>2, <3>3
    <3> QED BY <3>2, <3>3, <2>2
  <2>5. CASE \/ \E k \in Cases : CreateCase(k)
             \/ \E c \in Creators, j \in Runs, k \in Cases \cup {NoId}, claim \in Claims :
                    CheckRun(c, j, k, claim)
             \/ \E p \in Posts :
                 \/ \E k \in Cases, j \in Runs, passed \in BOOLEAN : GetCase(p, k, j, passed)
                 \/ GetRun(p) \/ InsertResult(p) \/ PostFails(p)
    <3>1. run' = run
      BY <2>5 DEF CreateCase, CheckRun, GetCase, GetRun, InsertResult, PostFails
    <3> QED BY <3>1, <2>2
  <2> QED BY <1>1, <2>3, <2>4, <2>5, Zenon DEF EvalNext
<1>2. EvalInv /\ [EvalNext]_evalVars => [Grows]_evalVars
  BY <1>1
<1> HIDE DEF Grows
<1>3. EvalSpec => [][Grows]_evalVars
  BY <1>2, EvalRunsInvariant, PTL DEF EvalSpec
<1> QED BY <1>3 DEF CountsGrow, Grows

-----------------------------------------------------------------------------
(***************************************************************************)
(* The live-tail hub. A broadcast is in one stream at a time, and nobody   *)
(* at or beyond that one has read it; whoever is owed it and has not left  *)
(* is still ahead. Two broadcasts of a topic keep their order since the    *)
(* later one stops behind the earlier, except where the subscription the   *)
(* earlier waits at has left the Map.                                      *)
(***************************************************************************)

Chunks == {Connected, Beat} \cup Casts

HubTypes ==
    /\ subs \in 0..MaxSubs /\ casts \in 0..MaxCasts
    /\ members \subseteq 1..subs /\ timers \subseteq 1..subs
    /\ interest \in [Subs -> SUBSET Topics]
    /\ stream \in [Subs -> Seq(Chunks)]
    /\ client \in [Subs -> {"none", "reading", "stalled", "gone"}]
    /\ beats \in 0..MaxBeats
    /\ events \in Seq(Topics) /\ Len(events) = casts
    /\ at \in [Casts -> 0..MaxSubs]
    /\ got \in [Subs -> Seq(Casts)]
    /\ owed \in [Casts -> SUBSET Subs]

Roomy == Cardinality(members) <= MaxSubscribers

\* Who is not in the Map has gone, or has not come yet.
Left ==
    \A i \in Subs : IF i <= subs THEN i \in members \/ client[i] = "gone"
                    ELSE client[i] = "none" /\ stream[i] = <<>> /\ got[i] = <<>>

\* A broadcast waits in one stream, that of a subscription that wants it, and
\* nobody has read it there or further on.
Awaiting ==
    \A b \in Casts :
        /\ at[b] # 0 => b <= casts /\ at[b] <= subs /\ Wants(at[b], events[b])
        /\ at[b] # 0 => b \in ToSet(stream[at[b]])
        /\ \A i \in Subs :
            /\ b \in ToSet(stream[i]) => at[b] = i
            /\ b \in ToSet(got[i]) => b <= casts /\ (at[b] = 0 \/ i < at[b])

\* Who is owed a broadcast has read it, has gone, or is still ahead of it.
Ahead ==
    \A b \in Casts : b <= casts => \A i \in owed[b] :
        /\ i <= subs
        /\ \/ client[i] = "gone" \/ b \in ToSet(got[i])
           \/ at[b] # 0 /\ at[b] <= i /\ Wants(i, events[b])

\* Some subscription before i has gone.
GoneBefore(i) == \E j \in 1..(i - 1) : client[j] = "gone"

\* A later broadcast of the same topic is beyond an earlier one that is still
\* on its way only if it passed a subscription that has gone.
Overtaken ==
    \A b, c \in Casts, i \in Subs :
        /\ b < c /\ c <= casts /\ events[b] = events[c] /\ at[b] # 0 /\ at[b] < i
        /\ c \in ToSet(got[i]) \/ c \in ToSet(stream[i])
        => GoneBefore(i)

HubInv == HubTypes /\ Left /\ Awaiting /\ Ahead /\ InOrder /\ Overtaken

-----------------------------------------------------------------------------
\* What is in a sequence after an Append.
LEMMA InAppend ==
    ASSUME NEW S, NEW s \in Seq(S), NEW e \in S
    PROVE  ToSet(Append(s, e)) = ToSet(s) \cup {e}
<1> DEFINE t == Append(s, e)
<1>1. /\ t \in Seq(S) /\ Len(t) = Len(s) + 1 /\ Len(s) \in Nat
      /\ \A n \in 1..Len(s) : t[n] = s[n]
      /\ t[Len(s) + 1] = e
  BY AppendProperties
<1> HIDE DEF t
<1>2. ASSUME NEW n \in DOMAIN t PROVE (n \in DOMAIN s /\ t[n] = s[n]) \/ t[n] = e
  BY <1>1
<1>3. ASSUME NEW n \in DOMAIN s PROVE n \in DOMAIN t /\ t[n] = s[n]
  BY <1>1
<1>4. Len(s) + 1 \in DOMAIN t
  BY <1>1
<1>5. ToSet(t) = ToSet(s) \cup {e}
  BY <1>1, <1>2, <1>3, <1>4, Zenon DEF ToSet
<1> QED BY <1>5 DEF t

\* What is in a sequence, apart from its head.
LEMMA InTail ==
    ASSUME NEW S, NEW s \in Seq(S), s # <<>>
    PROVE  ToSet(s) = {Head(s)} \cup ToSet(Tail(s))
<1>1. ToSet(s) \subseteq {Head(s)} \cup ToSet(Tail(s))
  <2> SUFFICES ASSUME NEW n \in DOMAIN s, n # 1
               PROVE  s[n] \in ToSet(Tail(s))
    BY DEF ToSet
  <2>1. n - 1 \in DOMAIN Tail(s) /\ Tail(s)[n - 1] = s[n]
    OBVIOUS
  <2> QED BY <2>1, Zenon DEF ToSet
<1>2. Head(s) \in ToSet(s)
  BY DEF ToSet
<1>3. ToSet(Tail(s)) \subseteq ToSet(s)
  <2> SUFFICES ASSUME NEW n \in DOMAIN Tail(s)
               PROVE  Tail(s)[n] \in ToSet(s)
    BY Zenon DEF ToSet
  <2>1. n + 1 \in DOMAIN s /\ Tail(s)[n] = s[n + 1]
    OBVIOUS
  <2> QED BY <2>1, Zenon DEF ToSet
<1> QED BY <1>1, <1>2, <1>3

\* What is in two sequences put together.
LEMMA InConcat ==
    ASSUME NEW S, NEW s \in Seq(S), NEW t \in Seq(S)
    PROVE  ToSet(s \o t) = ToSet(s) \cup ToSet(t)
<1>1. ToSet(s \o t) \subseteq ToSet(s) \cup ToSet(t)
  <2> SUFFICES ASSUME NEW n \in DOMAIN (s \o t)
               PROVE  (s \o t)[n] \in ToSet(s) \cup ToSet(t)
    BY Zenon DEF ToSet
  <2>1. CASE n <= Len(s)
    <3>1. n \in DOMAIN s /\ (s \o t)[n] = s[n]
      BY <2>1
    <3> QED BY <3>1, Zenon DEF ToSet
  <2>2. CASE ~(n <= Len(s))
    <3>1. n - Len(s) \in DOMAIN t /\ (s \o t)[n] = t[n - Len(s)]
      BY <2>2
    <3> QED BY <3>1, Zenon DEF ToSet
  <2> QED BY <2>1, <2>2
<1>2. ToSet(s) \subseteq ToSet(s \o t)
  <2> SUFFICES ASSUME NEW n \in DOMAIN s
               PROVE  s[n] \in ToSet(s \o t)
    BY Zenon DEF ToSet
  <2>1. n \in DOMAIN (s \o t) /\ (s \o t)[n] = s[n]
    OBVIOUS
  <2> QED BY <2>1, Zenon DEF ToSet
<1>3. ToSet(t) \subseteq ToSet(s \o t)
  <2> SUFFICES ASSUME NEW n \in DOMAIN t
               PROVE  t[n] \in ToSet(s \o t)
    BY Zenon DEF ToSet
  <2>1. n + Len(s) \in DOMAIN (s \o t) /\ (s \o t)[n + Len(s)] = t[n]
    OBVIOUS
  <2> QED BY <2>1, Zenon DEF ToSet
<1> QED BY <1>1, <1>2, <1>3

\* x comes before y in s.
Precedes(s, x, y) == \E m, n \in DOMAIN s : m < n /\ s[m] = x /\ s[n] = y

\* An Append only puts its element behind what is there.
LEMMA PrecedesAppend ==
    ASSUME NEW S, NEW s \in Seq(S), NEW e \in S, NEW x, NEW y,
           Precedes(Append(s, e), x, y)
    PROVE  Precedes(s, x, y) \/ (x \in ToSet(s) /\ y = e)
<1>1. PICK m \in DOMAIN Append(s, e), n \in DOMAIN Append(s, e) :
          m < n /\ Append(s, e)[m] = x /\ Append(s, e)[n] = y
  BY Zenon DEF Precedes
<1>2. m \in DOMAIN s /\ s[m] = x
  BY <1>1
<1>3. CASE n = Len(s) + 1
  <2>1. y = e
    BY <1>1, <1>3
  <2> QED BY <2>1, <1>2 DEF ToSet
<1>4. CASE n # Len(s) + 1
  <2>1. n \in DOMAIN s /\ s[n] = y
    BY <1>1, <1>4
  <2> QED BY <2>1, <1>1, <1>2, Zenon DEF Precedes
<1> QED BY <1>3, <1>4

\* A sequence without an element in the middle keeps the order of the others.
LEMMA PrecedesTail ==
    ASSUME NEW S, NEW s \in Seq(S), NEW t \in Seq(S), t # <<>>, NEW x, NEW y,
           Precedes(s \o Tail(t), x, y)
    PROVE  Precedes(s \o t, x, y)
<1> DEFINE r == s \o Tail(t)
<1> DEFINE k == Len(s)
<1>1. PICK m \in DOMAIN r, n \in DOMAIN r : m < n /\ r[m] = x /\ r[n] = y
  BY Zenon DEF Precedes
<1>2. k \in Nat /\ Len(t) \in Nat \ {0} /\ Len(r) = k + Len(t) - 1 /\ Len(s \o t) = k + Len(t)
  OBVIOUS
<1>3. ASSUME NEW l \in DOMAIN r
      PROVE  IF l <= k THEN l \in DOMAIN (s \o t) /\ (s \o t)[l] = r[l]
             ELSE l + 1 \in DOMAIN (s \o t) /\ (s \o t)[l + 1] = r[l]
  <2>1. CASE l <= k
    BY <2>1, <1>2
  <2>2. CASE ~(l <= k)
    <3>1. r[l] = Tail(t)[l - k] /\ l - k \in 1..Len(Tail(t))
      BY <2>2, <1>2
    <3>2. Tail(t)[l - k] = t[l - k + 1]
      BY <3>1
    <3>3. l + 1 \in DOMAIN (s \o t) /\ (s \o t)[l + 1] = t[l + 1 - k]
      BY <2>2, <1>2
    <3>4. l - k + 1 = l + 1 - k
      BY <1>2
    <3> QED BY <2>2, <3>1, <3>2, <3>3, <3>4
  <2> QED BY <2>1, <2>2
<1>4. m \in Nat /\ n \in Nat
  BY <1>1, <1>2
<1> HIDE DEF r
<1>5. CASE n <= k
  <2>1. m <= k
    BY <1>1, <1>4, <1>5, <1>2
  <2> QED BY <1>1, <1>3, <1>5, <2>1, Zenon DEF Precedes
<1>6. CASE m <= k /\ ~(n <= k)
  <2>1. m < n + 1
    BY <1>1, <1>4
  <2> QED BY <1>1, <1>3, <1>6, <2>1, Zenon DEF Precedes
<1>7. CASE ~(m <= k) /\ ~(n <= k)
  <2>1. m + 1 < n + 1
    BY <1>1, <1>4
  <2> QED BY <1>1, <1>3, <1>7, <2>1, Zenon DEF Precedes
<1> QED BY <1>5, <1>6, <1>7

\* The head of the second sequence comes before the rest of it.
LEMMA HeadFirst ==
    ASSUME NEW S, NEW s \in Seq(S), NEW t \in Seq(S), t # <<>>, NEW y \in ToSet(Tail(t))
    PROVE  Precedes(s \o t, Head(t), y)
<1>1. PICK n \in DOMAIN Tail(t) : y = Tail(t)[n]
  BY Zenon DEF ToSet
<1>2. Len(s) + 1 \in DOMAIN (s \o t) /\ (s \o t)[Len(s) + 1] = Head(t)
  OBVIOUS
<1>3. n \in 1..Len(Tail(t)) /\ n + 1 \in 1..Len(t) /\ Tail(t)[n] = t[n + 1]
  BY <1>1
<1>4. Len(s) + (n + 1) \in DOMAIN (s \o t) /\ (s \o t)[Len(s) + (n + 1)] = t[n + 1]
  BY <1>3
<1>5. Len(s) + 1 < Len(s) + (n + 1)
  BY <1>3
<1> QED BY <1>1, <1>2, <1>3, <1>4, <1>5, Zenon DEF Precedes

\* A chunk that is read moves from what is queued to what was read.
LEMMA HeadMoves ==
    ASSUME NEW S, NEW s \in Seq(S), NEW t \in Seq(S), t # <<>>
    PROVE  Append(s, Head(t)) \o Tail(t) = s \o t
<1> DEFINE a == Append(s, Head(t))
<1> DEFINE l == a \o Tail(t)
<1> DEFINE r == s \o t
<1>1. Head(t) \in S /\ Tail(t) \in Seq(S) /\ Len(t) \in Nat \ {0} /\ Len(Tail(t)) = Len(t) - 1
  OBVIOUS
<1>2. a \in Seq(S) /\ Len(a) = Len(s) + 1 /\ Len(s) \in Nat
  BY <1>1
<1>3. l \in Seq(S) /\ r \in Seq(S) /\ Len(l) = Len(r) /\ Len(r) = Len(s) + Len(t)
  BY <1>1, <1>2
<1>4. ASSUME NEW n \in 1..Len(r) PROVE l[n] = r[n]
  <2>1. CASE n <= Len(s)
    <3>1. l[n] = a[n] /\ a[n] = s[n] /\ r[n] = s[n]
      BY <2>1, <1>1, <1>2, <1>3
    <3> QED BY <3>1
  <2>2. CASE n = Len(s) + 1
    <3>1. l[n] = a[n] /\ a[n] = Head(t) /\ r[n] = t[1]
      BY <2>2, <1>1, <1>2, <1>3
    <3> QED BY <3>1
  <2>3. CASE n > Len(s) + 1
    <3>1. l[n] = Tail(t)[n - (Len(s) + 1)] /\ r[n] = t[n - Len(s)]
      BY <2>3, <1>1, <1>2, <1>3
    <3>2. n - (Len(s) + 1) \in 1..Len(Tail(t))
      BY <2>3, <1>1, <1>2, <1>3
    <3>3. Tail(t)[n - (Len(s) + 1)] = t[(n - (Len(s) + 1)) + 1]
      BY <3>2
    <3>4. (n - (Len(s) + 1)) + 1 = n - Len(s)
      BY <1>2
    <3> QED BY <3>1, <3>3, <3>4
  <2> QED BY <2>1, <2>2, <2>3, <1>2, <1>3
<1> HIDE DEF l, r
<1>5. l = r
  BY <1>3, <1>4, SeqEqual
<1> QED BY <1>5 DEF l, r

\* An Append to the second of two sequences is one to both.
LEMMA ConcatAppend ==
    ASSUME NEW S, NEW s \in Seq(S), NEW t \in Seq(S), NEW e \in S
    PROVE  s \o Append(t, e) = Append(s \o t, e)
<1>1. <<e>> \in Seq(S) /\ s \o t \in Seq(S)
  BY ConcatProperties
<1>2. s \o (t \o <<e>>) = (s \o t) \o <<e>>
  BY <1>1, ConcatAssociative
<1>3. Append(t, e) = t \o <<e>> /\ Append(s \o t, e) = (s \o t) \o <<e>>
  BY <1>1, AppendIsConcat
<1> QED BY <1>2, <1>3

-----------------------------------------------------------------------------
\* A step that moves no broadcast.
QuietStep ==
    /\ UNCHANGED <<at, got, events, casts, owed>>
    /\ subs <= subs'
    /\ \A j \in Subs : j <= subs => interest'[j] = interest[j]
    /\ \A j \in Subs : client[j] = "gone" => client'[j] = "gone"
    /\ \A j \in Subs, x \in Casts : x \in ToSet(stream'[j]) <=> x \in ToSet(stream[j])
    /\ \A j \in Subs, x, y \in Casts : SentBefore(j, x, y)' => SentBefore(j, x, y)

\* A step in which broadcast b walks on from f, 0 at its start, to `next`, 0 at
\* its end: it stops at the first subscription ahead that wants it and is there.
WalkStep(b, f, next) ==
    /\ at[b] = f /\ at' = [at EXCEPT ![b] = next]
    /\ UNCHANGED <<subs, interest, client>>
    /\ next # 0 => next \in Subs /\ next <= subs /\ f < next /\ Wants(next, events'[b])
    /\ \A j \in Subs : j <= subs /\ f < j /\ Wants(j, events'[b]) /\ client[j] # "gone" =>
           next # 0 /\ next <= j
    /\ casts <= casts' /\ b <= casts'
    /\ \A x \in Casts : /\ x <= casts => events'[x] = events[x]
                        /\ x <= casts' => x <= casts \/ x = b
                        /\ x # b => owed'[x] = owed[x]
    /\ f # 0 => /\ owed'[b] = owed[b] /\ casts' = casts
                /\ client[f] = "gone" \/ b \in ToSet(got'[f])
                /\ \A c \in Casts : c \in ToSet(stream[f]) /\ c # b => SentBefore(f, b, c)
    /\ f = 0 => /\ casts < b
                /\ \A i \in owed'[b] : i \in Subs /\ i <= subs /\ Wants(i, events'[b])
    /\ \A j \in Subs, x \in Casts :
        /\ x \in ToSet(stream'[j]) <=> IF x = b THEN j = next ELSE x \in ToSet(stream[j])
        /\ x \in ToSet(got[j]) => x \in ToSet(got'[j])
        /\ x \in ToSet(got'[j]) => x \in ToSet(got[j]) \/ (x = b /\ j = f)
    /\ \A j \in Subs, x, y \in Casts : SentBefore(j, x, y)' =>
        \/ SentBefore(j, x, y)
        \/ y = b /\ j = next /\ (x \in ToSet(got[j]) \/ x \in ToSet(stream[j]))

\* The numbers of broadcasts and subscriptions.
LEMMA Numbers ==
    ASSUME HubTypes
    PROVE  /\ Casts \subseteq Nat \ {0} /\ Subs \subseteq Nat \ {0}
           /\ casts \in Nat /\ subs \in Nat /\ \A b \in Casts : at[b] \in Nat
           /\ \A b \in Casts : at[b] # 0 => at[b] \in Subs
           /\ \A b \in Casts : owed[b] \subseteq Subs
BY TailHubAssumption DEF HubTypes, Casts, Subs, TailHubAssumption

\* What was sent was published.
LEMMA SentPublished ==
    ASSUME HubInv, NEW i \in Subs, NEW x \in Casts,
           x \in ToSet(got[i]) \/ x \in ToSet(stream[i])
    PROVE  x <= casts
<1>1. HubTypes /\ Awaiting
  BY DEF HubInv
<1>2. CASE x \in ToSet(stream[i])
  <2>1. at[x] = i /\ i # 0
    BY <1>1, <1>2, Numbers DEF Awaiting
  <2> QED BY <2>1, <1>1 DEF Awaiting
<1>3. CASE x \in ToSet(got[i])
  BY <1>1, <1>3 DEF Awaiting
<1> QED BY <1>2, <1>3

\* What comes before or after something in Sent(i) was sent to i.
LEMMA SentBeforeIn ==
    ASSUME HubTypes, NEW i \in Subs, NEW x, NEW y, SentBefore(i, x, y)
    PROVE  /\ x \in ToSet(got[i]) \/ x \in ToSet(stream[i])
           /\ y \in ToSet(got[i]) \/ y \in ToSet(stream[i])
<1>1. got[i] \in Seq(Chunks) /\ stream[i] \in Seq(Chunks)
  BY DEF HubTypes, Chunks
<1>2. ToSet(got[i] \o stream[i]) = ToSet(got[i]) \cup ToSet(stream[i])
  BY <1>1, InConcat
<1>3. x \in ToSet(Sent(i)) /\ y \in ToSet(Sent(i))
  BY DEF SentBefore, ToSet
<1> QED BY <1>2, <1>3 DEF Sent

\* A step that moves no broadcast keeps what is said of them.
LEMMA QuietKeeps ==
    ASSUME HubInv, HubTypes', QuietStep
    PROVE  Awaiting' /\ Ahead' /\ InOrder' /\ Overtaken'
<1>1. HubTypes /\ Awaiting /\ Ahead /\ InOrder /\ Overtaken
  BY DEF HubInv
<1>2. UNCHANGED <<at, got, events, casts, owed>> /\ subs <= subs'
  BY DEF QuietStep
<1>9. subs' \in Nat
  BY DEF HubTypes
<1>3. /\ \A j \in Subs : j <= subs => interest'[j] = interest[j]
      /\ \A j \in Subs : client[j] = "gone" => client'[j] = "gone"
      /\ \A j \in Subs, x \in Casts : x \in ToSet(stream'[j]) <=> x \in ToSet(stream[j])
      /\ \A j \in Subs, x, y \in Casts : SentBefore(j, x, y)' => SentBefore(j, x, y)
  BY DEF QuietStep
<1>4. \A i \in Subs : GoneBefore(i) => GoneBefore(i)'
  <2> SUFFICES ASSUME NEW i \in Subs, NEW j \in 1..(i - 1), client[j] = "gone"
               PROVE  client'[j] = "gone"
    BY DEF GoneBefore
  <2>1. j \in Subs
    BY TailHubAssumption DEF Subs, TailHubAssumption
  <2> QED BY <2>1, <1>3
<1>5. Awaiting'
  <2> SUFFICES ASSUME NEW b \in Casts
               PROVE  /\ at'[b] # 0 => b <= casts' /\ at'[b] <= subs' /\ events'[b] \in interest'[at'[b]]
                      /\ at'[b] # 0 => b \in ToSet(stream'[at'[b]])
                      /\ \A i \in Subs :
                          /\ b \in ToSet(stream'[i]) => at'[b] = i
                          /\ b \in ToSet(got'[i]) => b <= casts' /\ (at'[b] = 0 \/ i < at'[b])
    BY DEF Awaiting, Wants
  <2>1. /\ at[b] # 0 => b <= casts /\ at[b] <= subs /\ events[b] \in interest[at[b]]
        /\ at[b] # 0 => b \in ToSet(stream[at[b]])
        /\ \A i \in Subs :
            /\ b \in ToSet(stream[i]) => at[b] = i
            /\ b \in ToSet(got[i]) => b <= casts /\ (at[b] = 0 \/ i < at[b])
    BY <1>1 DEF Awaiting, Wants
  <2>2. at[b] # 0 => at[b] \in Subs
    BY <1>1, Numbers
  <2>3. at[b] # 0 /\ at[b] <= subs => at[b] <= subs'
    BY <1>1, <1>2, <1>9, Numbers
  <2> QED BY <1>2, <1>3, <2>1, <2>2, <2>3
<1>6. Ahead'
  <2> SUFFICES ASSUME NEW b \in Casts, b <= casts, NEW i \in owed[b]
               PROVE  /\ i <= subs'
                      /\ \/ client'[i] = "gone" \/ b \in ToSet(got[i])
                         \/ at[b] # 0 /\ at[b] <= i /\ events[b] \in interest'[i]
    BY <1>2 DEF Ahead, Wants
  <2>1. /\ i <= subs
        /\ \/ client[i] = "gone" \/ b \in ToSet(got[i])
           \/ at[b] # 0 /\ at[b] <= i /\ events[b] \in interest[i]
    BY <1>1 DEF Ahead, Wants
  <2>2. i \in Subs
    BY <1>1, Numbers
  <2>3. i <= subs'
    BY <2>1, <2>2, <1>1, <1>2, <1>9, Numbers
  <2> QED BY <2>1, <2>2, <2>3, <1>3
<1>7. InOrder'
  <2> SUFFICES ASSUME NEW i \in Subs, NEW b \in Casts, NEW c \in Casts, SentBefore(i, b, c)'
               PROVE  b # c /\ (events[b] = events[c] => b < c \/ GoneBefore(i)')
    BY <1>2, Zenon DEF InOrder, GoneBefore
  <2>1. b # c /\ (events[b] = events[c] => b < c \/ GoneBefore(i))
    BY <1>1, <1>3 DEF InOrder, GoneBefore
  <2> QED BY <2>1, <1>4
<1>8. Overtaken'
  <2> SUFFICES ASSUME NEW b \in Casts, NEW c \in Casts, NEW i \in Subs,
                      b < c, c <= casts, events[b] = events[c], at[b] # 0, at[b] < i,
                      c \in ToSet(got[i]) \/ c \in ToSet(stream'[i])
               PROVE  GoneBefore(i)'
    BY <1>2, Zenon DEF Overtaken
  <2>1. GoneBefore(i)
    BY <1>1, <1>3 DEF Overtaken
  <2> QED BY <2>1, <1>4
<1> QED BY <1>5, <1>6, <1>7, <1>8

\* So does a walk: the broadcast is at one subscription, those it passed have
\* read it or are gone, and it stays behind the earlier ones of its topic.
LEMMA WalkKeepsAwaiting ==
    ASSUME HubInv, HubTypes', NEW b \in Casts, NEW f, NEW next, WalkStep(b, f, next)
    PROVE  Awaiting'
<1>1. HubTypes /\ Awaiting
  BY DEF HubInv
<1>2. /\ at[b] = f /\ at' = [at EXCEPT ![b] = next]
      /\ UNCHANGED <<subs, interest, client>>
      /\ next # 0 => next \in Subs /\ next <= subs /\ f < next /\ events'[b] \in interest[next]
      /\ casts <= casts' /\ b <= casts'
      /\ \A x \in Casts : x <= casts => events'[x] = events[x]
      /\ f = 0 => casts < b
  BY DEF WalkStep, Wants
<1>3. \A j \in Subs, x \in Casts :
        /\ x \in ToSet(stream'[j]) <=> IF x = b THEN j = next ELSE x \in ToSet(stream[j])
        /\ x \in ToSet(got'[j]) => x \in ToSet(got[j]) \/ (x = b /\ j = f)
  BY DEF WalkStep
<1>4. at'[b] = next /\ \A x \in Casts \ {b} : at'[x] = at[x]
  BY <1>1, <1>2 DEF HubTypes
<1> SUFFICES ASSUME NEW x \in Casts
             PROVE  /\ at'[x] # 0 => x <= casts' /\ at'[x] <= subs /\ events'[x] \in interest[at'[x]]
                    /\ at'[x] # 0 => x \in ToSet(stream'[at'[x]])
                    /\ \A i \in Subs :
                        /\ x \in ToSet(stream'[i]) => at'[x] = i
                        /\ x \in ToSet(got'[i]) => x <= casts' /\ (at'[x] = 0 \/ i < at'[x])
  BY <1>2 DEF Awaiting, Wants
<1>5. /\ at[x] # 0 => x <= casts /\ at[x] <= subs /\ events[x] \in interest[at[x]]
      /\ at[x] # 0 => x \in ToSet(stream[at[x]])
      /\ \A i \in Subs :
          /\ x \in ToSet(stream[i]) => at[x] = i
          /\ x \in ToSet(got[i]) => x <= casts /\ (at[x] = 0 \/ i < at[x])
  BY <1>1 DEF Awaiting, Wants
<1>6. /\ Casts \subseteq Nat /\ Subs \subseteq Nat \ {0} /\ casts \in Nat /\ at[x] \in Nat /\ f \in Nat
      /\ at[x] # 0 => at[x] \in Subs
  BY <1>1, <1>2, Numbers
<1>7. x <= casts => x <= casts'
  <2>1. casts' \in Nat
    BY DEF HubTypes
  <2> QED BY <2>1, <1>2, <1>6
<1>8. CASE x # b
  <2>1. at'[x] = at[x]
    BY <1>4, <1>8
  <2>2. /\ \A i \in Subs : x \in ToSet(stream'[i]) <=> x \in ToSet(stream[i])
        /\ \A i \in Subs : x \in ToSet(got'[i]) => x \in ToSet(got[i])
    BY <1>3, <1>8
  <2> QED BY <2>1, <2>2, <1>2, <1>5, <1>6, <1>7
<1>9. CASE x = b
  <2>1. at'[x] # 0 => x \in ToSet(stream'[at'[x]])
    BY <1>2, <1>3, <1>4, <1>9
  <2>2. ASSUME NEW i \in Subs, x \in ToSet(got'[i])
        PROVE  at'[x] = 0 \/ i < at'[x]
    <3>1. CASE x \in ToSet(got[i])
      <4>1. b <= casts /\ (f = 0 \/ i < f) /\ b \in Nat /\ i \in Nat
        BY <3>1, <1>2, <1>5, <1>6, <1>9
      <4>2. i < f
        BY <4>1, <1>2, <1>6
      <4>3. next # 0 => f < next /\ next \in Nat
        BY <1>2, <1>6
      <4>4. next # 0 => i < next
        BY <4>1, <4>2, <4>3, <1>6
      <4> QED BY <4>4, <1>4, <1>9
    <3>2. CASE i = f
      BY <3>2, <1>2, <1>4, <1>9
    <3> QED BY <3>1, <3>2, <2>2, <1>3, <1>9
  <2>3. \A i \in Subs : x \in ToSet(stream'[i]) => at'[x] = i
    BY <1>3, <1>4, <1>9
  <2> QED BY <2>1, <2>2, <2>3, <1>2, <1>4, <1>9
<1> QED BY <1>8, <1>9

\* A walk leaves behind only subscriptions that have read the broadcast or
\* have gone.
LEMMA WalkKeepsAhead ==
    ASSUME HubInv, HubTypes', NEW b \in Casts, NEW f, NEW next, WalkStep(b, f, next)
    PROVE  Ahead'
<1>1. HubTypes /\ Awaiting /\ Ahead
  BY DEF HubInv
<1>2. /\ at[b] = f /\ at' = [at EXCEPT ![b] = next] /\ UNCHANGED <<subs, interest, client>>
      /\ \A j \in Subs : j <= subs /\ f < j /\ events'[b] \in interest[j] /\ client[j] # "gone" =>
             next # 0 /\ next <= j
  BY DEF WalkStep, Wants
<1>3. \A x \in Casts : /\ x <= casts => events'[x] = events[x]
                       /\ x <= casts' => x <= casts \/ x = b
                       /\ x # b => owed'[x] = owed[x]
  BY DEF WalkStep
<1>4. /\ f # 0 => owed'[b] = owed[b] /\ casts' = casts /\ (client[f] = "gone" \/ b \in ToSet(got'[f]))
      /\ f = 0 => \A i \in owed'[b] : i \in Subs /\ i <= subs /\ events'[b] \in interest[i]
  BY DEF WalkStep, Wants
<1>5. \A j \in Subs, x \in Casts : x \in ToSet(got[j]) => x \in ToSet(got'[j])
  BY DEF WalkStep
<1>6. at'[b] = next /\ \A x \in Casts \ {b} : at'[x] = at[x]
  BY <1>1, <1>2 DEF HubTypes
<1>7. /\ Subs \subseteq Nat \ {0} /\ f \in Nat
  BY <1>1, <1>2, Numbers
<1> SUFFICES ASSUME NEW x \in Casts, x <= casts', NEW i \in owed'[x]
             PROVE  /\ i <= subs
                    /\ \/ client[i] = "gone" \/ x \in ToSet(got'[i])
                       \/ at'[x] # 0 /\ at'[x] <= i /\ events'[x] \in interest[i]
  BY <1>2 DEF Ahead, Wants
<1>8. i \in Subs
  BY DEF HubTypes
<1>9. CASE f = 0 /\ x = b
  <2>1. i <= subs /\ events'[b] \in interest[i] /\ f < i
    <3>1. i \in owed'[b] /\ f = 0
      BY <1>9
    <3>2. i <= subs /\ events'[b] \in interest[i]
      BY <3>1, <1>4
    <3>3. f < i
      BY <3>1, <1>7, <1>8
    <3> QED BY <3>2, <3>3
  <2> QED BY <2>1, <1>2, <1>6, <1>8, <1>9
<1>10. CASE x # b \/ f # 0
  <2>1. x <= casts /\ i \in owed[x]
    BY <1>3, <1>4, <1>10
  <2>2. /\ i <= subs
        /\ \/ client[i] = "gone" \/ x \in ToSet(got[i])
           \/ at[x] # 0 /\ at[x] <= i /\ events[x] \in interest[i]
    BY <2>1, <1>1 DEF Ahead, Wants
  <2>3. CASE client[i] = "gone" \/ x \in ToSet(got[i])
    BY <2>2, <2>3, <1>5, <1>8
  <2>4. CASE at[x] # 0 /\ at[x] <= i /\ events[x] \in interest[i]
    <3>1. CASE x # b
      BY <3>1, <2>1, <2>2, <2>4, <1>3, <1>6
    <3>2. CASE x = b /\ i = f
      BY <3>2, <2>2, <1>4, <1>7, <1>8
    <3>3. CASE x = b /\ i # f
      <4>1. f < i /\ events'[b] = events[b]
        BY <3>3, <2>1, <2>4, <1>2, <1>3, <1>7, <1>8
      <4> QED BY <4>1, <3>3, <2>2, <2>4, <1>2, <1>6, <1>8
    <3> QED BY <3>1, <3>2, <3>3
  <2> QED BY <2>2, <2>3, <2>4
<1> QED BY <1>9, <1>10

\* A walk that reaches a subscription finds only earlier broadcasts of the
\* topic there, or one that passed a subscription that has gone.
LEMMA WalkKeepsInOrder ==
    ASSUME HubInv, HubTypes', NEW b \in Casts, NEW f, NEW next, WalkStep(b, f, next)
    PROVE  InOrder'
<1>1. HubTypes /\ Awaiting /\ InOrder /\ Overtaken
  BY DEF HubInv
<1>2. /\ at[b] = f /\ UNCHANGED <<subs, interest, client>>
      /\ next # 0 => f < next
      /\ \A x \in Casts : x <= casts => events'[x] = events[x]
      /\ f = 0 => casts < b
      /\ f # 0 => casts' = casts
      /\ b <= casts'
  BY DEF WalkStep
<1>3. \A j \in Subs, x, y \in Casts : SentBefore(j, x, y)' =>
        \/ SentBefore(j, x, y)
        \/ y = b /\ j = next /\ (x \in ToSet(got[j]) \/ x \in ToSet(stream[j]))
  BY DEF WalkStep
<1>4. /\ Casts \subseteq Nat \ {0} /\ Subs \subseteq Nat \ {0} /\ f \in Nat /\ casts \in Nat
  BY <1>1, <1>2, Numbers
<1> SUFFICES ASSUME NEW i \in Subs, NEW x \in Casts, NEW y \in Casts, SentBefore(i, x, y)'
             PROVE  x # y /\ (events'[x] = events'[y] => x < y \/ GoneBefore(i))
  BY <1>2, Zenon DEF InOrder, GoneBefore
<1>5. CASE SentBefore(i, x, y)
  <2>1. x # y /\ (events[x] = events[y] => x < y \/ GoneBefore(i))
    BY <1>1, <1>5 DEF InOrder, GoneBefore
  <2>2. x <= casts /\ y <= casts
    BY <1>1, <1>5, SentBeforeIn, SentPublished
  <2> QED BY <2>1, <2>2, <1>2
<1>6. CASE y = b /\ i = next /\ (x \in ToSet(got[i]) \/ x \in ToSet(stream[i]))
  <2>1. x <= casts
    BY <1>6, SentPublished
  <2>2. f < next /\ next \in Nat
    BY <1>2, <1>4, <1>6
  <2>3. x # b
    <3> SUFFICES ASSUME x = b PROVE FALSE
      OBVIOUS
    <3>1. CASE x \in ToSet(stream[i])
      <4>1. at[b] = next
        BY <3>1, <1>1, <1>6 DEF Awaiting
      <4> QED BY <4>1, <2>2, <1>2, <1>4
    <3>2. CASE x \in ToSet(got[i])
      <4>1. f = 0 \/ next < f
        BY <3>2, <1>1, <1>2, <1>6 DEF Awaiting
      <4>2. f # 0
        BY <2>1, <1>2, <1>4
      <4> QED BY <4>1, <4>2, <2>2, <1>4
    <3> QED BY <3>1, <3>2, <1>6
  <2>4. ASSUME events'[x] = events'[b], ~(x < b) PROVE GoneBefore(i)
    <3>1. b < x
      BY <2>3, <2>4, <1>4
    <3>2. b <= casts /\ f # 0
      BY <3>1, <2>1, <1>2, <1>4
    <3>3. events[b] = events[x]
      BY <2>1, <2>4, <3>2, <1>2
    <3> QED BY <3>1, <3>2, <3>3, <2>1, <2>2, <1>1, <1>2, <1>6 DEF Overtaken
  <2> QED BY <2>3, <2>4, <1>6
<1> QED BY <1>3, <1>5, <1>6

\* Whoever passes an earlier broadcast of its topic passes someone who has gone.
LEMMA WalkKeepsOvertaken ==
    ASSUME HubInv, HubTypes', NEW b \in Casts, NEW f, NEW next, WalkStep(b, f, next)
    PROVE  Overtaken'
<1>1. HubTypes /\ Awaiting /\ InOrder /\ Overtaken
  BY DEF HubInv
<1>2. /\ at[b] = f /\ at' = [at EXCEPT ![b] = next] /\ UNCHANGED <<subs, interest, client>>
      /\ next # 0 => next \in Subs /\ next <= subs /\ f < next
      /\ \A j \in Subs : j <= subs /\ f < j /\ events'[b] \in interest[j] /\ client[j] # "gone" =>
             next # 0 /\ next <= j
      /\ \A x \in Casts : x <= casts => events'[x] = events[x]
      /\ \A x \in Casts : x <= casts' => x <= casts \/ x = b
  BY DEF WalkStep, Wants
<1>3. /\ f = 0 => casts < b
      /\ f # 0 => casts' = casts /\ b <= casts'
                  /\ \A c \in Casts : c \in ToSet(stream[f]) /\ c # b => SentBefore(f, b, c)
  BY DEF WalkStep
<1>4. \A j \in Subs, x \in Casts :
        /\ x \in ToSet(stream'[j]) <=> IF x = b THEN j = next ELSE x \in ToSet(stream[j])
        /\ x \in ToSet(got'[j]) => x \in ToSet(got[j]) \/ (x = b /\ j = f)
  BY DEF WalkStep
<1>5. at'[b] = next /\ \A x \in Casts \ {b} : at'[x] = at[x]
  BY <1>1, <1>2 DEF HubTypes
<1>6. /\ Casts \subseteq Nat \ {0} /\ Subs \subseteq Nat \ {0} /\ f \in Nat /\ casts \in Nat
      /\ \A x \in Casts : at[x] \in Nat /\ (at[x] # 0 => at[x] \in Subs)
  BY <1>1, <1>2, Numbers
<1>7. \A i, j \in Subs : i < j /\ GoneBefore(i) => GoneBefore(j)
  <2> SUFFICES ASSUME NEW i \in Subs, NEW j \in Subs, i < j, NEW k \in 1..(i - 1), client[k] = "gone"
               PROVE  k \in 1..(j - 1)
    BY DEF GoneBefore
  <2> QED BY <1>6
<1> SUFFICES ASSUME NEW a \in Casts, NEW c \in Casts, NEW i \in Subs,
                    a < c, c <= casts', events'[a] = events'[c], at'[a] # 0, at'[a] < i,
                    c \in ToSet(got'[i]) \/ c \in ToSet(stream'[i])
             PROVE  GoneBefore(i)
  BY <1>2, Zenon DEF Overtaken, GoneBefore
<1>8. a \in Nat /\ c \in Nat /\ i \in Nat /\ b \in Nat
  BY <1>6
<1>9. CASE c \in ToSet(got[i]) \/ c \in ToSet(stream[i])
  <2>1. c <= casts
    BY <1>9, SentPublished
  <2>2. a <= casts /\ events[a] = events[c]
    BY <2>1, <1>2, <1>6, <1>8
  <2>3. at[a] # 0 /\ at[a] < i
    <3>1. CASE a # b
      BY <3>1, <1>5
    <3>2. CASE a = b
      <4>1. f # 0
        BY <3>2, <2>2, <1>3, <1>6, <1>8
      <4>2. f < next /\ next \in Nat
        BY <3>2, <1>2, <1>5, <1>6
      <4> QED BY <4>1, <4>2, <3>2, <1>2, <1>5, <1>6, <1>8
    <3> QED BY <3>1, <3>2
  <2> QED BY <2>1, <2>2, <2>3, <1>1, <1>9 DEF Overtaken
<1>10. CASE ~(c \in ToSet(got[i]) \/ c \in ToSet(stream[i]))
  <2>1. c = b /\ (i = next \/ i = f)
    BY <1>4, <1>10
  <2>2. a # b
    BY <2>1, <1>8
  <2> DEFINE p == at[a]
  <2>3. p # 0 /\ p < i /\ p \in Subs /\ p \in Nat /\ at'[a] = p
    BY <2>2, <1>5, <1>6
  <2>4. a <= casts /\ p <= subs /\ events[a] \in interest[p] /\ a \in ToSet(stream[p])
    BY <2>3, <1>1 DEF Awaiting, Wants
  <2>5. events'[b] = events[a]
    BY <2>1, <2>4, <1>2
  <2>6. f # 0 => /\ f \in Subs /\ b \in ToSet(stream[f]) /\ b <= casts /\ events[b] = events[a]
    BY <2>5, <1>1, <1>2, <1>6 DEF Awaiting
  <2>7. i # f
    BY <2>1, <2>6, <1>6, <1>10
  <2>8. i = next /\ next # 0 /\ f < next
    BY <2>1, <2>7, <1>2, <1>6
  <2> HIDE DEF p
  <2>9. CASE p < f
    <3>1. GoneBefore(f)
      <4>1. f # 0
        BY <2>3, <2>9, <1>6
      <4> QED BY <4>1, <2>1, <2>3, <2>6, <2>9, <1>1 DEF Overtaken, p
    <3>2. f # 0
      BY <2>3, <2>9, <1>6
    <3> QED BY <3>1, <3>2, <2>6, <2>8, <1>7
  <2>10. CASE p = f
    <3>1. SentBefore(f, b, a) /\ f \in Subs
      BY <2>2, <2>3, <2>4, <2>10, <1>3
    <3>2. b < a \/ GoneBefore(f)
      BY <3>1, <2>3, <2>6, <2>10, <1>1 DEF InOrder, GoneBefore
    <3>3. GoneBefore(f)
      BY <3>2, <2>1, <1>8
    <3> QED BY <3>1, <3>3, <2>8, <1>7
  <2>11. CASE f < p
    <3>1. client[p] = "gone"
      <4> SUFFICES ASSUME client[p] # "gone" PROVE FALSE
        OBVIOUS
      <4>1. next <= p
        BY <2>3, <2>4, <2>5, <2>11, <1>2
      <4> QED BY <4>1, <2>3, <2>8, <1>8
    <3>2. p \in 1..(i - 1)
      BY <2>3, <1>8
    <3> QED BY <3>1, <3>2 DEF GoneBefore
  <2> QED BY <2>3, <2>9, <2>10, <2>11, <1>6
<1> QED BY <1>9, <1>10

-----------------------------------------------------------------------------
\* The order at a subscription, in terms of its sequences.
LEMMA SentOrder ==
    ASSUME NEW j \in Subs, NEW x, NEW y
    PROVE  /\ SentBefore(j, x, y) <=> Precedes(got[j] \o stream[j], x, y)
           /\ SentBefore(j, x, y)' <=> Precedes(got'[j] \o stream'[j], x, y)
BY DEF SentBefore, Precedes, Sent

\* `next` is 0, or a subscription beyond f that wants the topic, and none that
\* wants it and is there is passed over.
FirstAhead(next, f, topic) ==
    /\ next \in 0..MaxSubs
    /\ next # 0 => next \in Subs /\ next <= subs /\ f < next /\ Wants(next, topic)
    /\ \A j \in Subs : j <= subs /\ f < j /\ Wants(j, topic) /\ client[j] # "gone" =>
           next # 0 /\ next <= j

\* Where a walk stops: at the first one ahead that wants the topic, passing
\* only those that do not, or have gone.
LEMMA StopFacts ==
    ASSUME HubTypes, Left, NEW f \in Nat, NEW topic, NEW map \in {members, members \ {f}}
    PROVE  FirstAhead(Stop(f, topic, map), f, topic)
<1> DEFINE next == Stop(f, topic, map)
<1> DEFINE ahead == {i \in map : i > f /\ Wants(i, topic)}
<1>1. /\ subs \in Nat /\ MaxSubs \in Nat /\ subs <= MaxSubs /\ members \subseteq 1..subs
      /\ map \subseteq members /\ \A j \in members : j > f => j \in map
  BY TailHubAssumption DEF HubTypes, TailHubAssumption
<1>2. ahead \in SUBSET Nat /\ ahead \subseteq members
  <2>1. members \subseteq Nat
    BY <1>1
  <2>2. ahead \subseteq map
    OBVIOUS
  <2> HIDE DEF ahead
  <2> QED BY <1>1, <2>1, <2>2
<1>3. next = IF ahead = {} THEN 0 ELSE Min(ahead)
  BY DEF Stop
<1>4. \A i \in ahead : i \in Subs /\ i <= subs /\ i # 0 /\ i \in 0..MaxSubs /\ f < i /\ Wants(i, topic)
  BY <1>1, <1>2 DEF Subs
<1>5. \A j \in Subs : j <= subs /\ f < j /\ Wants(j, topic) /\ client[j] # "gone" => j \in ahead
  BY <1>1 DEF Left, Subs
<1> SUFFICES FirstAhead(next, f, topic)
  OBVIOUS
<1> HIDE DEF ahead, next
<1>6. CASE ahead = {}
  BY <1>1, <1>3, <1>5, <1>6 DEF FirstAhead
<1>7. CASE ahead # {}
  <2>1. next \in ahead /\ \A x \in ahead : next <= x
    <3>1. Min(ahead) \in ahead /\ \A x \in ahead : Min(ahead) <= x
      BY <1>2, <1>7, MinFacts, Zenon
    <3> QED BY <3>1, <1>3, <1>7
  <2> QED BY <2>1, <1>4, <1>5 DEF FirstAhead
<1> QED BY <1>6, <1>7

\* What a walk does to the sequences of the subscriptions.
Walked(b, f, next) ==
    \A j \in Subs :
        \/ j # f /\ j # next /\ stream'[j] = stream[j] /\ got'[j] = got[j]
        \/ /\ j = f /\ j # next /\ stream[j] # <<>> /\ Head(stream[j]) = b
           /\ stream'[j] = Tail(stream[j]) /\ got'[j] \in {got[j], Append(got[j], b)}
        \/ j = next /\ j # f /\ stream'[j] = Append(stream[j], b) /\ got'[j] = got[j]

\* What that means for what each was sent, and in which order.
Sends(b, f, next) ==
    /\ \A j \in Subs, x \in Casts :
        /\ x \in ToSet(stream'[j]) <=> IF x = b THEN j = next ELSE x \in ToSet(stream[j])
        /\ x \in ToSet(got[j]) => x \in ToSet(got'[j])
        /\ x \in ToSet(got'[j]) => x \in ToSet(got[j]) \/ (x = b /\ j = f)
    /\ \A j \in Subs, x, y \in Casts : SentBefore(j, x, y)' =>
        \/ SentBefore(j, x, y)
        \/ y = b /\ j = next /\ (x \in ToSet(got[j]) \/ x \in ToSet(stream[j]))

\* A walk sends its broadcast to where it stops, and nothing else to anybody.
LEMMA WalkEffects ==
    ASSUME HubInv, NEW b \in Casts, NEW f, NEW next, at[b] = f, Walked(b, f, next)
    PROVE  Sends(b, f, next)
<1> SUFFICES ASSUME NEW j \in Subs
             PROVE  /\ \A x \in Casts :
                        /\ x \in ToSet(stream'[j]) <=> IF x = b THEN j = next ELSE x \in ToSet(stream[j])
                        /\ x \in ToSet(got[j]) => x \in ToSet(got'[j])
                        /\ x \in ToSet(got'[j]) => x \in ToSet(got[j]) \/ (x = b /\ j = f)
                    /\ \A x, y \in Casts : SentBefore(j, x, y)' =>
                        \/ SentBefore(j, x, y)
                        \/ y = b /\ j = next /\ (x \in ToSet(got[j]) \/ x \in ToSet(stream[j]))
  BY Zenon DEF Sends
<1> DEFINE g == got[j]
<1> DEFINE t == stream[j]
<1>1. /\ HubTypes /\ Awaiting /\ InOrder
  BY DEF HubInv
<1>2. /\ g \in Seq(Chunks) /\ g \in Seq(Casts) /\ t \in Seq(Chunks) /\ b \in Chunks
  BY <1>1 DEF HubTypes, Chunks
<1>3. b \in ToSet(t) => j = f
  BY <1>1 DEF Awaiting
<1>4. ToSet(g \o t) = ToSet(g) \cup ToSet(t)
  BY <1>2, InConcat
<1>5. CASE j # f /\ j # next /\ stream'[j] = stream[j] /\ got'[j] = got[j]
  <2>1. \A x, y \in Casts : SentBefore(j, x, y)' => SentBefore(j, x, y)
    BY <1>5, SentOrder
  <2> QED BY <2>1, <1>2, <1>3, <1>5
<1>6. CASE /\ j = f /\ j # next /\ stream[j] # <<>> /\ Head(stream[j]) = b
           /\ stream'[j] = Tail(stream[j]) /\ got'[j] \in {got[j], Append(got[j], b)}
  <2>1. ToSet(t) = {b} \cup ToSet(Tail(t)) /\ Tail(t) \in Seq(Chunks)
    BY <1>2, <1>6, InTail
  <2>2. b \notin ToSet(Tail(t))
    <3> SUFFICES ASSUME b \in ToSet(Tail(t)) PROVE FALSE
      OBVIOUS
    <3>1. Precedes(g \o t, b, b)
      BY <1>2, <1>6, HeadFirst
    <3>2. SentBefore(j, b, b)
      BY <3>1, SentOrder
    <3> QED BY <3>2, <1>1 DEF InOrder
  <2>3. CASE got'[j] = got[j]
    <3>1. ASSUME NEW x, NEW y, SentBefore(j, x, y)' PROVE SentBefore(j, x, y)
      <4>1. Precedes(g \o Tail(t), x, y)
        BY <3>1, <2>3, <1>6, SentOrder
      <4>2. Precedes(g \o t, x, y)
        BY <4>1, <1>2, <1>6, PrecedesTail
      <4> QED BY <4>2, SentOrder
    <3> QED BY <3>1, <2>1, <2>2, <2>3, <1>2, <1>6
  <2>4. CASE got'[j] = Append(got[j], b)
    <3>1. Append(g, b) \o Tail(t) = g \o t
      <4>1. t # <<>> /\ Head(t) = b
        BY <1>6
      <4> HIDE DEF g, t
      <4>2. Append(g, Head(t)) \o Tail(t) = g \o t
        BY <4>1, <1>2, HeadMoves
      <4> QED BY <4>1, <4>2
    <3>2. \A x, y : SentBefore(j, x, y)' <=> SentBefore(j, x, y)
      BY <3>1, <2>4, <1>6, SentOrder
    <3>3. ToSet(got'[j]) = ToSet(g) \cup {b}
      BY <2>4, <1>2, InAppend
    <3>4. got'[j] \in Seq(Casts)
      BY <2>4, <1>2
    <3> HIDE DEF g, t
    <3> QED BY <3>2, <3>3, <3>4, <2>1, <2>2, <1>2, <1>6 DEF g, t
  <2> QED BY <2>3, <2>4, <1>6
<1>7. CASE j = next /\ j # f /\ stream'[j] = Append(stream[j], b) /\ got'[j] = got[j]
  <2>1. ToSet(stream'[j]) = ToSet(t) \cup {b} /\ stream'[j] \in Seq(Chunks)
    BY <1>2, <1>7, InAppend
  <2>2. g \o Append(t, b) = Append(g \o t, b)
    <3> HIDE DEF g, t
    <3> QED BY <1>2, ConcatAppend
  <2>3. g \o t \in Seq(Chunks)
    BY <1>2, ConcatProperties
  <2>4. ASSUME NEW x \in Casts, NEW y \in Casts, SentBefore(j, x, y)'
        PROVE  SentBefore(j, x, y) \/ (y = b /\ x \in ToSet(g \o t))
    <3>1. Precedes(Append(g \o t, b), x, y)
      BY <2>2, <2>4, <1>7, SentOrder
    <3>2. Precedes(g \o t, x, y) \/ (x \in ToSet(g \o t) /\ y = b)
      <4> DEFINE r == g \o t
      <4>1. r \in Seq(Chunks) /\ b \in Chunks /\ Precedes(Append(r, b), x, y)
        BY <3>1, <2>3, <1>2
      <4> HIDE DEF r
      <4>2. Precedes(r, x, y) \/ (x \in ToSet(r) /\ y = b)
        BY <4>1, PrecedesAppend
      <4> QED BY <4>2 DEF r
    <3> QED BY <3>2, SentOrder
  <2> QED BY <2>1, <2>4, <1>2, <1>3, <1>4, <1>7
<1> QED BY <1>5, <1>6, <1>7 DEF Walked

\* Comments and heartbeats come and go without touching the broadcasts.
LEMMA QuietEffects ==
    ASSUME HubTypes, NEW j \in Subs, got'[j] = got[j],
           \/ stream'[j] = stream[j]
           \/ stream'[j] \in {Append(stream[j], Connected), Append(stream[j], Beat)}
           \/ stream[j] # <<>> /\ Head(stream[j]) \notin Casts /\ stream'[j] = Tail(stream[j])
    PROVE  /\ \A x \in Casts : x \in ToSet(stream'[j]) <=> x \in ToSet(stream[j])
           /\ \A x, y \in Casts : SentBefore(j, x, y)' => SentBefore(j, x, y)
           /\ stream'[j] \in Seq(Chunks)
<1> DEFINE g == got[j]
<1> DEFINE t == stream[j]
<1>1. g \in Seq(Chunks) /\ t \in Seq(Chunks) /\ Connected \in Chunks /\ Beat \in Chunks
  BY DEF HubTypes, Chunks
<1>2. Connected \notin Casts /\ Beat \notin Casts
  BY DEF Connected, Beat, Casts
<1>3. CASE stream'[j] = stream[j]
  <2>1. \A x, y \in Casts : SentBefore(j, x, y)' => SentBefore(j, x, y)
    BY <1>3, SentOrder
  <2> QED BY <2>1, <1>1, <1>3
<1>4. ASSUME NEW e \in {Connected, Beat}, stream'[j] = Append(stream[j], e)
      PROVE  /\ \A x \in Casts : x \in ToSet(stream'[j]) <=> x \in ToSet(stream[j])
             /\ \A x, y \in Casts : SentBefore(j, x, y)' => SentBefore(j, x, y)
             /\ stream'[j] \in Seq(Chunks)
  <2>1. e \in Chunks /\ e \notin Casts
    BY <1>1, <1>2
  <2>2. ToSet(stream'[j]) = ToSet(t) \cup {e} /\ stream'[j] \in Seq(Chunks)
    BY <1>1, <1>4, <2>1, InAppend
  <2>3. ASSUME NEW x \in Casts, NEW y \in Casts, SentBefore(j, x, y)'
        PROVE  SentBefore(j, x, y)
    <3> DEFINE r == g \o t
    <3>1. g \o Append(t, e) = Append(r, e) /\ r \in Seq(Chunks)
      <4> HIDE DEF g, t
      <4> QED BY <1>1, <2>1, ConcatAppend, ConcatProperties
    <3>2. Precedes(Append(r, e), x, y)
      BY <3>1, <2>3, <1>4, SentOrder
    <3> HIDE DEF r
    <3>3. Precedes(r, x, y)
      BY <3>1, <3>2, <2>1, PrecedesAppend
    <3> QED BY <3>3, SentOrder DEF r
  <2> QED BY <2>1, <2>2, <2>3
<1>5. CASE stream[j] # <<>> /\ Head(stream[j]) \notin Casts /\ stream'[j] = Tail(stream[j])
  <2>1. ToSet(t) = {Head(t)} \cup ToSet(Tail(t)) /\ Tail(t) \in Seq(Chunks)
    BY <1>1, <1>5, InTail
  <2>2. ASSUME NEW x \in Casts, NEW y \in Casts, SentBefore(j, x, y)'
        PROVE  SentBefore(j, x, y)
    <3>1. Precedes(g \o Tail(t), x, y)
      BY <2>2, <1>5, SentOrder
    <3>2. Precedes(g \o t, x, y)
      BY <3>1, <1>1, <1>5, PrecedesTail
    <3> QED BY <3>2, SentOrder
  <2> HIDE DEF t
  <2>3. \A x \in Casts : x \in ToSet(Tail(t)) <=> x \in ToSet(t)
    BY <2>1, <1>5 DEF t
  <2> QED BY <2>1, <2>2, <2>3, <1>5 DEF t
<1> QED BY <1>3, <1>4, <1>5

\* The steps that touch streams without moving a broadcast, and those that
\* touch none.
LEMMA QuietActions ==
    ASSUME HubInv,
           \/ \E topics \in Interests : Subscribe(topics)
           \/ \E i \in Subs :
               \/ Heartbeat(i) \/ Stall(i) \/ Disconnect(i) \/ Abort(i)
               \/ (Read(i) \/ Reject(i)) /\ Head(stream[i]) \notin Casts
           \/ UNCHANGED hubVars
    PROVE  HubTypes' /\ Left' /\ QuietStep
<1>1. HubTypes /\ Left /\ Awaiting
  BY DEF HubInv
<1>2. ASSUME UNCHANGED <<at, got, events, casts, owed>>,
             subs <= subs',
             \A j \in Subs : j <= subs => interest'[j] = interest[j],
             \A j \in Subs : client[j] = "gone" => client'[j] = "gone",
             \A j \in Subs :
                 \/ stream'[j] = stream[j]
                 \/ stream'[j] \in {Append(stream[j], Connected), Append(stream[j], Beat)}
                 \/ stream[j] # <<>> /\ Head(stream[j]) \notin Casts /\ stream'[j] = Tail(stream[j])
      PROVE  QuietStep /\ \A j \in Subs : stream'[j] \in Seq(Chunks)
  <2>1. \A j \in Subs : got'[j] = got[j]
    BY <1>2
  <2>2. ASSUME NEW j \in Subs
        PROVE  /\ \A x \in Casts : x \in ToSet(stream'[j]) <=> x \in ToSet(stream[j])
               /\ \A x, y \in Casts : SentBefore(j, x, y)' => SentBefore(j, x, y)
               /\ stream'[j] \in Seq(Chunks)
    BY <2>1, <1>1, <1>2, QuietEffects
  <2> QED BY <2>2, <1>2, Zenon DEF QuietStep
<1>3. subs \in Nat /\ MaxSubs \in Nat /\ subs <= MaxSubs /\ Subs = 1..MaxSubs
  BY <1>1, TailHubAssumption DEF HubTypes, TailHubAssumption, Subs
<1>4. CASE \E topics \in Interests : Subscribe(topics)
  <2>1. PICK topics \in Interests : Subscribe(topics)
    BY <1>4
  <2> DEFINE i == subs + 1
  <2>2. /\ i \in Subs /\ subs' = i /\ members' = members \cup {i} /\ timers' = timers \cup {i}
        /\ interest' = [interest EXCEPT ![i] = topics]
        /\ client' = [client EXCEPT ![i] = "reading"]
        /\ stream' = [stream EXCEPT ![i] = <<Connected>>]
    BY <2>1, <1>3 DEF Subscribe
  <2>3. UNCHANGED <<beats, casts, events, at, owed, got>>
    BY <2>1 DEF Subscribe, walks
  <2>4. topics \subseteq Topics
    BY TailHubAssumption DEF TailHubAssumption
  <2>5. stream[i] = <<>> /\ client[i] = "none" /\ got[i] = <<>>
    BY <2>2, <1>1, <1>3 DEF Left
  <2>6. Append(stream[i], Connected) = <<Connected>>
    BY <2>5
  <2>7. \A j \in Subs : j # i => /\ interest'[j] = interest[j] /\ client'[j] = client[j]
                                 /\ stream'[j] = stream[j]
    BY <2>2, <1>1 DEF HubTypes
  <2>8. interest'[i] = topics /\ client'[i] = "reading" /\ stream'[i] = Append(stream[i], Connected)
    BY <2>2, <2>6, <1>1 DEF HubTypes
  <2>9. QuietStep /\ \A j \in Subs : stream'[j] \in Seq(Chunks)
    <3>1. \A j \in Subs : j <= subs => interest'[j] = interest[j]
      BY <2>7, <1>3
    <3>2. \A j \in Subs : client[j] = "gone" => client'[j] = "gone"
      BY <2>5, <2>7
    <3>3. \A j \in Subs : stream'[j] = stream[j] \/ stream'[j] = Append(stream[j], Connected)
      BY <2>7, <2>8
    <3>4. subs <= subs'
      BY <2>2, <1>3
    <3> QED BY <2>3, <3>1, <3>2, <3>3, <3>4, <1>2
  <2>10. HubTypes'
    <3>1. interest' \in [Subs -> SUBSET Topics] /\ client' \in [Subs -> {"none", "reading", "stalled", "gone"}]
      BY <2>2, <2>4, <1>1 DEF HubTypes
    <3>2. stream' \in [Subs -> Seq(Chunks)]
      <4> DEFINE first == <<Connected>>
      <4>1. Connected \in Chunks
        BY DEF Chunks
      <4>2. first \in Seq(Chunks)
        BY <4>1
      <4>3. stream' = [stream EXCEPT ![i] = first]
        BY <2>2, Zenon
      <4> HIDE DEF first
      <4> QED BY <4>2, <4>3, <1>1 DEF HubTypes
    <3>3. subs' \in 0..MaxSubs /\ 1..subs \subseteq 1..subs' /\ i \in 1..subs'
      BY <2>2, <1>3
    <3>4. members \subseteq 1..subs /\ timers \subseteq 1..subs
      BY <1>1 DEF HubTypes
    <3>5. members' \subseteq 1..subs' /\ timers' \subseteq 1..subs'
      <4> HIDE DEF i
      <4> QED BY <3>3, <3>4, <2>2, Zenon
    <3> QED BY <3>1, <3>2, <3>3, <3>5, <2>3, <1>1 DEF HubTypes
  <2>11. Left'
    <3> SUFFICES ASSUME NEW j \in Subs
                 PROVE  IF j <= subs' THEN j \in members' \/ client'[j] = "gone"
                        ELSE client'[j] = "none" /\ stream'[j] = <<>> /\ got'[j] = <<>>
      BY DEF Left
    <3>1. CASE j = i
      BY <3>1, <2>2, <1>3
    <3>2. CASE j # i
      BY <3>2, <2>2, <2>3, <2>7, <1>1, <1>3 DEF Left
    <3> QED BY <3>1, <3>2
  <2> QED BY <2>9, <2>10, <2>11
<1>5. CASE \E i \in Subs : Heartbeat(i)
  <2>1. PICK i \in Subs : Heartbeat(i)
    BY <1>5
  <2>2. /\ i \in timers /\ beats < MaxBeats /\ beats' = beats + 1
        /\ stream' = [stream EXCEPT ![i] = Append(stream[i], Beat)]
        /\ UNCHANGED <<subs, members, timers, interest, client, casts, events, at, owed, got>>
    BY <2>1 DEF Heartbeat, hub, walks
  <2>3. \A j \in Subs : stream'[j] = stream[j] \/ stream'[j] = Append(stream[j], Beat)
    BY <2>2, <1>1 DEF HubTypes
  <2>4. QuietStep /\ \A j \in Subs : stream'[j] \in Seq(Chunks)
    BY <2>2, <2>3, <1>2, <1>3
  <2>5. beats' \in 0..MaxBeats
    BY <2>2, <1>1, TailHubAssumption DEF HubTypes, TailHubAssumption
  <2>6. stream' \in [Subs -> Seq(Chunks)]
    BY <2>2, <2>4, <1>1 DEF HubTypes
  <2>7. HubTypes'
    BY <2>2, <2>5, <2>6, <1>1 DEF HubTypes
  <2>8. i <= subs
    BY <2>2, <1>1, <1>3 DEF HubTypes
  <2>9. \A j \in Subs : j # i => stream'[j] = stream[j]
    BY <2>2, <1>1 DEF HubTypes
  <2>10. Left'
    BY <2>2, <2>8, <2>9, <1>1 DEF Left
  <2> QED BY <2>4, <2>7, <2>10
<1>6. CASE \E i \in Subs : (Read(i) \/ Reject(i)) /\ Head(stream[i]) \notin Casts
  <2>1. PICK i \in Subs : (Read(i) \/ Reject(i)) /\ Head(stream[i]) \notin Casts
    BY <1>6
  <2>2. /\ stream[i] # <<>> /\ stream' = [stream EXCEPT ![i] = Tail(stream[i])]
        /\ UNCHANGED <<subs, interest, client, beats, casts, events, at, owed, got>>
    BY <2>1 DEF Read, Reject, hub
  <2>3. \/ UNCHANGED <<members, timers>>
        \/ client[i] = "gone" /\ members' = members \ {i} /\ timers' = timers \ {i}
    BY <2>1 DEF Read, Reject, hub, Drop
  <2>4. \A j \in Subs : j # i => stream'[j] = stream[j]
    BY <2>2, <1>1 DEF HubTypes
  <2>5. stream'[i] = Tail(stream[i])
    BY <2>2, <1>1 DEF HubTypes
  <2>6. QuietStep /\ \A j \in Subs : stream'[j] \in Seq(Chunks)
    <3>1. \A j \in Subs : \/ stream'[j] = stream[j]
                          \/ stream[j] # <<>> /\ Head(stream[j]) \notin Casts /\ stream'[j] = Tail(stream[j])
      BY <2>1, <2>2, <2>4, <2>5
    <3> QED BY <3>1, <2>2, <1>2, <1>3
  <2>7. HubTypes'
    <3>1. stream' \in [Subs -> Seq(Chunks)]
      BY <2>2, <2>6, <1>1 DEF HubTypes
    <3>2. members' \subseteq members /\ timers' \subseteq timers
      BY <2>3
    <3> QED BY <3>1, <3>2, <2>2, <1>1 DEF HubTypes
  <2>8. i <= subs
    BY <2>2, <1>1 DEF Left
  <2>9. Left'
    <3> SUFFICES ASSUME NEW j \in Subs
                 PROVE  IF j <= subs THEN j \in members' \/ client[j] = "gone"
                        ELSE client[j] = "none" /\ stream'[j] = <<>> /\ got[j] = <<>>
      BY <2>2 DEF Left
    <3>1. CASE j = i
      BY <3>1, <2>3, <2>8, <1>1 DEF Left
    <3>2. CASE j # i
      BY <3>2, <2>3, <2>4, <1>1 DEF Left
    <3> QED BY <3>1, <3>2
  <2> QED BY <2>6, <2>7, <2>9
<1>7. CASE \E i \in Subs : Stall(i) \/ Disconnect(i) \/ Abort(i)
  <2>1. PICK i \in Subs : Stall(i) \/ Disconnect(i) \/ Abort(i)
    BY <1>7
  <2>2. UNCHANGED <<subs, interest, stream, beats, casts, events, at, owed, got>>
    BY <2>1 DEF Stall, Disconnect, Abort, hub, walks
  <2>3. /\ client' = client \/ \E to \in {"stalled", "gone"} : client' = [client EXCEPT ![i] = to]
        /\ client' # client => client[i] \in {"reading", "stalled"}
        /\ client' = [client EXCEPT ![i] = "stalled"] => client[i] # "gone"
        /\ members' = members \/ (client[i] = "gone" /\ client' = client /\ members' = members \ {i})
        /\ members' \subseteq members /\ timers' \subseteq timers
    BY <2>1, <1>1 DEF Stall, Disconnect, Abort, hub, walks, Drop, HubTypes
  <2>4. client' \in [Subs -> {"none", "reading", "stalled", "gone"}]
    BY <2>3, <1>1 DEF HubTypes
  <2>5. \A j \in Subs : j # i => client'[j] = client[j]
    BY <2>3, <1>1 DEF HubTypes
  <2>6. client[i] = "gone" => client'[i] = "gone"
    BY <2>3
  <2>7. \A j \in Subs : client[j] = "gone" => client'[j] = "gone"
    BY <2>5, <2>6
  <2>8. QuietStep
    BY <2>2, <2>7, <1>2, <1>3
  <2>9. HubTypes'
    BY <2>2, <2>3, <2>4, <1>1 DEF HubTypes
  <2>10. \A j \in Subs : client[j] = "none" => client'[j] = "none"
    BY <2>3, <2>5
  <2>11. Left'
    <3> SUFFICES ASSUME NEW j \in Subs
                 PROVE  IF j <= subs THEN j \in members' \/ client'[j] = "gone"
                        ELSE client'[j] = "none" /\ stream[j] = <<>> /\ got[j] = <<>>
      BY <2>2 DEF Left
    <3> QED BY <2>3, <2>7, <2>10, <1>1 DEF Left
  <2> QED BY <2>8, <2>9, <2>11
<1>8. CASE UNCHANGED hubVars
  <2>1. UNCHANGED <<subs, members, timers, interest, stream, client, beats, casts, events, at, owed, got>>
    BY <1>8 DEF hubVars, hub, walks
  <2>2. QuietStep
    BY <2>1, <1>2, <1>3
  <2>3. HubTypes' /\ Left'
    BY <2>1, <1>1 DEF HubTypes, Left
  <2> QED BY <2>2, <2>3
<1> QED BY <1>4, <1>5, <1>6, <1>7, <1>8

\* What the settling of broadcast b's write to f changes: the walk over this
\* map goes on.
Settles(b, f, map) ==
    /\ stream[f] # <<>> /\ Head(stream[f]) = b
    /\ Walk(b, events[b], f, map, [stream EXCEPT ![f] = Tail(stream[f])])
    /\ UNCHANGED <<subs, interest, client, casts, events, owed>>
    /\ \/ got' = [got EXCEPT ![f] = Append(got[f], b)]
       \/ got' = got /\ client[f] = "gone"

\* A step of a walk that keeps the types and touches only f and next.
TypedWalk(b, f, next) ==
    /\ WalkStep(b, f, next) /\ f <= subs
    /\ at' \in [Casts -> 0..MaxSubs] /\ next \in 0..MaxSubs
    /\ next # 0 => next <= subs
    /\ stream' \in [Subs -> Seq(Chunks)] /\ got' \in [Subs -> Seq(Casts)]
    /\ \A j \in Subs : j # f /\ j # next => stream'[j] = stream[j] /\ got'[j] = got[j]

\* A write that settles, read or rejected, sends its broadcast on.
LEMMA SettledIsWalk ==
    ASSUME HubInv, NEW f \in Subs, NEW b \in Casts, NEW map \in {members, members \ {f}},
           Settles(b, f, map)
    PROVE  TypedWalk(b, f, Stop(f, events[b], map))
<1> DEFINE next == Stop(f, events[b], map)
<1>0. stream[f] # <<>> /\ Head(stream[f]) = b
  BY Zenon DEF Settles
<1> DEFINE rest == [stream EXCEPT ![f] = Tail(stream[f])]
<1>1. HubTypes /\ Left /\ Awaiting /\ InOrder
  BY DEF HubInv
<1>2. stream[f] \in Seq(Chunks) /\ got[f] \in Seq(Casts) /\ got[f] \in Seq(Chunks) /\ b \in Chunks
  BY <1>1 DEF HubTypes, Chunks
<1>3. ToSet(stream[f]) = {b} \cup ToSet(Tail(stream[f])) /\ Tail(stream[f]) \in Seq(Chunks)
  BY <1>0, <1>2, InTail
<1>4. at[b] = f /\ f \in Nat \ {0} /\ b \in Nat
  BY <1>1, <1>3, Numbers DEF Awaiting
<1>5. b <= casts /\ f <= subs
  BY <1>1, <1>4 DEF Awaiting
<1>6. /\ next \in 0..MaxSubs
      /\ next # 0 => next \in Subs /\ next <= subs /\ f < next /\ Wants(next, events[b])
      /\ \A j \in Subs : j <= subs /\ f < j /\ Wants(j, events[b]) /\ client[j] # "gone" =>
             next # 0 /\ next <= j
  <2>1. f \in Nat /\ HubTypes /\ Left
    BY <1>1, <1>4
  <2>3. FirstAhead(next, f, events[b])
    BY <2>1, StopFacts
  <2> QED BY <2>3, Zenon DEF FirstAhead
<1>7. /\ at' = [at EXCEPT ![b] = next]
      /\ stream' = IF next = 0 THEN rest ELSE [rest EXCEPT ![next] = Append(rest[next], b)]
  <2>1. Walk(b, events[b], f, map, rest)
    BY Zenon DEF Settles
  <2> QED BY <2>1, Zenon DEF Walk
<1>8. rest \in [Subs -> Seq(Chunks)] /\ rest[f] = Tail(stream[f])
      /\ \A j \in Subs : j # f => rest[j] = stream[j]
  BY <1>1, <1>3 DEF HubTypes
<1> SUFFICES TypedWalk(b, f, next)
  OBVIOUS
<1> HIDE DEF rest, next
<1>9. f # next /\ next # 0 => next \in Subs
  BY <1>4, <1>6
<1>10. f # next
  BY <1>4, <1>6
<1>11. stream' \in [Subs -> Seq(Chunks)]
  <2>1. CASE next = 0
    BY <2>1, <1>7, <1>8
  <2>2. CASE next # 0
    <3> DEFINE new == Append(rest[next], b)
    <3>1. new \in Seq(Chunks)
      BY <2>2, <1>2, <1>6, <1>8
    <3>2. stream' = [rest EXCEPT ![next] = new]
      BY <2>2, <1>7
    <3> HIDE DEF new
    <3> QED BY <3>1, <3>2, <1>8
  <2> QED BY <2>1, <2>2
<1>12. /\ stream'[f] = Tail(stream[f])
       /\ next # 0 => stream'[next] = Append(stream[next], b)
       /\ \A j \in Subs : j # f /\ j # next => stream'[j] = stream[j]
  BY <1>4, <1>6, <1>7, <1>8, <1>10
<1>13. /\ got' \in [Subs -> Seq(Casts)] /\ got'[f] \in {got[f], Append(got[f], b)}
       /\ \A j \in Subs : j # f => got'[j] = got[j]
  <2>1. CASE got' = got
    BY <2>1, <1>1 DEF HubTypes
  <2>2. CASE got' = [got EXCEPT ![f] = Append(got[f], b)]
    <3> DEFINE new == Append(got[f], b)
    <3>1. new \in Seq(Casts) /\ got' = [got EXCEPT ![f] = new]
      BY <2>2, <1>2
    <3> HIDE DEF new
    <3>2. got' \in [Subs -> Seq(Casts)] /\ got'[f] = new /\ \A j \in Subs : j # f => got'[j] = got[j]
      BY <3>1, <1>1 DEF HubTypes
    <3> QED BY <3>2 DEF new
  <2> QED BY <2>1, <2>2, Zenon DEF Settles
<1>14. Walked(b, f, next)
  <2> SUFFICES ASSUME NEW j \in Subs
               PROVE  \/ j # f /\ j # next /\ stream'[j] = stream[j] /\ got'[j] = got[j]
                      \/ /\ j = f /\ j # next /\ stream[j] # <<>> /\ Head(stream[j]) = b
                         /\ stream'[j] = Tail(stream[j]) /\ got'[j] \in {got[j], Append(got[j], b)}
                      \/ j = next /\ j # f /\ stream'[j] = Append(stream[j], b) /\ got'[j] = got[j]
    BY Zenon DEF Walked
  <2>1. CASE j = f
    BY <2>1, <1>0, <1>10, <1>12, <1>13, Zenon
  <2>2. CASE j = next
    <3>1. next # 0 /\ next # f
      BY <2>2, <1>1, <1>10, Numbers
    <3> QED BY <3>1, <2>2, <1>12, <1>13, Zenon
  <2>3. CASE j # f /\ j # next
    BY <2>3, <1>12, <1>13, Zenon
  <2> QED BY <2>1, <2>2, <2>3
<1>15. Sends(b, f, next)
  BY <1>4, <1>14, WalkEffects, Zenon
<1>16. client[f] = "gone" \/ b \in ToSet(got'[f])
  <2>1. CASE got' = [got EXCEPT ![f] = Append(got[f], b)]
    <3>1. got'[f] = Append(got[f], b)
      BY <2>1, <1>1 DEF HubTypes
    <3> QED BY <3>1, <1>2, InAppend
  <2> QED BY <2>1, Zenon DEF Settles
<1>17. ASSUME NEW c \in Casts, c \in ToSet(stream[f]), c # b PROVE SentBefore(f, b, c)
  <2>1. c \in ToSet(Tail(stream[f]))
    BY <1>3, <1>17
  <2>2. Precedes(got[f] \o stream[f], Head(stream[f]), c)
    BY <2>1, <1>0, <1>2, HeadFirst
  <2> QED BY <2>2, <1>0, SentOrder
<1>18. casts \in Nat
  BY <1>1, Numbers
<1>19. UNCHANGED <<subs, interest, client>> /\ casts' = casts /\ events' = events /\ owed' = owed
  BY Zenon DEF Settles
<1>20. WalkStep(b, f, next)
  BY <1>4, <1>5, <1>6, <1>7, <1>15, <1>16, <1>17, <1>18, <1>19 DEF WalkStep, Sends
<1>21. at' \in [Casts -> 0..MaxSubs]
  BY <1>6, <1>7, <1>1 DEF HubTypes
<1> QED BY <1>5, <1>6, <1>11, <1>12, <1>13, <1>20, <1>21, Zenon DEF TypedWalk

\* Reading or rejecting the write of a broadcast is a step of its walk.
LEMMA SettledKeeps ==
    ASSUME HubInv, NEW f \in Subs, Read(f) \/ Reject(f), Head(stream[f]) \in Casts
    PROVE  HubTypes' /\ Left' /\ \E b \in Casts, from, next \in 0..MaxSubs : WalkStep(b, from, next)
<1> DEFINE b == Head(stream[f])
<1>1. HubTypes /\ Left /\ b \in Casts /\ stream[f] # <<>>
  BY DEF HubInv, Read, Reject
<1>2. \E map \in {members, members \ {f}} :
        /\ Settles(b, f, map) /\ UNCHANGED beats
        /\ members' = map /\ timers' \subseteq timers
        /\ map = members \/ client[f] = "gone"
  <2>1. CASE Read(f)
    <3>1. Settles(b, f, members) /\ UNCHANGED <<members, timers, beats>>
      BY <2>1, <1>1 DEF Read, Settles, hub
    <3> QED BY <3>1
  <2>2. CASE Reject(f)
    <3>1. b # Connected
      BY <1>1 DEF Connected, Casts
    <3>2. Settles(b, f, members \ {f}) /\ UNCHANGED beats
      BY <2>2, <1>1 DEF Reject, Settles
    <3>3. members' = members \ {f} /\ timers' = timers \ {f} /\ client[f] = "gone"
      BY <3>1, <2>2 DEF Reject, Drop
    <3> QED BY <3>2, <3>3
  <2> QED BY <2>1, <2>2
<1>3. PICK map \in {members, members \ {f}} :
        /\ Settles(b, f, map) /\ UNCHANGED beats
        /\ members' = map /\ timers' \subseteq timers
        /\ map = members \/ client[f] = "gone"
  BY <1>2
<1> DEFINE next == Stop(f, events[b], map)
<1> HIDE DEF b
<1>4. TypedWalk(b, f, next)
  BY <1>1, <1>3, SettledIsWalk
<1> HIDE DEF next
<1>5. /\ WalkStep(b, f, next) /\ f <= subs
      /\ at' \in [Casts -> 0..MaxSubs] /\ next \in 0..MaxSubs
      /\ next # 0 => next <= subs
      /\ stream' \in [Subs -> Seq(Chunks)] /\ got' \in [Subs -> Seq(Casts)]
      /\ \A j \in Subs : j # f /\ j # next => stream'[j] = stream[j] /\ got'[j] = got[j]
  BY <1>4, Zenon DEF TypedWalk
<1>6. UNCHANGED <<subs, interest, client, casts, events, owed>>
  BY <1>3 DEF Settles
<1>7. members' \subseteq members
  BY <1>3
<1>8. HubTypes'
  BY <1>1, <1>3, <1>5, <1>6, <1>7 DEF HubTypes
<1>9. Left'
  <2> SUFFICES ASSUME NEW j \in Subs
               PROVE  IF j <= subs THEN j \in members' \/ client[j] = "gone"
                      ELSE client[j] = "none" /\ stream'[j] = <<>> /\ got'[j] = <<>>
    BY <1>6 DEF Left
  <2>1. CASE j <= subs
    BY <2>1, <1>1, <1>3 DEF Left
  <2>2. CASE ~(j <= subs)
    <3>1. j # f /\ j # next
      BY <2>2, <1>1, <1>5, Numbers
    <3> QED BY <3>1, <2>2, <1>1, <1>5 DEF Left
  <2> QED BY <2>1, <2>2
<1>10. f \in 0..MaxSubs
  BY DEF Subs
<1> QED BY <1>1, <1>5, <1>8, <1>9, <1>10

\* So is publishing, from the start.
LEMMA PublishKeeps ==
    ASSUME HubInv, NEW topic \in Topics, Publish(topic)
    PROVE  HubTypes' /\ Left' /\ \E b \in Casts, from, next \in 0..MaxSubs : WalkStep(b, from, next)
<1> DEFINE b == casts + 1
<1> DEFINE next == Stop(0, topic, members)
<1>1. HubTypes /\ Left /\ Awaiting
  BY DEF HubInv
<1>2. casts \in Nat /\ MaxCasts \in Nat /\ MaxSubs \in Nat /\ b \in Casts /\ b # 0 /\ casts < b
  BY <1>1, TailHubAssumption DEF Publish, HubTypes, TailHubAssumption, Casts
<1>3. /\ casts' = b /\ events' = Append(events, topic)
      /\ owed' = [owed EXCEPT ![b] = {i \in members : Wants(i, topic)}]
      /\ UNCHANGED <<subs, members, timers, interest, client, beats, got>>
  BY DEF Publish, hub
<1>4. /\ at' = [at EXCEPT ![b] = next]
      /\ stream' = IF next = 0 THEN stream ELSE [stream EXCEPT ![next] = Append(stream[next], b)]
  BY Zenon DEF Publish, Walk
<1>5. FirstAhead(next, 0, topic)
  BY <1>1, StopFacts
<1>6. /\ Len(events) = casts /\ events \in Seq(Topics) /\ events' \in Seq(Topics)
      /\ Len(events') = b /\ events'[b] = topic
      /\ \A x \in 1..casts : events'[x] = events[x]
  <2>1. events \in Seq(Topics) /\ Len(events) = casts
    BY <1>1 DEF HubTypes
  <2> HIDE DEF next
  <2> QED BY <2>1, <1>2, <1>3, AppendProperties
<1>7. at[b] = 0
  <2>1. ~(b <= casts)
    BY <1>2
  <2> HIDE DEF b, next
  <2> QED BY <2>1, <1>1, <1>2 DEF Awaiting
<1> HIDE DEF b, next
<1>8. /\ next \in 0..MaxSubs
      /\ next # 0 => next \in Subs /\ next <= subs /\ 0 < next /\ Wants(next, topic)
      /\ \A j \in Subs : j <= subs /\ 0 < j /\ Wants(j, topic) /\ client[j] # "gone" =>
             next # 0 /\ next <= j
  BY <1>5, Zenon DEF FirstAhead
<1>9. at' \in [Casts -> 0..MaxSubs]
  BY <1>1, <1>2, <1>4, <1>8 DEF HubTypes
<1>10. /\ stream' \in [Subs -> Seq(Chunks)]
       /\ next # 0 => stream'[next] = Append(stream[next], b)
       /\ \A j \in Subs : j # next => stream'[j] = stream[j]
  <2>1. CASE next = 0
    BY <2>1, <1>1, <1>4 DEF HubTypes
  <2>2. CASE next # 0
    <3> DEFINE new == Append(stream[next], b)
    <3>1. new \in Seq(Chunks)
      <4>1. stream[next] \in Seq(Chunks) /\ b \in Chunks
        BY <2>2, <1>1, <1>2, <1>8 DEF HubTypes, Chunks
      <4> QED BY <4>1
    <3>2. stream' = [stream EXCEPT ![next] = new]
      BY <2>2, <1>4
    <3> HIDE DEF new
    <3>3. /\ stream' \in [Subs -> Seq(Chunks)] /\ stream'[next] = new
          /\ \A j \in Subs : j # next => stream'[j] = stream[j]
      BY <3>1, <3>2, <2>2, <1>1, <1>8 DEF HubTypes
    <3> QED BY <3>3 DEF new
  <2> QED BY <2>1, <2>2
<1>11. Walked(b, 0, next)
  <2> SUFFICES ASSUME NEW j \in Subs
               PROVE  \/ j # 0 /\ j # next /\ stream'[j] = stream[j] /\ got'[j] = got[j]
                      \/ j = next /\ j # 0 /\ stream'[j] = Append(stream[j], b) /\ got'[j] = got[j]
    BY Zenon DEF Walked
  <2>1. j # 0 /\ got'[j] = got[j]
    BY <1>1, <1>3, Numbers
  <2> QED BY <2>1, <1>10
<1>12. Sends(b, 0, next)
  BY <1>2, <1>7, <1>11, WalkEffects, Zenon
<1>13. /\ owed' \in [Casts -> SUBSET Subs]
       /\ \A x \in Casts : x # b => owed'[x] = owed[x]
       /\ \A i \in owed'[b] : i \in members /\ Wants(i, topic)
  <2> DEFINE now == {i \in members : Wants(i, topic)}
  <2>1. now \subseteq Subs /\ \A i \in now : i \in members /\ Wants(i, topic)
    <3>1. members \subseteq Subs
      BY <1>1, TailHubAssumption DEF HubTypes, Subs, TailHubAssumption
    <3> QED BY <3>1
  <2>2. owed' = [owed EXCEPT ![b] = now]
    BY <1>3
  <2> HIDE DEF now
  <2>3. /\ owed' \in [Casts -> SUBSET Subs] /\ owed'[b] = now
        /\ \A x \in Casts : x # b => owed'[x] = owed[x]
    BY <2>1, <2>2, <1>1, <1>2 DEF HubTypes
  <2> QED BY <2>1, <2>3
<1>14. HubTypes'
  <2>1. casts' \in 0..MaxCasts
    BY <1>2, <1>3 DEF Casts
  <2> QED BY <2>1, <1>1, <1>3, <1>6, <1>9, <1>10, <1>13 DEF HubTypes
<1>15. Left'
  <2> SUFFICES ASSUME NEW j \in Subs, ~(j <= subs)
               PROVE  client[j] = "none" /\ stream'[j] = <<>> /\ got[j] = <<>>
    BY <1>1, <1>3 DEF Left
  <2>1. j # next
    BY <1>1, <1>8, Numbers
  <2> QED BY <2>1, <1>1, <1>10 DEF Left
<1>16. WalkStep(b, 0, next)
  <2>1. \A x \in Casts : /\ x <= casts => events'[x] = events[x]
                         /\ x <= casts' => x <= casts \/ x = b
                         /\ x # b => owed'[x] = owed[x]
    BY <1>2, <1>3, <1>6, <1>13 DEF Casts, b
  <2>2. casts <= casts' /\ b <= casts'
    BY <1>2, <1>3 DEF b
  <2>3. \A i \in owed'[b] : i \in Subs /\ i <= subs /\ Wants(i, events'[b])
    BY <1>1, <1>6, <1>13, Numbers, TailHubAssumption DEF HubTypes, Subs, TailHubAssumption
  <2> QED BY <2>1, <2>2, <2>3, <1>2, <1>3, <1>4, <1>6, <1>7, <1>8, <1>12, Zenon DEF WalkStep, Sends
<1>17. 0 \in 0..MaxSubs
  BY <1>2
<1> QED BY <1>2, <1>8, <1>14, <1>15, <1>16, <1>17

-----------------------------------------------------------------------------
\* The invariant holds at the start.
LEMMA HubInvInit ==
    ASSUME HubInit
    PROVE  HubInv /\ Roomy
<1> DEFINE none == <<>>
<1>1. /\ subs = 0 /\ casts = 0 /\ members = {} /\ timers = {} /\ beats = 0 /\ events = none
      /\ \A i \in Subs : interest[i] = {} /\ stream[i] = none /\ client[i] = "none" /\ got[i] = none
      /\ \A b \in Casts : at[b] = 0 /\ owed[b] = {}
  BY DEF HubInit
<1>2. \A S : none \in Seq(S)
  OBVIOUS
<1>3. Len(none) = 0 /\ ToSet(none) = {}
  BY DEF ToSet
<1>4. Casts \subseteq Nat \ {0} /\ Subs \subseteq Nat \ {0}
  BY TailHubAssumption DEF Casts, Subs, TailHubAssumption
<1>5. interest = [i \in Subs |-> {}] /\ stream = [i \in Subs |-> none]
      /\ client = [i \in Subs |-> "none"] /\ got = [i \in Subs |-> none]
      /\ at = [b \in Casts |-> 0] /\ owed = [b \in Casts |-> {}]
  BY Zenon DEF HubInit
<1> HIDE DEF none
<1>6. HubTypes
  <2>1. 0 \in 0..MaxSubs /\ 0 \in 0..MaxCasts /\ 0 \in 0..MaxBeats
    BY TailHubAssumption DEF TailHubAssumption
  <2>2. stream \in [Subs -> Seq(Chunks)] /\ got \in [Subs -> Seq(Casts)] /\ events \in Seq(Topics)
    BY <1>1, <1>2, <1>5
  <2> QED BY <2>1, <2>2, <1>1, <1>3, <1>5 DEF HubTypes
<1>7. Left
  BY <1>1, <1>4 DEF Left, none
<1>8. Awaiting /\ Ahead
  BY <1>1, <1>3, <1>4 DEF Awaiting, Ahead
<1>9. \A i \in Subs : ToSet(got[i]) = {} /\ ToSet(stream[i]) = {}
  BY <1>1, <1>3
<1>10. InOrder
  <2>1. \A i \in Subs, b, c \in Casts : ~SentBefore(i, b, c)
    BY <1>6, <1>9, SentBeforeIn
  <2> QED BY <2>1, Zenon DEF InOrder
<1>11. Overtaken
  BY <1>9, Zenon DEF Overtaken
<1>12. Roomy
  BY <1>1, FS_EmptySet, TailHubAssumption DEF Roomy, TailHubAssumption
<1> QED BY <1>6, <1>7, <1>8, <1>10, <1>11, <1>12 DEF HubInv

\* The limit of the Map holds on.
LEMMA RoomKept ==
    ASSUME HubTypes, Roomy, HubNext \/ UNCHANGED hubVars
    PROVE  Roomy'
<1>1. MaxSubscribers \in Nat /\ subs \in Nat
  BY TailHubAssumption, Numbers DEF TailHubAssumption
<1>2. IsFiniteSet(members) /\ Cardinality(members) \in Nat
  <2>1. IsFiniteSet(1..subs)
    BY <1>1, FS_Interval
  <2>2. members \in SUBSET (1..subs)
    BY DEF HubTypes
  <2> QED BY <2>1, <2>2, FS_Subset, FS_CardinalityType
<1>3. CASE \E topics \in Interests : Subscribe(topics)
  <2>1. Cardinality(members) < MaxSubscribers /\ members' = members \cup {subs + 1}
    BY <1>3 DEF Subscribe
  <2>2. Cardinality(members \cup {subs + 1}) <= Cardinality(members) + 1
    <3>1. Cardinality(members \cup {subs + 1}) = IF subs + 1 \in members THEN Cardinality(members) ELSE Cardinality(members) + 1
      BY <1>2, FS_AddElement
    <3> QED BY <3>1, <1>2
  <2>3. Cardinality(members \cup {subs + 1}) \in Nat
    BY <1>2, FS_AddElement, FS_CardinalityType
  <2> QED BY <2>1, <2>2, <2>3, <1>1, <1>2 DEF Roomy
<1>4. CASE members' \subseteq members
  <2>1. Cardinality(members') <= Cardinality(members) /\ Cardinality(members') \in Nat
    BY <1>2, <1>4, FS_Subset, FS_CardinalityType
  <2> QED BY <2>1, <1>1, <1>2 DEF Roomy
<1>5. (\E topics \in Interests : Subscribe(topics)) \/ members' \subseteq members
  BY DEF HubNext, Publish, Heartbeat, Read, Stall, Disconnect, Abort, Reject, Drop, hub, hubVars
<1> QED BY <1>3, <1>4, <1>5

\* The invariant is inductive.
LEMMA HubInvInductive ==
    ASSUME HubInv, HubNext \/ UNCHANGED hubVars
    PROVE  HubInv'
<1>1. CASE \/ \E topics \in Interests : Subscribe(topics)
           \/ \E i \in Subs :
               \/ Heartbeat(i) \/ Stall(i) \/ Disconnect(i) \/ Abort(i)
               \/ (Read(i) \/ Reject(i)) /\ Head(stream[i]) \notin Casts
           \/ UNCHANGED hubVars
  <2>1. HubTypes' /\ Left' /\ QuietStep
    BY <1>1, QuietActions
  <2>2. Awaiting' /\ Ahead' /\ InOrder' /\ Overtaken'
    BY <2>1, QuietKeeps
  <2> QED BY <2>1, <2>2 DEF HubInv
<1>2. ASSUME HubTypes', Left', \E b \in Casts, from, next \in 0..MaxSubs : WalkStep(b, from, next)
      PROVE  HubInv'
  <2>1. PICK b \in Casts, from, next \in 0..MaxSubs : WalkStep(b, from, next)
    BY <1>2
  <2>2. Awaiting' /\ Ahead' /\ InOrder' /\ Overtaken'
    BY <2>1, <1>2, WalkKeepsAwaiting, WalkKeepsAhead, WalkKeepsInOrder, WalkKeepsOvertaken
  <2> QED BY <2>2, <1>2 DEF HubInv
<1>3. CASE \E topic \in Topics : Publish(topic)
  BY <1>2, <1>3, PublishKeeps
<1>4. CASE \E i \in Subs : (Read(i) \/ Reject(i)) /\ Head(stream[i]) \in Casts
  BY <1>2, <1>4, SettledKeeps
<1> QED BY <1>1, <1>3, <1>4, Zenon DEF HubNext

\* The Map holds no more than its limit, broadcasts wait where their writes are,
\* and whoever is owed one gets it or has gone.
THEOREM TailHubInvariant == HubSpec => [](HubInv /\ Roomy)
<1>1. HubInit => HubInv /\ Roomy
  BY HubInvInit
<1>2. HubInv /\ Roomy /\ [HubNext]_hubVars => (HubInv /\ Roomy)'
  BY HubInvInductive, RoomKept DEF HubInv
<1> QED BY <1>1, <1>2, PTL DEF HubSpec

\* TailHub keeps its types: never more than MAX_SUBSCRIBERS entries in the Map,
\* and a broadcast only awaits a write that is in the stream.
THEOREM HubTypeOKHolds == HubSpec => []HubTypeOK
<1>1. HubInv /\ Roomy => HubTypeOK
  <2> SUFFICES ASSUME HubInv, Roomy PROVE HubTypeOK
    OBVIOUS
  <2>1. HubTypes /\ Awaiting
    BY DEF HubInv
  <2>2. \A b \in Casts : at[b] # 0 => b \in ToSet(stream[at[b]])
    BY <2>1, Zenon DEF Awaiting
  <2> QED BY <2>1, <2>2 DEF HubTypes, HubTypeOK, Roomy, Chunks
<1> QED BY <1>1, TailHubInvariant, PTL

\* A broadcast that has returned was read by every subscriber it was for when it
\* began, or that one's connection closed.
THEOREM CompleteHolds == HubSpec => []Complete
<1>1. HubInv => Complete
  <2> SUFFICES ASSUME HubInv, NEW b \in 1..casts, at[b] = 0, NEW i \in owed[b]
               PROVE  client[i] = "gone" \/ b \in ToSet(got[i])
    BY DEF Complete
  <2>1. HubTypes /\ Ahead
    BY DEF HubInv
  <2>2. b \in Casts /\ b <= casts
    BY <2>1, TailHubAssumption DEF HubTypes, Casts, TailHubAssumption
  <2> QED BY <2>1, <2>2 DEF Ahead
<1> QED BY <1>1, TailHubInvariant, PTL

\* No subscriber is sent a broadcast twice, nor two of the same topic out of
\* order unless one ahead of it has gone.
THEOREM InOrderHolds == HubSpec => []InOrder
<1>1. HubInv => InOrder
  BY DEF HubInv
<1> QED BY <1>1, TailHubInvariant, PTL
=============================================================================
