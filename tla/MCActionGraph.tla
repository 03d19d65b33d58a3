--------------------------- MODULE MCActionGraph ----------------------------
\* One agent run that states its id, a model step that names it as its run, a
\* tool call that names it as its root and carries an agent id of its own, which
\* makes it a run, too, and a span that is no action; the run reports less than
\* its children cost.
EXTENDS ActionGraph, TLC

CONSTANTS run, step, tool, plain, runId

AgentTrace == {run, step, tool, plain}
KindOf == (run :> "run") @@ (step :> "step") @@ (tool :> "step") @@ (plain :> "plain")
Tables == (run :> {"artifacts"}) @@ (step :> {"retrieval_events", "eval_results"})
              @@ (tool :> {"tool_calls"}) @@ (plain :> {})
Stated == [s \in AgentTrace |-> IF s = run THEN runId ELSE None]
NamedRun == [s \in AgentTrace |-> IF s = step THEN run ELSE None]
StatedRoot == [s \in AgentTrace |-> IF s = tool THEN run ELSE None]
ParentOf == (run :> None) @@ (step :> run) @@ (tool :> step) @@ (plain :> run)
StatedCause == [s \in AgentTrace |-> IF s = step THEN run ELSE None]
Costs == (run :> 1) @@ (step :> 2) @@ (tool :> 1) @@ (plain :> 0)

\* Any span alone, any two, and everything, over the cap, in two orders.
Deliveries ==
    {<<s>> : s \in AgentTrace}
        \cup {p \in AgentTrace \X AgentTrace : p[1] # p[2]}
        \cup {<<step, tool, run, plain>>, <<run, plain, tool, step>>}

HandlerSymmetry == Permutations(Requests)
=============================================================================
