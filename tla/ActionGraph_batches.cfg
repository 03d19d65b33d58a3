\* Four requests, two at a time, on D1.
SPECIFICATION Spec
CONSTANTS
    run = run
    step = step
    tool = tool
    plain = plain
    runId = runId
    None = None
    Spans <- AgentTrace
    Kind <- KindOf
    Parts <- Tables
    StatedId <- Stated
    AgentIds = {tool}
    SharedStatement = FALSE
    RunOf <- NamedRun
    RootOf <- StatedRoot
    Parent <- ParentOf
    Cause <- StatedCause
    Cost <- Costs
    Batches <- Deliveries
    Requests = {q1, q2}
    MaxPerRequest = 3
    MaxStoreFaults = 1
    MaxPosts = 4
    MaxGraphFaults = 1
CHECK_DEADLOCK FALSE
INVARIANTS RunTotalsBounded StoredSpansGraphed CausesResolve
SYMMETRY HandlerSymmetry
