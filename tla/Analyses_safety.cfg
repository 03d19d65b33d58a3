\* Two overlapping cron ticks and an on-demand request on one analysis.
SPECIFICATION Spec
CONSTANTS
    Analyses = {a1}
    Scheduled = {a1}
    PageViews = {a1}
    LlmConfigured = TRUE
    Ticks = {t1, t2}
    Workers = {w1}
    Requests = {r1}
    Refresh = 1
    Lease = 1
    Retention = 9
    StartTime = 2
    MaxTime = 4
    MaxFaults = 1
    NULL = NULL
SYMMETRY Symmetry
INVARIANTS TypeOK ExclusiveRun RanOnlyAfterResult
PROPERTIES LastRunForward
