\* Two overlapping cron ticks under fairness: leases expire, due analyses run.
SPECIFICATION FairSpec
CONSTANTS
    Analyses = {a1}
    Scheduled = {a1}
    PageViews = {}
    LlmConfigured = FALSE
    Ticks = {t1, t2}
    Workers = {w1}
    Requests = {}
    Refresh = 1
    Lease = 1
    Retention = 2
    StartTime = 2
    MaxTime = 4
    MaxFaults = 2
    NULL = NULL
PROPERTIES LeaseReclaimed FirstRunHappens
