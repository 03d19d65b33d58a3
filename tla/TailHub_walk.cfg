\* Three subscriptions, two at a time, for the published topic or not, and two
\* overlapping broadcasts.
SPECIFICATION FairSpec
CONSTANTS
    Topics = {span}
    Interests = {{span}, {}}
    MaxSubscribers = 2
    MaxSubs = 3
    MaxCasts = 2
    MaxBeats = 1
CHECK_DEADLOCK FALSE
INVARIANTS Complete InOrder
PROPERTIES PublishReturns
