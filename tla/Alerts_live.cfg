\* Two overlapping ticks over two rules, one with a query that never answers.
SPECIFICATION FairSpec
CONSTANTS
    Rules = {r1, r2}
    Ticks = {t1, t2}
    Workers = {w1}
    Editors = {}
    RuleInputs <- OneInput
    Patches <- NoPatches
    Values = {1, 2}
    Stuck = {r2}
    MaxFaults = 1
    MaxDeletes = 0
PROPERTIES StateCatchesUp
