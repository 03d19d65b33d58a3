\* Two overlapping ticks, one rule, a fault, an edit and a delete.
SPECIFICATION Spec
CONSTANTS
    Rules = {r1}
    Ticks = {t1, t2}
    Workers = {w1}
    Editors = {e1}
    RuleInputs <- TwoInputs
    Patches <- TwoPatches
    Values = {0, 1, 2}
    Stuck = {}
    MaxFaults = 1
    MaxDeletes = 1
SYMMETRY Symmetry
INVARIANTS TypeOK Alternates StateIsLastNotice
