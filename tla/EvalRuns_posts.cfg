\* Three posts and two creations of one run, over two cases, with a fault.
SPECIFICATION EvalSpec
CONSTANTS
    Cases = {k1, k2}
    Runs = {r1}
    Posts = {p1, p2, p3}
    Creators = {c1, c2}
    Claims = {0, 2}
    MaxFaults = 1
    NoId = NoId
CHECK_DEADLOCK FALSE
SYMMETRY Symmetry
INVARIANTS AnsweredIsCounted
PROPERTIES CountsGrow
