\* Two requests, two keys and a cache of one entry that lives two ticks.
SPECIFICATION Spec
CONSTANTS
    Keys = {legacy, k1}
    EnvKey = legacy
    Requests = {r1, r2}
    KeyTtl = 2
    MaxEntries = 1
    MaxTime = 3
    MaxFaults = 1
SYMMETRY Symmetry
INVARIANTS RevocationTakesHold LegacyKeyWorks
