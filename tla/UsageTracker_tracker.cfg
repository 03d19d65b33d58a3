SPECIFICATION Spec
CONSTANTS
    Idle = 1
    HardCap = 2
    FlushAt = 3
    Paths = {p1}
    MaxTime = 4
    MaxEvents = 4
INVARIANTS SessionBounded OncePerSession OneRecorder ReplayInOrder PageViewOnce
