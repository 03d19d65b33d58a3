\* Two profiles with room for one in a listing, and one table of each kind.
SPECIFICATION Spec
CONSTANTS
    Profiles = {p1, p2}
    IsoTables = {spans}
    SqlTables = {logs}
    Retention = 1
    TicksPerDay = 2
    Limit = 1
    MaxRecords = 1
    MaxTime = 3
    MaxFaults = 1
CHECK_DEADLOCK FALSE
INVARIANTS RowHasBlob NoOrphans
PROPERTIES NeverEarly ExpiredGoes
