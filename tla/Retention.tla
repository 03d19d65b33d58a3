------------------------------ MODULE Retention -----------------------------
(***************************************************************************)
(* Continuous profiles (profile-routes.ts) and the hourly retention        *)
(* cleanup (createRetentionCleanupHandler of framework/collector.ts).      *)
(*                                                                         *)
(* An upload writes a blob, then a row that names it, then the index of    *)
(* its traces, without a transaction.  The cleanup deletes the expired     *)
(* rows of the telemetry tables concurrently; if all of that succeeds it   *)
(* lists expired profiles up to a limit, deletes their blobs, and deletes  *)
(* the rows of whatever is expired by then.                                *)
(*                                                                         *)
(* Expiry times are ISO strings.  SQLite's datetime('now') has a space     *)
(* where they have a T, so a string comparison with it tells days apart    *)
(* and nothing finer; with TicksPerDay = 1 the comparison is exact, as it  *)
(* is for the tables that are compared with toISOString().  The host is    *)
(* the Worker: the Node host runs no retention cleanup.                    *)
(***************************************************************************)
EXTENDS Integers, FiniteSets

CONSTANTS
    Profiles,        \* uploads that may be made
    IsoTables,       \* tables purged with expires_at <= toISOString()
    SqlTables,       \* tables purged with expires_at < dialect.now()
    Retention,       \* RETENTION_HOURS, in ticks
    TicksPerDay,
    Limit,           \* the LIMIT of the cleanup's SELECT
    MaxRecords,      \* bound: expiry times in a telemetry table
    MaxTime,         \* bound: the clock
    MaxFaults        \* bound: calls that fail

ASSUME RetentionAssumption ==
    /\ Retention \in Nat /\ TicksPerDay \in Nat \ {0} /\ Limit \in Nat \ {0}
    /\ MaxRecords \in Nat /\ MaxTime \in Nat /\ MaxFaults \in Nat
    /\ IsFiniteSet(Profiles)
    /\ IsoTables \cap SqlTables = {}

Tables == IsoTables \cup SqlTables
None == -1

VARIABLES
    now,      \* the clock
    upload,   \* where the upload of each profile is
    expires,  \* expires_at the upload computed
    blob,     \* objects of PROFILES_BUCKET
    row,      \* rows of profile_blobs
    index,    \* profiles with rows in profile_trace_index
    table,    \* expiry times of the records in each telemetry table
    cleanup,  \* position of the cleanup
    todo,     \* tables whose DELETE is issued and not executed
    listed,   \* profiles whose blob the cleanup still has to delete
    faults,   \* calls that failed so far
    overrun   \* history: a cleanup met more than Limit, or lasted a tick, or an
              \* upload lasted so long that its row was expired from the start

profiles == <<upload, expires, blob, row, index>>
purge == <<cleanup, todo, listed, overrun>>
vars == <<now, profiles, table, purge, faults>>

Init ==
    /\ now = 0
    /\ upload = [p \in Profiles |-> "new"]
    /\ expires = [p \in Profiles |-> None]
    /\ blob = {} /\ row = {} /\ index = {}
    /\ table = [t \in Tables |-> {}]
    /\ cleanup = "idle" /\ todo = {} /\ listed = {}
    /\ faults = 0
    /\ overrun = FALSE

-----------------------------------------------------------------------------
Day(t) == t \div TicksPerDay

\* expires_at < datetime('now'), on strings.
SqlExpired(e) == Day(e) < Day(now)

\* expires_at <= new Date().toISOString().
IsoExpired(e) == e <= now

\* Rows the cleanup's SELECT and DELETE take for expired.
ExpiredRows == {p \in row : SqlExpired(expires[p])}

Fault == faults < MaxFaults /\ faults' = faults + 1

\* Mutant of Put: the row is written first.
PutLast(p) ==
    /\ upload[p] = "new"
    /\ upload' = [upload EXCEPT ![p] = "put"]
    /\ expires' = [expires EXCEPT ![p] = now + Retention]
    /\ row' = row \cup {p}
    /\ UNCHANGED <<now, blob, index, table, purge, faults>>

\* POST /v1/profiles/pprof: the blob is stored; expires_at counts from now.
Put(p) ==
    /\ upload[p] = "new"
    /\ upload' = [upload EXCEPT ![p] = "put"]
    /\ expires' = [expires EXCEPT ![p] = now + Retention]
    /\ blob' = blob \cup {p}
    /\ UNCHANGED <<now, row, index, table, purge, faults>>

InsertRow(p) ==
    /\ upload[p] = "put"
    /\ upload' = [upload EXCEPT ![p] = "row"]
    /\ row' = row \cup {p}
    /\ overrun' = (overrun \/ SqlExpired(expires[p]))
    /\ UNCHANGED <<now, expires, blob, index, table, cleanup, todo, listed, faults>>

\* The index batch: refused by the foreign key when the row is gone already.
InsertIndex(p) ==
    /\ upload[p] = "row"
    /\ upload' = [upload EXCEPT ![p] = "done"]
    /\ index' = IF p \in row THEN index \cup {p} ELSE index
    /\ UNCHANGED <<now, expires, blob, row, table, purge, faults>>

\* A call of the upload throws, or the process ends: nothing is undone.
UploadFails(p) ==
    /\ upload[p] \in {"put", "row"}
    /\ Fault
    /\ upload' = [upload EXCEPT ![p] = "failed"]
    /\ UNCHANGED <<now, expires, blob, row, index, table, purge>>

\* A receiver stores a record in a telemetry table.
Record(t) ==
    /\ Cardinality(table[t]) < MaxRecords
    /\ table' = [table EXCEPT ![t] = @ \cup {now + Retention}]
    /\ UNCHANGED <<now, profiles, purge, faults>>

-----------------------------------------------------------------------------
\* The cron fires: the DELETEs of all stores are issued together.
CleanupStarts ==
    /\ cleanup = "idle"
    /\ cleanup' = "tables"
    /\ todo' = Tables
    /\ UNCHANGED <<now, profiles, table, listed, overrun, faults>>

\* Mutant of Purged: a whole day counts as expired when it begins.
PurgedEarly(t) ==
    {e \in table[t] : IF t \in IsoTables THEN IsoExpired(e) ELSE Day(e) <= Day(now)}

\* What purgeExpired of table t deletes.
Purged(t) == {e \in table[t] : IF t \in IsoTables THEN IsoExpired(e) ELSE SqlExpired(e)}

\* purgeExpired of one store; Promise.all resolves with the last one.  The
\* DELETEs of a cleanup that was given up still execute.
PurgeTable(t) ==
    /\ t \in todo
    /\ todo' = todo \ {t}
    /\ table' = [table EXCEPT ![t] = @ \ Purged(t)]
    /\ cleanup' = IF cleanup = "tables" /\ todo' = {} THEN "select" ELSE cleanup
    /\ UNCHANGED <<now, profiles, listed, overrun, faults>>

\* One of them rejects: the handler throws, and profiles wait for the next run.
PurgeTableFails(t) ==
    /\ t \in todo
    /\ Fault
    /\ todo' = todo \ {t}
    /\ cleanup' = IF cleanup = "tables" THEN "idle" ELSE cleanup
    /\ UNCHANGED <<now, profiles, table, listed, overrun>>

\* SELECT id, blob_url ... LIMIT: any Limit of the expired rows.
SelectExpired ==
    /\ cleanup = "select"
    /\ cleanup' = "blobs"
    /\ \E some \in SUBSET ExpiredRows :
        /\ Cardinality(some) = IF Cardinality(ExpiredRows) > Limit
                               THEN Limit ELSE Cardinality(ExpiredRows)
        /\ listed' = some
    /\ overrun' = (overrun \/ Cardinality(ExpiredRows) > Limit)
    /\ UNCHANGED <<now, profiles, table, todo, faults>>

\* PROFILES_BUCKET.delete, under Promise.allSettled.
DeleteBlob(p) ==
    /\ cleanup = "blobs" /\ p \in listed
    /\ listed' = listed \ {p}
    /\ blob' = blob \ {p}
    /\ UNCHANGED <<now, upload, expires, row, index, table, cleanup, todo, overrun, faults>>

DeleteBlobFails(p) ==
    /\ cleanup = "blobs" /\ p \in listed
    /\ Fault
    /\ listed' = listed \ {p}
    /\ UNCHANGED <<now, profiles, table, cleanup, todo, overrun>>

\* Mutants of DeletedRows: compared exactly, unlike the SELECT; found through
\* the trace index.
DeletedRowsIso == {p \in row : IsoExpired(expires[p])}
DeletedRowsIndexed == ExpiredRows \cap index

\* DELETE FROM profile_blobs: what is expired now, listed or not.
DeletedRows == ExpiredRows

\* The rows go, and their index entries by cascade.
DeleteRows ==
    /\ cleanup = "blobs" /\ listed = {}
    /\ cleanup' = "idle"
    /\ row' = row \ DeletedRows
    /\ index' = index \ DeletedRows
    /\ UNCHANGED <<now, upload, expires, blob, table, todo, listed, overrun, faults>>

\* The SELECT or the DELETE throws: caught and logged.
CleanupFails ==
    /\ cleanup \in {"select", "blobs"} /\ listed = {}
    /\ Fault
    /\ cleanup' = "idle"
    /\ UNCHANGED <<now, profiles, table, todo, listed, overrun>>

-----------------------------------------------------------------------------
Tick ==
    /\ now < MaxTime
    /\ now' = now + 1
    /\ overrun' = (overrun \/ cleanup = "blobs")
    /\ UNCHANGED <<profiles, table, cleanup, todo, listed, faults>>

Cleanup ==
    \/ CleanupStarts \/ SelectExpired \/ DeleteRows \/ CleanupFails
    \/ \E t \in Tables : PurgeTable(t) \/ PurgeTableFails(t)
    \/ \E p \in Profiles : DeleteBlob(p) \/ DeleteBlobFails(p)

Next ==
    \/ \E p \in Profiles :
        \/ Put(p) \/ InsertRow(p) \/ InsertIndex(p) \/ UploadFails(p)
    \/ \E t \in Tables : Record(t)
    \/ Cleanup
    \/ Tick

\* The cron keeps firing and a cleanup goes on.
Spec == Init /\ [][Next]_vars /\ WF_vars(Cleanup)

-----------------------------------------------------------------------------
\* Every piece has its type, and what is indexed has a row.
TypeOK ==
    /\ now \in 0..MaxTime /\ faults \in 0..MaxFaults /\ overrun \in BOOLEAN
    /\ upload \in [Profiles -> {"new", "put", "row", "done", "failed"}]
    /\ expires \in [Profiles -> {None} \cup Nat]
    /\ blob \subseteq Profiles /\ index \subseteq row /\ row \subseteq Profiles
    /\ table \in [Tables -> SUBSET Nat]
    /\ cleanup \in {"idle", "tables", "select", "blobs"}
    /\ todo \subseteq Tables /\ listed \subseteq row /\ Cardinality(listed) <= Limit

\* A row names a blob that exists until the profile has expired: GET
\* /internal/profiles/:id?blob=true, which reads the row and then the blob, says
\* "Blob not found in storage" only of a profile past its retention.
RowHasBlob == \A p \in row : p \notin blob => IsoExpired(expires[p])

\* When nothing fails, no cleanup meets more than Limit expired profiles, no
\* time passes inside one and no upload outlasts the retention, every blob keeps
\* the row that names it: nothing is left in the bucket that no cleanup will
\* ever find.
NoOrphans ==
    faults = 0 /\ ~overrun =>
        \A p \in blob : upload[p] # "put" => p \in row

\* No record and no profile row is deleted before its expiry time, whichever of
\* the two comparisons its store uses.
NeverEarly ==
    [][/\ \A p \in row \ row' : IsoExpired(expires[p])
       /\ \A t \in Tables : \A e \in table[t] \ table'[t] : IsoExpired(e)]_vars

\* What has expired is deleted in the end, although a failing table keeps a
\* cleanup from reaching the profiles and a record is added meanwhile.
ExpiredGoes ==
    /\ \A p \in Profiles : (p \in ExpiredRows) ~> (p \notin row)
    /\ \A t \in Tables : (Purged(t) # {}) ~> (Purged(t) = {})
=============================================================================
