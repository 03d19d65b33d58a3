---------------------------- MODULE RetentionProof ---------------------------
(***************************************************************************)
(* Proofs about Retention for every set of profiles and tables, every      *)
(* retention and every length of a day: nothing is deleted early, a row    *)
(* outlives its blob only once expired, and an undisturbed cleanup leaves  *)
(* no blob without its row.                                                *)
(***************************************************************************)
EXTENDS Retention, FiniteSetTheorems, TLAPS

(***************************************************************************)
(* Where an upload stands tells what there is of it, until a cleanup has   *)
(* been there: nothing, a blob, a blob and a row.                          *)
(***************************************************************************)
Uploads ==
    \A p \in Profiles :
        /\ upload[p] = "new" => p \notin blob /\ p \notin row
        /\ upload[p] = "put" => p \in blob /\ p \notin row
        /\ upload[p] # "new" => expires[p] \in Nat

\* The cleanup lists expired rows only, and lists nothing between its runs.
Listing ==
    /\ cleanup # "blobs" => listed = {}
    /\ \A p \in listed : SqlExpired(expires[p])

\* Only an expired row can be without its blob.
BlobsGoLate == \A p \in row : p \notin blob => SqlExpired(expires[p])

(***************************************************************************)
(* When nothing disturbs it, the cleanup about to delete the rows has      *)
(* every expired blob still on its list.                                   *)
(***************************************************************************)
AllListed ==
    faults = 0 /\ ~overrun /\ cleanup = "blobs" => ExpiredRows \cap blob \subseteq listed

RetentionInv == TypeOK /\ Uploads /\ Listing /\ BlobsGoLate /\ AllListed /\ NoOrphans

-----------------------------------------------------------------------------
\* Days do not run backwards.
LEMMA DayMonotone == ASSUME NEW a \in Nat, NEW b \in Nat, a <= b PROVE Day(a) <= Day(b)
<1>1. TicksPerDay \in Nat \ {0}
  BY RetentionAssumption
<1> QED BY <1>1 DEF Day

\* A day is a number.
LEMMA DayType == \A t \in Nat : Day(t) \in Nat
<1>1. TicksPerDay \in Nat \ {0}
  BY RetentionAssumption
<1> QED BY <1>1 DEF Day

\* What the comparison by days takes for expired has expired, and stays so.
LEMMA SqlIsLate ==
    ASSUME NEW e \in Nat, now \in Nat, SqlExpired(e)
    PROVE  IsoExpired(e) /\ (now' \in Nat /\ now <= now' => SqlExpired(e)')
<1>1. Day(e) < Day(now) /\ Day(e) \in Nat /\ Day(now) \in Nat
  BY DayType DEF SqlExpired
<1>2. IsoExpired(e)
  <2>1. now <= e => Day(now) <= Day(e)
    BY DayMonotone
  <2> QED BY <1>1, <2>1 DEF IsoExpired
<1>3. ASSUME now' \in Nat, now <= now' PROVE Day(e) < Day(now')
  <2>1. Day(now) <= Day(now') /\ Day(now') \in Nat
    BY <1>3, DayMonotone, DayType
  <2> QED BY <1>1, <2>1
<1> QED BY <1>2, <1>3 DEF SqlExpired

\* What a SELECT with a limit can list.
LEMMA SelectFacts ==
    ASSUME TypeOK, SelectExpired
    PROVE  /\ listed' \subseteq ExpiredRows /\ Cardinality(listed') <= Limit
           /\ overrun' \in BOOLEAN
           /\ ~overrun' => ~overrun /\ listed' = ExpiredRows
<1>1. /\ listed' \in SUBSET ExpiredRows
      /\ Cardinality(listed') = IF Cardinality(ExpiredRows) > Limit
                                THEN Limit ELSE Cardinality(ExpiredRows)
  BY DEF SelectExpired
<1>2. /\ overrun' \in BOOLEAN
      /\ ~overrun' => ~overrun /\ ~(Cardinality(ExpiredRows) > Limit)
  BY Zenon DEF SelectExpired
<1>3. IsFiniteSet(ExpiredRows)
  <2>1. ExpiredRows \in SUBSET Profiles
    BY DEF ExpiredRows, TypeOK
  <2> QED BY <2>1, FS_Subset, RetentionAssumption
<1>4. /\ Cardinality(ExpiredRows) \in Nat
      /\ Cardinality(ExpiredRows) = Cardinality(listed') => listed' = ExpiredRows
  BY <1>1, <1>3, FS_Subset, FS_CardinalityType
<1> QED BY <1>1, <1>2, <1>4, RetentionAssumption

\* Taking a profile off the list keeps the list within the limit.
LEMMA ListShrinks ==
    ASSUME TypeOK, NEW p, listed' = listed \ {p}
    PROVE  Cardinality(listed') <= Limit
<1>1. IsFiniteSet(listed)
  <2>1. listed \in SUBSET Profiles
    BY DEF TypeOK
  <2> QED BY <2>1, FS_Subset, RetentionAssumption
<1>2. Cardinality(listed \ {p}) <= Cardinality(listed) /\ Cardinality(listed) \in Nat
      /\ Cardinality(listed \ {p}) \in Nat
  <2>1. listed \ {p} \in SUBSET listed
    OBVIOUS
  <2> QED BY <1>1, <2>1, FS_Subset, FS_CardinalityType
<1> QED BY <1>2, RetentionAssumption DEF TypeOK

\* Every step keeps the types.
LEMMA TypeStep == ASSUME TypeOK, Uploads, Listing, [Next]_vars PROVE TypeOK'
<1> USE RetentionAssumption
<1>1. ASSUME NEW p \in Profiles, Put(p) \/ InsertRow(p) \/ InsertIndex(p) \/ UploadFails(p)
      PROVE  TypeOK'
  <2>1. CASE Put(p)
    BY <2>1 DEF Put, TypeOK, purge
  <2>2. CASE InsertRow(p)
    BY <2>2 DEF InsertRow, TypeOK
  <2>3. CASE InsertIndex(p)
    BY <2>3 DEF InsertIndex, TypeOK, purge
  <2>4. CASE UploadFails(p)
    BY <2>4 DEF UploadFails, Fault, TypeOK, purge
  <2> QED BY <1>1, <2>1, <2>2, <2>3, <2>4
<1>2. ASSUME NEW t \in Tables, Record(t) PROVE TypeOK'
  BY <1>2 DEF Record, TypeOK, profiles, purge
<1>3. CASE CleanupStarts
  BY <1>3 DEF CleanupStarts, TypeOK, profiles
<1>4. ASSUME NEW t \in Tables, PurgeTable(t) PROVE TypeOK'
  BY <1>4 DEF PurgeTable, TypeOK, profiles
<1>5. ASSUME NEW t \in Tables, PurgeTableFails(t) PROVE TypeOK'
  BY <1>5 DEF PurgeTableFails, Fault, TypeOK, profiles
<1>6. CASE SelectExpired
  BY <1>6, SelectFacts DEF SelectExpired, ExpiredRows, TypeOK, profiles
<1>7. ASSUME NEW p \in Profiles, DeleteBlob(p) PROVE TypeOK'
  BY <1>7, ListShrinks DEF DeleteBlob, TypeOK
<1>8. ASSUME NEW p \in Profiles, DeleteBlobFails(p) PROVE TypeOK'
  <2>1. Cardinality(listed') <= Limit
    BY <1>8, ListShrinks DEF DeleteBlobFails
  <2> QED BY <1>8, <2>1 DEF DeleteBlobFails, Fault, TypeOK, profiles
<1>9. CASE DeleteRows
  BY <1>9 DEF DeleteRows, TypeOK
<1>10. CASE CleanupFails
  BY <1>10 DEF CleanupFails, Fault, TypeOK, profiles
<1>11. CASE Tick
  BY <1>11 DEF Tick, TypeOK, profiles
<1>12. CASE UNCHANGED vars
  BY <1>12 DEF vars, profiles, purge, TypeOK
<1> QED BY <1>1, <1>2, <1>3, <1>4, <1>5, <1>6, <1>7, <1>8, <1>9, <1>10, <1>11, <1>12 DEF Next, Cleanup

\* Every step keeps what an upload's position says of it.
LEMMA UploadsStep == ASSUME TypeOK, Uploads, Listing, [Next]_vars PROVE Uploads'
<1>1. ASSUME NEW p \in Profiles, Put(p) PROVE Uploads'
  <2>1. now + Retention \in Nat
    BY RetentionAssumption DEF TypeOK
  <2> QED BY <1>1, <2>1 DEF Put, Uploads, TypeOK
<1>2. ASSUME NEW p \in Profiles, InsertRow(p) \/ InsertIndex(p) \/ UploadFails(p)
      PROVE  Uploads'
  BY <1>2 DEF InsertRow, InsertIndex, UploadFails, Uploads, TypeOK
<1>3. ASSUME NEW p \in Profiles, DeleteBlob(p) PROVE Uploads'
  BY <1>3 DEF DeleteBlob, Uploads, TypeOK
<1>4. CASE DeleteRows
  BY <1>4 DEF DeleteRows, Uploads
<1>5. CASE UNCHANGED profiles
  BY <1>5 DEF profiles, Uploads
<1>6. \/ \E p \in Profiles : \/ Put(p) \/ InsertRow(p) \/ InsertIndex(p) \/ UploadFails(p)
                              \/ DeleteBlob(p)
      \/ DeleteRows \/ UNCHANGED profiles
  BY DEF Next, Cleanup, vars, Record, CleanupStarts, PurgeTable, PurgeTableFails, SelectExpired,
     DeleteBlobFails, CleanupFails, Tick
<1> QED BY <1>1, <1>2, <1>3, <1>4, <1>5, <1>6

\* No step sets the clock back, none but an upload's first sets an expiry time.
LEMMA TimesStep ==
    ASSUME TypeOK, Uploads, [Next]_vars
    PROVE  /\ now \in Nat /\ now' \in Nat /\ now <= now'
           /\ \A p \in Profiles : upload[p] # "new" => expires'[p] = expires[p]
<1>1. now \in Nat /\ now' \in {now, now + 1}
  BY DEF TypeOK, Next, Cleanup, vars, Put, InsertRow, InsertIndex, UploadFails, Record,
     CleanupStarts, PurgeTable, PurgeTableFails, SelectExpired, DeleteBlob, DeleteBlobFails,
     DeleteRows, CleanupFails, Tick
<1>2. ASSUME NEW p \in Profiles, Put(p)
      PROVE  \A q \in Profiles : upload[q] # "new" => expires'[q] = expires[q]
  BY <1>2 DEF Put, TypeOK
<1>3. expires' = expires \/ \E p \in Profiles : Put(p)
  BY DEF Next, Cleanup, vars, profiles, InsertRow, InsertIndex, UploadFails, Record,
     CleanupStarts, PurgeTable, PurgeTableFails, SelectExpired, DeleteBlob, DeleteBlobFails,
     DeleteRows, CleanupFails, Tick
<1> QED BY <1>1, <1>2, <1>3

\* What was expired by days in one state is so in the next.
LEMMA StaysExpired ==
    ASSUME TypeOK, Uploads, [Next]_vars, NEW p \in Profiles, upload[p] # "new",
           SqlExpired(expires[p])
    PROVE  SqlExpired(expires[p])'
<1>1. expires[p] \in Nat /\ expires'[p] = expires[p] /\ now \in Nat /\ now' \in Nat /\ now <= now'
  BY TimesStep DEF Uploads
<1>2. Day(expires[p]) < Day(now')
  BY <1>1, SqlIsLate DEF SqlExpired
<1> QED BY <1>1, <1>2 DEF SqlExpired

\* Every step keeps the list expired, and lets a blob go before its row only
\* from the list.
LEMMA ListingStep ==
    ASSUME TypeOK, Uploads, Listing, BlobsGoLate, [Next]_vars
    PROVE  Listing' /\ BlobsGoLate'
<1>0. \A p \in Profiles : upload[p] # "new" /\ SqlExpired(expires[p]) => SqlExpired(expires[p])'
  BY StaysExpired
<1>1. row \subseteq Profiles /\ listed \subseteq row /\ \A p \in row : upload[p] # "new"
  BY DEF TypeOK, Uploads
<1>2. \A p \in listed : SqlExpired(expires[p])'
  BY <1>0, <1>1 DEF Listing
<1>3. \A p \in row : p \notin blob => SqlExpired(expires[p])'
  BY <1>0, <1>1 DEF BlobsGoLate
<1>4. CASE SelectExpired
  <2>1. listed' \subseteq ExpiredRows /\ cleanup' = "blobs" /\ row' = row /\ blob' = blob
    BY <1>4, SelectFacts DEF SelectExpired, profiles
  <2>2. \A p \in ExpiredRows : SqlExpired(expires[p])'
    BY <1>0, <1>1 DEF ExpiredRows
  <2> QED BY <1>3, <2>1, <2>2 DEF Listing, BlobsGoLate
<1>5. ASSUME NEW p \in Profiles, InsertRow(p) PROVE Listing' /\ BlobsGoLate'
  <2>1. /\ row' = row \cup {p} /\ blob' = blob /\ p \in blob
        /\ cleanup' = cleanup /\ listed' = listed
    BY <1>5 DEF InsertRow, Uploads
  <2> QED BY <1>2, <1>3, <2>1 DEF Listing, BlobsGoLate
<1>6. ASSUME NEW p \in Profiles, DeleteBlob(p) PROVE Listing' /\ BlobsGoLate'
  <2>1. /\ row' = row /\ blob' = blob \ {p} /\ p \in listed /\ cleanup' = "blobs"
        /\ listed' = listed \ {p}
    BY <1>6 DEF DeleteBlob
  <2> QED BY <1>2, <1>3, <2>1 DEF Listing, BlobsGoLate
<1>7. CASE /\ row' \subseteq row /\ blob \subseteq blob' /\ listed' \subseteq listed
           /\ cleanup' # "blobs" => listed' = {}
  BY <1>2, <1>3, <1>7 DEF Listing, BlobsGoLate
<1>8. \/ SelectExpired \/ \E p \in Profiles : InsertRow(p) \/ DeleteBlob(p)
      \/ /\ row' \subseteq row /\ blob \subseteq blob' /\ listed' \subseteq listed
         /\ cleanup' # "blobs" => listed' = {}
  <2>1. ASSUME NEW p \in Profiles, Put(p) \/ InsertIndex(p) \/ UploadFails(p) \/ DeleteBlobFails(p)
        PROVE  /\ row' \subseteq row /\ blob \subseteq blob' /\ listed' \subseteq listed
               /\ cleanup' # "blobs" => listed' = {}
    BY <2>1 DEF Put, InsertIndex, UploadFails, DeleteBlobFails, Listing, purge, profiles
  <2>2. ASSUME NEW t \in Tables, Record(t) \/ PurgeTable(t) \/ PurgeTableFails(t)
        PROVE  /\ row' \subseteq row /\ blob \subseteq blob' /\ listed' \subseteq listed
               /\ cleanup' # "blobs" => listed' = {}
    BY <2>2 DEF Record, PurgeTable, PurgeTableFails, Listing, purge, profiles
  <2>3. CASE CleanupStarts \/ DeleteRows \/ CleanupFails \/ Tick \/ UNCHANGED vars
    BY <2>3 DEF CleanupStarts, DeleteRows, CleanupFails, Tick, vars, Listing, purge, profiles
  <2> QED BY <2>1, <2>2, <2>3 DEF Next, Cleanup
<1> QED BY <1>4, <1>5, <1>6, <1>7, <1>8

\* Every step that does not disturb the cleanup keeps what is expired and has
\* its blob on the list, and every other blob with its row.
LEMMA OrphansStep ==
    ASSUME RetentionInv, TypeOK', [Next]_vars
    PROVE  AllListed' /\ NoOrphans'
<1> DEFINE Quiet == faults = 0 /\ ~overrun
<1>0. /\ blob \subseteq Profiles /\ row \subseteq Profiles /\ faults \in Nat /\ overrun \in BOOLEAN
      /\ Quiet => \A p \in blob : upload[p] # "put" => p \in row
      /\ Quiet /\ cleanup = "blobs" => ExpiredRows \cap blob \subseteq listed
  BY DEF RetentionInv, TypeOK, NoOrphans, AllListed
<1> USE DEF AllListed, NoOrphans
<1>1. ASSUME NEW p \in Profiles, Put(p) PROVE AllListed' /\ NoOrphans'
  <2>1. /\ blob' = blob \cup {p} /\ row' = row /\ p \notin row /\ now' = now
        /\ upload' = [upload EXCEPT ![p] = "put"] /\ UNCHANGED <<cleanup, listed, overrun, faults>>
        /\ expires' = [expires EXCEPT ![p] = now + Retention]
    BY <1>1 DEF Put, purge, RetentionInv, Uploads
  <2>2. \A q \in row : expires'[q] = expires[q]
    BY <1>0, <2>1 DEF RetentionInv, TypeOK
  <2>3. ExpiredRows' = ExpiredRows /\ p \notin ExpiredRows
    BY <2>1, <2>2 DEF ExpiredRows, SqlExpired
  <2>4. \A q \in blob' : upload'[q] # "put" => q \in blob /\ upload[q] # "put"
    BY <1>0, <2>1 DEF RetentionInv, TypeOK
  <2> QED BY <1>0, <2>1, <2>3, <2>4
<1>2. ASSUME NEW p \in Profiles, InsertRow(p) PROVE AllListed' /\ NoOrphans'
  <2>1. /\ blob' = blob /\ row' = row \cup {p} /\ now' = now /\ expires' = expires
        /\ upload' = [upload EXCEPT ![p] = "row"] /\ UNCHANGED <<cleanup, listed, faults>>
        /\ ~overrun' => ~overrun /\ ~SqlExpired(expires[p])
    BY <1>2, Zenon DEF InsertRow
  <2>2. ~overrun' => ExpiredRows' = ExpiredRows
    BY <2>1 DEF ExpiredRows, SqlExpired
  <2>3. \A q \in blob : upload'[q] # "put" => q = p \/ upload[q] # "put"
    BY <1>0, <2>1 DEF RetentionInv, TypeOK
  <2> QED BY <1>0, <2>1, <2>2, <2>3
<1>3. ASSUME NEW p \in Profiles, InsertIndex(p) PROVE AllListed' /\ NoOrphans'
  <2>1. /\ UNCHANGED <<blob, row, now, expires, cleanup, listed, faults, overrun>>
        /\ upload[p] = "row" /\ upload' = [upload EXCEPT ![p] = "done"]
    BY <1>3 DEF InsertIndex, purge
  <2>2. ExpiredRows' = ExpiredRows
    BY <2>1 DEF ExpiredRows, SqlExpired
  <2>3. \A q \in blob : upload'[q] # "put" => upload[q] # "put"
    BY <1>0, <2>1 DEF RetentionInv, TypeOK
  <2> QED BY <1>0, <2>1, <2>2, <2>3
<1>4. CASE Fault
  <2>1. faults' # 0
    BY <1>0, <1>4 DEF Fault
  <2> QED BY <2>1
<1>5. CASE SelectExpired
  <2>1. /\ UNCHANGED <<blob, row, now, expires, upload, faults>>
        /\ ~overrun' => ~overrun /\ listed' = ExpiredRows
    BY <1>5, SelectFacts DEF SelectExpired, profiles, RetentionInv
  <2>2. ExpiredRows' = ExpiredRows
    BY <2>1 DEF ExpiredRows, SqlExpired
  <2> QED BY <1>0, <2>1, <2>2
<1>6. ASSUME NEW p \in Profiles, DeleteBlob(p) PROVE AllListed' /\ NoOrphans'
  <2>1. /\ UNCHANGED <<row, now, expires, upload, cleanup, faults, overrun>>
        /\ cleanup = "blobs" /\ blob' = blob \ {p} /\ listed' = listed \ {p}
    BY <1>6 DEF DeleteBlob
  <2>2. ExpiredRows' = ExpiredRows
    BY <2>1 DEF ExpiredRows, SqlExpired
  <2> QED BY <1>0, <2>1, <2>2
<1>7. CASE DeleteRows
  <2>1. /\ UNCHANGED <<blob, upload, faults, overrun>> /\ cleanup = "blobs" /\ listed = {}
        /\ cleanup' = "idle" /\ row' = row \ ExpiredRows
    BY <1>7 DEF DeleteRows, DeletedRows
  <2> QED BY <1>0, <2>1
<1>8. CASE Tick
  <2>1. /\ UNCHANGED <<blob, row, upload, faults, cleanup>>
        /\ ~overrun' => ~overrun /\ cleanup # "blobs"
    BY <1>8, Zenon DEF Tick, profiles
  <2> QED BY <1>0, <2>1
<1>9. CASE /\ UNCHANGED <<blob, row, now, expires, upload, faults, overrun, listed>>
           /\ cleanup' = "blobs" => cleanup = "blobs"
  <2>1. ExpiredRows' = ExpiredRows
    BY <1>9 DEF ExpiredRows, SqlExpired
  <2> QED BY <1>0, <1>9, <2>1
<1>10. \/ \E p \in Profiles : Put(p) \/ InsertRow(p) \/ InsertIndex(p) \/ DeleteBlob(p)
       \/ Fault \/ SelectExpired \/ DeleteRows \/ Tick
       \/ /\ UNCHANGED <<blob, row, now, expires, upload, faults, overrun, listed>>
          /\ cleanup' = "blobs" => cleanup = "blobs"
  <2>1. ASSUME NEW t \in Tables, Record(t) \/ PurgeTable(t)
        PROVE  /\ UNCHANGED <<blob, row, now, expires, upload, faults, overrun, listed>>
               /\ cleanup' = "blobs" => cleanup = "blobs"
    BY <2>1 DEF Record, PurgeTable, purge, profiles
  <2>2. CASE CleanupStarts \/ UNCHANGED vars
    BY <2>2 DEF CleanupStarts, vars, purge, profiles
  <2> QED BY <2>1, <2>2 DEF Next, Cleanup, UploadFails, PurgeTableFails, DeleteBlobFails, CleanupFails
<1> QED BY <1>1, <1>2, <1>3, <1>4, <1>5, <1>6, <1>7, <1>8, <1>9, <1>10

-----------------------------------------------------------------------------
\* The invariant holds in every execution.
THEOREM RetentionInvariant == Spec => []RetentionInv
<1>1. Init => RetentionInv
  <2> SUFFICES ASSUME Init PROVE RetentionInv
    OBVIOUS
  <2>1. overrun \in BOOLEAN
    BY Zenon DEF Init
  <2>2. TypeOK
    BY <2>1, RetentionAssumption, FS_EmptySet DEF Init, TypeOK
  <2>3. Uploads /\ Listing /\ BlobsGoLate /\ AllListed /\ NoOrphans
    BY DEF Init, Uploads, Listing, BlobsGoLate, AllListed, NoOrphans
  <2> QED BY <2>2, <2>3 DEF RetentionInv
<1>2. RetentionInv /\ [Next]_vars => RetentionInv'
  <2> SUFFICES ASSUME RetentionInv, [Next]_vars PROVE RetentionInv'
    OBVIOUS
  <2>1. TypeOK' /\ Uploads' /\ Listing' /\ BlobsGoLate'
    BY TypeStep, UploadsStep, ListingStep DEF RetentionInv
  <2> QED BY <2>1, OrphansStep DEF RetentionInv
<1> QED BY <1>1, <1>2, PTL DEF Spec

\* The blob of a profile is there until the profile has expired, however uploads
\* and cleanups interleave and fail (the cleanup deletes the blobs before the
\* rows, createRetentionCleanupHandler of framework/collector.ts).
THEOREM RowHasBlobHolds == Spec => []RowHasBlob
<1>1. RetentionInv => RowHasBlob
  <2> SUFFICES ASSUME RetentionInv, NEW p \in row, p \notin blob PROVE IsoExpired(expires[p])
    BY DEF RowHasBlob
  <2>1. now \in Nat /\ expires[p] \in Nat /\ SqlExpired(expires[p])
    BY DEF RetentionInv, TypeOK, Uploads, BlobsGoLate
  <2> QED BY <2>1, SqlIsLate
<1> QED BY <1>1, RetentionInvariant, PTL

\* Undisturbed cleanups leave no blob that no row names.
THEOREM NoOrphansHolds == Spec => []NoOrphans
<1>1. RetentionInv => NoOrphans
  BY DEF RetentionInv
<1> QED BY <1>1, RetentionInvariant, PTL

\* The coarse comparison of the SQL tables (dialect.now()) and the exact one of
\* the others (toISOString()) delete nothing before its time.
THEOREM NeverEarlyHolds == Spec => NeverEarly
<1> DEFINE Late == /\ \A p \in row \ row' : IsoExpired(expires[p])
                   /\ \A t \in Tables : \A e \in table[t] \ table'[t] : IsoExpired(e)
<1>1. RetentionInv /\ [Next]_vars => [Late]_vars
  <2> SUFFICES ASSUME RetentionInv, Next PROVE Late
    OBVIOUS
  <2>0. now \in Nat /\ table \in [Tables -> SUBSET Nat]
    BY DEF RetentionInv, TypeOK
  <2>1. CASE DeleteRows
    <3>1. row \ row' \subseteq ExpiredRows /\ table' = table
      BY <2>1 DEF DeleteRows, DeletedRows
    <3>2. \A p \in ExpiredRows : SqlExpired(expires[p]) /\ expires[p] \in Nat
      BY DEF ExpiredRows, RetentionInv, TypeOK, Uploads
    <3> QED BY <2>0, <3>1, <3>2, SqlIsLate
  <2>2. ASSUME NEW t \in Tables, PurgeTable(t) PROVE Late
    <3>1. row' = row /\ table' = [table EXCEPT ![t] = @ \ Purged(t)]
      BY <2>2 DEF PurgeTable, profiles
    <3>2. \A e \in Purged(t) : e \in Nat /\ (IsoExpired(e) \/ SqlExpired(e))
      BY <2>0 DEF Purged
    <3>3. \A e \in Purged(t) : IsoExpired(e)
      BY <2>0, <3>2, SqlIsLate
    <3>4. \A u \in Tables : table[u] \ table'[u] \subseteq IF u = t THEN Purged(t) ELSE {}
      BY <2>0, <3>1
    <3> QED BY <3>1, <3>3, <3>4
  <2>3. ASSUME NEW t \in Tables, Record(t) PROVE Late
    BY <2>0, <2>3 DEF Record, profiles
  <2>4. CASE row \subseteq row' /\ table' = table
    BY <2>4
  <2>5. \/ DeleteRows \/ \E t \in Tables : PurgeTable(t) \/ Record(t)
        \/ row \subseteq row' /\ table' = table
    BY DEF Next, Cleanup, profiles, Put, InsertRow, InsertIndex, UploadFails, CleanupStarts,
       PurgeTableFails, SelectExpired, DeleteBlob, DeleteBlobFails, CleanupFails, Tick
  <2> QED BY <2>1, <2>2, <2>3, <2>4, <2>5
<1> QED BY <1>1, RetentionInvariant, PTL DEF Spec, NeverEarly
=============================================================================
