------------------------------ MODULE AuthProof ------------------------------
(***************************************************************************)
(* Proofs about Auth for every set of keys and requests, every cache size  *)
(* and every lifetime: a revoked key is out one lifetime after its         *)
(* revocation, and the race of the first requests costs nobody the legacy  *)
(* key.  The order of the cache, which decides only what is evicted, plays *)
(* no part in either.                                                      *)
(***************************************************************************)
EXTENDS Auth, TLAPS

\* What the two arguments need to know of the types.
Types ==
    /\ clock \in Nat
    /\ row \in [Keys -> {"none", "live", "revoked"}]
    /\ revokedAt \in [Keys -> Nat]
    /\ expires \in [Keys -> Nat]
    /\ latch \in {"off", "on"}
    /\ req \in [Requests ->
          [pc : {"idle", "select", "insert", "booted", "caught", "hash", "lookup", "found"},
           key : Keys, now : Nat, found : {"no", "yes"}, hurt : {"no", "yes"},
           answer : {"none", "accepted", "rejected", "failed"}]]

(***************************************************************************)
(* The strengthening for revocation.  Nobody reads the clock ahead of its  *)
(* time, so an entry of a key that is not revoked expires within one       *)
(* lifetime of the present; from the revocation on that bound stands       *)
(* still, since whoever still stores an entry had found the key live and   *)
(* had read the clock before that.                                         *)
(***************************************************************************)
PastReadings == \A r \in Requests : req[r].now <= clock

EntriesExpire ==
    \A k \in Keys :
        /\ expires[k] <= clock + KeyTtl
        /\ row[k] = "revoked" => expires[k] <= revokedAt[k] + KeyTtl

FoundInTime ==
    \A r \in Requests :
        req[r].found = "yes" /\ row[req[r].key] = "revoked" => req[r].now <= revokedAt[req[r].key]

(***************************************************************************)
(* The strengthening for the bootstrap.  Whoever is past it unhurt, and    *)
(* everybody once the latch is on, has seen the legacy key's row exist; a  *)
(* lookup that does not find it live finds it revoked.                     *)
(***************************************************************************)
Bootstrapped ==
    /\ latch = "on" => row[EnvKey] # "none"
    /\ \A r \in Requests :
        /\ req[r].pc = "booted" => row[EnvKey] # "none"
        /\ req[r].pc \in {"caught", "hash", "lookup", "found"} =>
              row[EnvKey] # "none" \/ req[r].hurt = "yes"
        /\ req[r].pc = "found" /\ req[r].found = "no" /\ req[r].key = EnvKey =>
              row[EnvKey] = "revoked" \/ req[r].hurt = "yes"

AuthInv ==
    /\ Types
    /\ PastReadings /\ EntriesExpire /\ FoundInTime /\ RevocationTakesHold
    /\ Bootstrapped /\ LegacyKeyWorks

-----------------------------------------------------------------------------
\* Every step keeps the types.
LEMMA TypesStep == Types /\ [Next]_vars => Types'
<1> USE AuthAssumption
<1> SUFFICES ASSUME Types, [Next]_vars PROVE Types'
  OBVIOUS
<1> USE DEF Types
<1>1. ASSUME NEW r \in Requests, NEW k \in Keys, Arrive(r, k) PROVE Types'
  BY <1>1 DEF Arrive, Idle, tables, cache
<1>2. ASSUME NEW r \in Requests,
             BootSelect(r) \/ BootInsert(r) \/ BootFails(r) \/ BootReturns(r)
      PROVE  Types'
  BY <1>2 DEF BootSelect, BootInsert, BootFails, BootReturns, tables, cache
<1>3. ASSUME NEW r \in Requests, Hashed(r) \/ Lookup(r) \/ LookupFails(r) PROVE Types'
  BY <1>3 DEF Hashed, Lookup, LookupFails, tables, cache
<1>4. ASSUME NEW r \in Requests, Resolved(r) PROVE Types'
  <2>1. expires' \in {expires, [expires EXCEPT ![req[r].key] = req[r].now + KeyTtl]}
    BY <1>4 DEF Resolved, SetCached
  <2>2. req[r].key \in Keys /\ req[r].now + KeyTtl \in Nat
    OBVIOUS
  <2>3. expires' \in [Keys -> Nat]
    BY <2>1, <2>2
  <2>4. UNCHANGED <<clock, row, revokedAt, latch>>
    BY <1>4 DEF Resolved, tables
  <2>5. PICK a \in {"accepted", "rejected"} :
            req' = [req EXCEPT ![r].pc = "idle", ![r].found = "no", ![r].answer = a]
    BY <1>4 DEF Resolved
  <2> DEFINE Request == [pc : {"idle", "select", "insert", "booted", "caught", "hash", "lookup", "found"},
                         key : Keys, now : Nat, found : {"no", "yes"}, hurt : {"no", "yes"},
                         answer : {"none", "accepted", "rejected", "failed"}]
             ended == [req[r] EXCEPT !.pc = "idle", !.found = "no", !.answer = a]
  <2>6. ended \in Request
    <3>1. req[r] \in Request
      OBVIOUS
    <3> QED BY <2>5, <3>1
  <2>7. req' = [req EXCEPT ![r] = ended]
    BY <2>5
  <2>8. req' \in [Requests -> Request]
    <3> HIDE DEF ended, Request
    <3>1. req \in [Requests -> Request]
      BY DEF Request
    <3> QED BY <2>6, <2>7, <3>1
  <2> QED BY <2>3, <2>4, <2>8
<1>5. ASSUME NEW k \in Keys, CreateKey(k) \/ RevokeKey(k) PROVE Types'
  BY <1>5 DEF CreateKey, RevokeKey, tables, cache
<1>6. CASE Tick
  BY <1>6 DEF Tick, tables, cache
<1>7. CASE Restart
  BY <1>7 DEF Restart, Idle, tables
<1>8. CASE UNCHANGED vars
  BY <1>8 DEF vars, tables, cache
<1> QED BY <1>1, <1>2, <1>3, <1>4, <1>5, <1>6, <1>7, <1>8 DEF Next

\* Every step keeps the strengthening for revocation.
LEMMA RevocationStep ==
    ASSUME AuthInv, Types', [Next]_vars
    PROVE  (PastReadings /\ EntriesExpire /\ FoundInTime /\ RevocationTakesHold)'
<1> USE AuthAssumption
<1> DEFINE Goal == PastReadings /\ EntriesExpire /\ FoundInTime /\ RevocationTakesHold
<1> USE DEF AuthInv, Types, PastReadings, EntriesExpire, FoundInTime, RevocationTakesHold
<1>1. ASSUME NEW r \in Requests, NEW k \in Keys, Arrive(r, k) PROVE Goal'
  BY <1>1 DEF Arrive, Idle, tables, cache
<1>2. ASSUME NEW r \in Requests,
             BootSelect(r) \/ BootInsert(r) \/ BootFails(r) \/ BootReturns(r)
      PROVE  Goal'
  <2>1. CASE BootSelect(r)
    BY <2>1 DEF BootSelect, tables, cache
  <2>2. CASE BootInsert(r)
    BY <2>2 DEF BootInsert, cache
  <2>3. CASE BootFails(r)
    BY <2>3 DEF BootFails, tables, cache
  <2>4. CASE BootReturns(r)
    BY <2>4 DEF BootReturns, tables
  <2> QED BY <1>2, <2>1, <2>2, <2>3, <2>4
<1>3. ASSUME NEW r \in Requests, Hashed(r) PROVE Goal'
  <2>1. UNCHANGED <<clock, row, revokedAt, expires>>
    BY <1>3 DEF Hashed, tables
  <2>2. \/ req' = [req EXCEPT ![r].pc = "lookup", ![r].answer = "none"]
        \/ /\ req' = [req EXCEPT ![r].pc = "idle", ![r].answer = "accepted"]
           /\ expires[req[r].key] > req[r].now
    BY <1>3 DEF Hashed, Cached
  <2>3. PastReadings' /\ EntriesExpire' /\ FoundInTime'
    BY <2>1, <2>2
  <2>4. RevocationTakesHold'
    BY <2>1, <2>2
  <2> QED BY <2>3, <2>4
<1>4. ASSUME NEW r \in Requests, Lookup(r) \/ LookupFails(r) PROVE Goal'
  <2>1. CASE Lookup(r)
    <3>1. /\ UNCHANGED <<clock, row, revokedAt, expires>>
          /\ req' = [req EXCEPT ![r].pc = "found",
                                ![r].found = IF row[req[r].key] = "live" THEN "yes" ELSE "no"]
      BY <2>1 DEF Lookup, tables, cache
    <3>2. PastReadings' /\ EntriesExpire' /\ RevocationTakesHold'
      BY <3>1
    <3>3. FoundInTime'
      BY <3>1
    <3> QED BY <3>2, <3>3
  <2>2. CASE LookupFails(r)
    BY <2>2 DEF LookupFails, tables, cache
  <2> QED BY <1>4, <2>1, <2>2
<1>5. ASSUME NEW r \in Requests, Resolved(r) PROVE Goal'
  <2>1. expires' = IF req[r].found = "yes"
                   THEN [expires EXCEPT ![req[r].key] = req[r].now + KeyTtl] ELSE expires
    BY <1>5 DEF Resolved, SetCached
  <2>2. req[r].key \in Keys /\ req[r].now \in Nat
    OBVIOUS
  <2>3. EntriesExpire'
    BY <1>5, <2>1, <2>2 DEF Resolved, tables
  <2>4. (PastReadings /\ FoundInTime)'
    BY <1>5, <2>2 DEF Resolved, tables
  <2>5. RevocationTakesHold'
    BY <1>5, <2>2 DEF Resolved, tables
  <2> QED BY <2>3, <2>4, <2>5
<1>6. ASSUME NEW k \in Keys, CreateKey(k) \/ RevokeKey(k) PROVE Goal'
  BY <1>6 DEF CreateKey, RevokeKey, tables, cache
<1>7. CASE Tick
  BY <1>7 DEF Tick, tables, cache
<1>8. CASE Restart
  BY <1>8 DEF Restart, Idle, tables
<1>9. CASE UNCHANGED vars
  BY <1>9 DEF vars, tables, cache
<1> QED BY <1>1, <1>2, <1>3, <1>4, <1>5, <1>6, <1>7, <1>8, <1>9 DEF Next

\* Every step keeps the strengthening for the bootstrap.
LEMMA BootstrapStep ==
    ASSUME AuthInv, Types', [Next]_vars
    PROVE  (Bootstrapped /\ LegacyKeyWorks)'
<1> USE AuthAssumption
<1> DEFINE Goal == Bootstrapped /\ LegacyKeyWorks
<1> USE DEF AuthInv, Types, Bootstrapped, LegacyKeyWorks
<1>1. ASSUME NEW r \in Requests, NEW k \in Keys, Arrive(r, k) PROVE Goal'
  BY <1>1 DEF Arrive, Idle, tables, cache
<1>2. ASSUME NEW r \in Requests,
             BootSelect(r) \/ BootInsert(r) \/ BootFails(r) \/ BootReturns(r)
      PROVE  Goal'
  BY <1>2 DEF BootSelect, BootInsert, BootFails, BootReturns, tables, cache
<1>3. ASSUME NEW r \in Requests, Hashed(r) \/ Lookup(r) \/ LookupFails(r) PROVE Goal'
  BY <1>3 DEF Hashed, Lookup, LookupFails, tables, cache
<1>4. ASSUME NEW r \in Requests, Resolved(r) PROVE Goal'
  BY <1>4 DEF Resolved, tables
<1>5. ASSUME NEW k \in Keys, CreateKey(k) \/ RevokeKey(k) PROVE Goal'
  BY <1>5 DEF CreateKey, RevokeKey, tables, cache
<1>6. CASE Tick
  BY <1>6 DEF Tick, tables, cache
<1>7. CASE Restart
  BY <1>7 DEF Restart, Idle, tables
<1>8. CASE UNCHANGED vars
  BY <1>8 DEF vars, tables, cache
<1> QED BY <1>1, <1>2, <1>3, <1>4, <1>5, <1>6, <1>7, <1>8 DEF Next

-----------------------------------------------------------------------------
\* The invariant holds in every execution.
THEOREM AuthInvariant == Spec => []AuthInv
<1>1. Init => AuthInv
  BY AuthAssumption
  DEF Init, Idle, AuthInv, Types, PastReadings, EntriesExpire, FoundInTime, RevocationTakesHold,
      Bootstrapped, LegacyKeyWorks
<1>2. AuthInv /\ [Next]_vars => AuthInv'
  <2> SUFFICES ASSUME AuthInv, [Next]_vars PROVE AuthInv'
    OBVIOUS
  <2>1. Types'
    BY TypesStep DEF AuthInv
  <2> QED BY <2>1, RevocationStep, BootstrapStep DEF AuthInv
<1> QED BY <1>1, <1>2, PTL DEF Spec

\* No request that reads the clock one cache lifetime after a key's revocation,
\* or later, is let in with that key (CACHE_TTL_MS, ingest-auth.ts:7), whatever
\* the cache held and however slow its lookup was.
THEOREM RevocationHolds == Spec => []RevocationTakesHold
<1>1. AuthInv => RevocationTakesHold
  BY DEF AuthInv
<1> QED BY <1>1, AuthInvariant, PTL

\* Any number of first requests may race to insert the legacy key
\* (bootstrapEnvKey, ingest-auth.ts:98): it is turned away only when revoked, or
\* from a request whose own bootstrap met a database error.
THEOREM LegacyKeyHolds == Spec => []LegacyKeyWorks
<1>1. AuthInv => LegacyKeyWorks
  BY DEF AuthInv
<1> QED BY <1>1, AuthInvariant, PTL
=============================================================================
