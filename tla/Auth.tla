-------------------------------- MODULE Auth --------------------------------
(***************************************************************************)
(* The ingest middleware and its key cache: ingest-auth.ts maps the hash   *)
(* of an ingest key to its project and keeps the answer for CACHE_TTL_MS.  *)
(* It reads the clock once, before it awaits the hash and the database,    *)
(* and dates the entry it stores afterwards with that reading.             *)
(*                                                                         *)
(* Requests of one isolate interleave at their awaits; the tables outlive  *)
(* the isolate, the cache and the bootstrap latch do not.  A key stands   *)
(* for its hash.                                                           *)
(***************************************************************************)
EXTENDS Integers, Sequences, FiniteSets, SequencesExt

CONSTANTS
    Keys,            \* ingest keys (their hashes)
    EnvKey,          \* the key in INGEST_KEY / TELEMETRY_INGEST_TOKEN
    Requests,        \* concurrent requests to /v1/*
    KeyTtl,          \* CACHE_TTL_MS
    MaxEntries,      \* CACHE_MAX_ENTRIES
    MaxTime,         \* bound: the clock
    MaxFaults        \* bound: database errors

ASSUME AuthAssumption ==
    /\ EnvKey \in Keys
    /\ KeyTtl \in Nat \ {0}
    /\ MaxEntries \in Nat \ {0}
    /\ MaxTime \in Nat /\ MaxFaults \in Nat

VARIABLES
    clock,
    faults,
    row,        \* ingest_keys: "none", "live" or "revoked" per key_hash
    revokedAt,  \* ingest_keys.revoked_at
    order,      \* keyCaches: the Map's keys, oldest first
    expires,    \* keyCaches: expiresAt of the entry last stored for a key
    latch,      \* bootstrapDone
    req         \* the requests: pc, key, now, found, hurt and the answer

tables == <<row, revokedAt>>
cache == <<order, expires, latch>>
vars == <<clock, faults, tables, cache, req>>

Idle == [pc |-> "idle", key |-> EnvKey, now |-> 0, found |-> "no", hurt |-> "no", answer |-> "none"]

Init ==
    /\ clock = 0 /\ faults = 0
    /\ row = [k \in Keys |-> "none"] /\ revokedAt = [k \in Keys |-> 0]
    /\ order = <<>> /\ expires = [k \in Keys |-> 0]
    /\ latch = "off"
    /\ req = [r \in Requests |-> Idle]

Fault == faults < MaxFaults /\ faults' = faults + 1

-----------------------------------------------------------------------------
\* The key cache.

\* pruneKeyCache: the keys left of the Map at time now.
Pruned(now) == SelectSeq(order, LAMBDA k : expires[k] > now)

\* getCached, after the prune.
Cached(k, now) == k \in ToSet(Pruned(now)) /\ expires[k] > now

\* The eviction loop of setCached; it runs whether or not k has an entry.
Evicted(s) == IF Len(s) >= MaxEntries THEN SubSeq(s, Len(s) - MaxEntries + 2, Len(s)) ELSE s

\* Mutant of SetCached: the time of the answer, not of the question.
SetCachedLate(k, now) ==
    LET kept == Evicted(Pruned(now)) IN
    /\ order' = IF k \in ToSet(kept) THEN kept ELSE Append(kept, k)
    /\ expires' = [expires EXCEPT ![k] = clock + KeyTtl]

\* setCached; Map.set leaves a key that is there where it is.
SetCached(k, now) ==
    LET kept == Evicted(Pruned(now)) IN
    /\ order' = IF k \in ToSet(kept) THEN kept ELSE Append(kept, k)
    /\ expires' = [expires EXCEPT ![k] = now + KeyTtl]

-----------------------------------------------------------------------------
\* The ingest middleware.

\* Mutant of Arrive: the latch is set before the bootstrap is awaited.
ArriveLatchFirst(r, k) ==
    /\ req[r].pc = "idle"
    /\ req' = [req EXCEPT ![r] = [Idle EXCEPT !.pc = IF latch = "on" THEN "hash" ELSE "select",
                                              !.key = k, !.now = clock]]
    /\ latch' = "on"
    /\ UNCHANGED <<clock, faults, tables, order, expires>>

\* A request with a key: straight to the clock when the bootstrap is done.
Arrive(r, k) ==
    /\ req[r].pc = "idle"
    /\ req' = [req EXCEPT ![r] = [Idle EXCEPT !.pc = IF latch = "on" THEN "hash" ELSE "select",
                                              !.key = k, !.now = clock]]
    /\ UNCHANGED <<clock, faults, tables, cache>>

\* bootstrapEnvKey looks for the legacy key's row, revoked or not.
BootSelect(r) ==
    /\ req[r].pc = "select"
    /\ req' = [req EXCEPT ![r].pc = IF row[EnvKey] = "none" THEN "insert" ELSE "booted"]
    /\ UNCHANGED <<clock, faults, tables, cache>>

\* It inserts the row; key_hash is UNIQUE, so the loser of a race throws.
BootInsert(r) ==
    /\ req[r].pc = "insert"
    /\ row' = IF row[EnvKey] = "none" THEN [row EXCEPT ![EnvKey] = "live"] ELSE row
    /\ req' = [req EXCEPT ![r].pc = IF row[EnvKey] = "none" THEN "booted" ELSE "caught"]
    /\ UNCHANGED <<clock, faults, revokedAt, cache>>

\* A database error in either statement is logged and the request goes on.
BootFails(r) ==
    /\ req[r].pc \in {"select", "insert"}
    /\ Fault
    /\ req' = [req EXCEPT ![r].pc = "caught", ![r].hurt = "yes"]
    /\ UNCHANGED <<clock, tables, cache>>

\* The middleware resumes: latch on success, then Date.now().
BootReturns(r) ==
    /\ req[r].pc \in {"booted", "caught"}
    /\ latch' = IF req[r].pc = "booted" THEN "on" ELSE latch
    /\ req' = [req EXCEPT ![r].pc = "hash", ![r].now = clock]
    /\ UNCHANGED <<clock, faults, tables, order, expires>>

\* sha256Hex resolves: the cache is pruned and asked.
Hashed(r) ==
    LET k == req[r].key  now == req[r].now IN
    /\ req[r].pc = "hash"
    /\ order' = Pruned(now)
    /\ req' = [req EXCEPT ![r].pc = IF Cached(k, now) THEN "idle" ELSE "lookup",
                          ![r].answer = IF Cached(k, now) THEN "accepted" ELSE "none"]
    /\ UNCHANGED <<clock, faults, tables, expires, latch>>

\* findByKeyHash reads the table.
Lookup(r) ==
    /\ req[r].pc = "lookup"
    /\ req' = [req EXCEPT ![r].pc = "found", ![r].found = IF row[req[r].key] = "live" THEN "yes" ELSE "no"]
    /\ UNCHANGED <<clock, faults, tables, cache>>

LookupFails(r) ==
    /\ req[r].pc = "lookup"
    /\ Fault
    /\ req' = [req EXCEPT ![r].pc = "idle", ![r].answer = "failed"]
    /\ UNCHANGED <<clock, tables, cache>>

\* The middleware resumes with the row: 401, or cache and go on.
Resolved(r) ==
    /\ req[r].pc = "found"
    /\ IF req[r].found = "yes"
       THEN SetCached(req[r].key, req[r].now)
       ELSE UNCHANGED <<order, expires>>
    /\ req' = [req EXCEPT ![r].pc = "idle", ![r].found = "no",
                          ![r].answer = IF req[r].found = "yes" THEN "accepted" ELSE "rejected"]
    /\ UNCHANGED <<clock, faults, tables, latch>>

-----------------------------------------------------------------------------
\* Key management.

\* createKey: a fresh random key, never the legacy one.
CreateKey(k) ==
    /\ k # EnvKey /\ row[k] = "none"
    /\ row' = [row EXCEPT ![k] = "live"]
    /\ UNCHANGED <<clock, faults, revokedAt, cache, req>>

\* revokeKey: the UPDATE matches once.
RevokeKey(k) ==
    /\ row[k] = "live"
    /\ row' = [row EXCEPT ![k] = "revoked"]
    /\ revokedAt' = [revokedAt EXCEPT ![k] = clock]
    /\ UNCHANGED <<clock, faults, cache, req>>

-----------------------------------------------------------------------------
Tick ==
    /\ clock < MaxTime
    /\ clock' = clock + 1
    /\ UNCHANGED <<faults, tables, cache, req>>

\* The isolate is replaced: module state and the requests in it are gone.
Restart ==
    /\ order' = <<>> /\ expires' = [k \in Keys |-> 0] /\ latch' = "off"
    /\ req' = [r \in Requests |-> Idle]
    /\ UNCHANGED <<clock, faults, tables>>

Next ==
    \/ \E r \in Requests, k \in Keys : Arrive(r, k)
    \/ \E r \in Requests :
        \/ BootSelect(r) \/ BootInsert(r) \/ BootFails(r) \/ BootReturns(r)
        \/ Hashed(r) \/ Lookup(r) \/ LookupFails(r) \/ Resolved(r)
    \/ \E k \in Keys : CreateKey(k) \/ RevokeKey(k)
    \/ Tick \/ Restart

Spec == Init /\ [][Next]_vars

-----------------------------------------------------------------------------
\* The cache never holds more than MaxEntries keys, each of them once,
\* however requests that missed it interleave between lookup and store.
TypeOK ==
    /\ clock \in 0..MaxTime /\ faults \in 0..MaxFaults
    /\ row \in [Keys -> {"none", "live", "revoked"}] /\ revokedAt \in [Keys -> Nat]
    /\ order \in Seq(Keys) /\ Len(order) <= MaxEntries
    /\ \A i, j \in DOMAIN order : i # j => order[i] # order[j]
    /\ expires \in [Keys -> Nat] /\ latch \in {"off", "on"}
    /\ req \in [Requests ->
          [pc : {"idle", "select", "insert", "booted", "caught", "hash", "lookup", "found"},
           key : Keys, now : Nat, found : {"no", "yes"}, hurt : {"no", "yes"},
           answer : {"none", "accepted", "rejected", "failed"}]]

\* A revoked key stops working one cache lifetime after its revocation at the
\* latest: no request whose clock reading (ingest-auth.ts:125) is that late is
\* let in, not from the cache and not by a lookup that was slow to return.
RevocationTakesHold ==
    \A r \in Requests :
        req[r].answer = "accepted" /\ row[req[r].key] = "revoked"
            => req[r].now < revokedAt[req[r].key] + KeyTtl

\* "bootstrapEnvKey is idempotent, so concurrent first-requests racing here are
\* harmless" (ingest-auth.ts:98): the legacy key is turned away only if it was
\* revoked, or if a database error hit this very request's bootstrap.
LegacyKeyWorks ==
    \A r \in Requests :
        req[r].answer = "rejected" /\ req[r].key = EnvKey
            => row[EnvKey] = "revoked" \/ req[r].hurt = "yes"
=============================================================================
