------------------------------ MODULE TailHub -------------------------------
(***************************************************************************)
(* The live-tail hub (durable-objects/tail-hub.ts): one object, one Map of *)
(* subscribers, each with a stream writer and a heartbeat interval.  A     *)
(* broadcast walks the Map and awaits the write to each subscriber in turn *)
(* while others subscribe, stop reading, disconnect and are dropped, and   *)
(* while other broadcasts walk the same Map.                               *)
(*                                                                         *)
(* Subscriptions are numbered as they are made.  Map iteration visits the  *)
(* entries in that order, including ones added meanwhile and leaving out   *)
(* deleted ones.  A TransformStream with default sizes settles a write     *)
(* when the client reads it and rejects it when the client has gone;       *)
(* promise reactions run in the order the promises settle, so settling a   *)
(* write and resuming the broadcast behind it is one step.                 *)
(***************************************************************************)
EXTENDS Integers, Sequences, FiniteSets, SequencesExt, FiniteSetsExt

CONSTANTS
    Topics,          \* pairs of project and kind an event can have
    Interests,       \* the sets of topics a subscription can ask for
    MaxSubscribers,  \* MAX_SUBSCRIBERS
    MaxSubs,         \* bound: subscriptions ever made
    MaxCasts,        \* bound: broadcasts
    MaxBeats         \* bound: heartbeats

ASSUME TailHubAssumption ==
    /\ Interests \subseteq SUBSET Topics
    /\ MaxSubscribers \in Nat \ {0}
    /\ MaxSubs \in Nat /\ MaxCasts \in Nat /\ MaxBeats \in Nat

Subs == 1..MaxSubs
Casts == 1..MaxCasts

\* The chunks that are not events: the first comment and the heartbeats.
Connected == 0
Beat == -1

VARIABLES
    subs,      \* number of subscriptions made
    members,   \* the keys of the Map
    timers,    \* subscriptions whose heartbeat interval is installed
    interest,  \* projectId and kinds of each subscription
    stream,    \* writes not yet settled, oldest first: Connected, Beat or a broadcast
    client,    \* "none", "reading", "stalled" or "gone"
    beats,     \* number of heartbeats written
    casts,     \* number of broadcasts begun
    events,    \* topic of the events of each broadcast: a receiver publishes one kind
    at,        \* the subscription a broadcast awaits, 0 when it has returned
    got,       \* history: the broadcasts a client has read, in order
    owed       \* history: members interested when the broadcast began

hub == <<subs, members, timers, interest>>
walks == <<casts, events, at, owed>>
hubVars == <<hub, stream, client, beats, walks, got>>

HubInit ==
    /\ subs = 0 /\ members = {} /\ timers = {}
    /\ interest = [i \in Subs |-> {}]
    /\ stream = [i \in Subs |-> <<>>]
    /\ client = [i \in Subs |-> "none"]
    /\ beats = 0
    /\ casts = 0
    /\ events = <<>>
    /\ at = [b \in Casts |-> 0]
    /\ got = [i \in Subs |-> <<>>]
    /\ owed = [b \in Casts |-> {}]

-----------------------------------------------------------------------------
\* The filter of broadcast: something in it for subscription i.
Wants(i, topic) == topic \in interest[i]

\* Mutant of Stop: a subscriber under backpressure is left out.
StopSkipsBusy(from, topic, map) ==
    LET ahead == {i \in map : i > from /\ Wants(i, topic) /\ stream[i] = <<>>}
    IN  IF ahead = {} THEN 0 ELSE Min(ahead)

\* Mutant of Stop: the walk counts positions in a Map that shrinks under it.
StopByPosition(from, topic, map) ==
    LET seen == Cardinality({i \in members : i <= from})
        keys == SetToSortSeq(map, <)
        ahead == {n \in (seen + 1)..Len(keys) : Wants(keys[n], topic)}
    IN  IF ahead = {} THEN 0 ELSE keys[Min(ahead)]

\* Where a walk over the Map that stands at from stops next, 0 at its end.
Stop(from, topic, map) ==
    LET ahead == {i \in map : i > from /\ Wants(i, topic)}
    IN  IF ahead = {} THEN 0 ELSE Min(ahead)

\* drop: a second call finds no entry and returns.
Drop(i) == members' = members \ {i} /\ timers' = timers \ {i}

\* Broadcast b of this topic, with these streams, walks on from `from` to its next write.
Walk(b, topic, from, map, streams) ==
    LET next == Stop(from, topic, map) IN
    /\ at' = [at EXCEPT ![b] = next]
    /\ stream' = IF next = 0 THEN streams ELSE [streams EXCEPT ![next] = Append(@, b)]

-----------------------------------------------------------------------------
\* GET /subscribe: 429 at the limit, else a stream with its first comment.
Subscribe(topics) ==
    /\ subs < MaxSubs /\ Cardinality(members) < MaxSubscribers
    /\ LET i == subs + 1 IN
       /\ subs' = i
       /\ members' = members \cup {i} /\ timers' = timers \cup {i}
       /\ interest' = [interest EXCEPT ![i] = topics]
       /\ stream' = [stream EXCEPT ![i] = <<Connected>>]
       /\ client' = [client EXCEPT ![i] = "reading"]
    /\ UNCHANGED <<beats, walks, got>>

\* POST /publish: returns at once when nobody listens, else starts to walk.
Publish(topic) ==
    /\ casts < MaxCasts
    /\ LET b == casts + 1 IN
       /\ casts' = b
       /\ events' = Append(events, topic)
       /\ owed' = [owed EXCEPT ![b] = {i \in members : Wants(i, topic)}]
       /\ Walk(b, topic, 0, members, stream)
    /\ UNCHANGED <<hub, client, beats, got>>

\* The heartbeat interval fires; the write is not awaited.
Heartbeat(i) ==
    /\ i \in timers /\ beats < MaxBeats
    /\ beats' = beats + 1
    /\ stream' = [stream EXCEPT ![i] = Append(@, Beat)]
    /\ UNCHANGED <<hub, client, walks, got>>

\* Mutant of Read: the write settles and the broadcast does not go on.
ReadUnnoticed(i) ==
    /\ client[i] = "reading" /\ stream[i] # <<>>
    /\ got' = IF Head(stream[i]) \in Casts THEN [got EXCEPT ![i] = Append(@, Head(stream[i]))] ELSE got
    /\ stream' = [stream EXCEPT ![i] = Tail(@)]
    /\ UNCHANGED <<hub, client, beats, walks>>

\* The client reads the next chunk: its write settles, and the broadcast that
\* awaits it walks on.
Read(i) ==
    LET chunk == Head(stream[i])
        rest  == [stream EXCEPT ![i] = Tail(@)]
    IN
    /\ client[i] = "reading" /\ stream[i] # <<>>
    /\ IF chunk \in Casts
       THEN /\ got' = [got EXCEPT ![i] = Append(@, chunk)]
            /\ Walk(chunk, events[chunk], i, members, rest)
       ELSE /\ stream' = rest
            /\ UNCHANGED <<got, at>>
    /\ UNCHANGED <<hub, client, beats, casts, events, owed>>

\* The client stops reading without closing the connection.
Stall(i) ==
    /\ client[i] = "reading"
    /\ client' = [client EXCEPT ![i] = "stalled"]
    /\ UNCHANGED <<hub, stream, beats, walks, got>>

\* The connection closes; what is queued will reject.
Disconnect(i) ==
    /\ client[i] \in {"reading", "stalled"}
    /\ client' = [client EXCEPT ![i] = "gone"]
    /\ UNCHANGED <<hub, stream, beats, walks, got>>

\* The abort event of the request reaches the hub.
Abort(i) ==
    /\ client[i] = "gone" /\ i \in members
    /\ Drop(i)
    /\ UNCHANGED <<subs, interest, stream, client, beats, walks, got>>

\* Mutant of Reject: the exception ends the whole broadcast.
RejectEndsBroadcast(i) ==
    LET chunk == Head(stream[i]) IN
    /\ client[i] = "gone" /\ stream[i] # <<>>
    /\ IF chunk = Connected THEN UNCHANGED <<members, timers>> ELSE Drop(i)
    /\ stream' = [stream EXCEPT ![i] = Tail(@)]
    /\ at' = IF chunk \in Casts THEN [at EXCEPT ![chunk] = 0] ELSE at
    /\ UNCHANGED <<subs, interest, client, beats, casts, events, owed, got>>

\* The oldest write to a client that has gone rejects: the subscriber is
\* dropped, except by the first comment, and a broadcast behind it walks on.
Reject(i) ==
    LET chunk == Head(stream[i])
        rest  == [stream EXCEPT ![i] = Tail(@)]
    IN
    /\ client[i] = "gone" /\ stream[i] # <<>>
    /\ IF chunk = Connected THEN UNCHANGED <<members, timers>> ELSE Drop(i)
    /\ IF chunk \in Casts
       THEN Walk(chunk, events[chunk], i, members \ {i}, rest)
       ELSE stream' = rest /\ UNCHANGED at
    /\ UNCHANGED <<subs, interest, client, beats, casts, events, owed, got>>

HubNext ==
    \/ \E topics \in Interests : Subscribe(topics)
    \/ \E topic \in Topics : Publish(topic)
    \/ \E i \in Subs :
        \/ Heartbeat(i) \/ Read(i) \/ Stall(i)
        \/ Disconnect(i) \/ Abort(i) \/ Reject(i)

HubSpec == HubInit /\ [][HubNext]_hubVars

\* A client that reads goes on reading until it stalls or leaves; a rejected
\* promise runs its handler.
Fairness == \A i \in Subs : WF_hubVars(Read(i)) /\ WF_hubVars(Reject(i))

FairSpec == HubSpec /\ Fairness

-----------------------------------------------------------------------------
\* The Map never exceeds the limit, and a broadcast only awaits a write that
\* is in the subscriber's stream.
HubTypeOK ==
    /\ subs \in 0..MaxSubs /\ casts \in 0..MaxCasts
    /\ members \subseteq 1..subs /\ Cardinality(members) <= MaxSubscribers
    /\ timers \subseteq 1..subs
    /\ interest \in [Subs -> SUBSET Topics]
    /\ stream \in [Subs -> Seq({Connected, Beat} \cup Casts)]
    /\ client \in [Subs -> {"none", "reading", "stalled", "gone"}]
    /\ beats \in 0..MaxBeats
    /\ events \in Seq(Topics) /\ Len(events) = casts
    /\ at \in [Casts -> 0..MaxSubs]
    /\ \A b \in Casts : at[b] # 0 => b \in ToSet(stream[at[b]])

\* What subscription i was sent, in order, read or not, and which of two
\* broadcasts came first there.
Sent(i) == got[i] \o stream[i]
SentBefore(i, b, c) == \E m, n \in DOMAIN Sent(i) : m < n /\ Sent(i)[m] = b /\ Sent(i)[n] = c

\* A broadcast that has returned was read by every subscriber it was for when
\* it began, except by those whose connection closed: a drop in the middle of
\* the walk costs nobody else the event.
Complete ==
    \A b \in 1..casts : at[b] = 0 =>
        \A i \in owed[b] : client[i] = "gone" \/ b \in ToSet(got[i])

\* No subscriber is sent a broadcast twice, although entries come and go in the
\* Map during the walk, and a later broadcast reaches nobody before an earlier
\* one of the same topic: they queue behind each other at every subscriber.  The
\* exception is a subscriber ahead that left: its abort can remove it from the
\* Map before its pending write rejects, and the later broadcast passes there.
InOrder ==
    \A i \in Subs, b, c \in Casts : SentBefore(i, b, c) =>
        /\ b # c
        /\ events[b] = events[c] => b < c \/ \E j \in 1..(i - 1) : client[j] = "gone"

\* A publish request returns, unless a client that neither reads nor leaves
\* holds it up: disconnects, drops and newcomers do not.
PublishReturns ==
    \A b \in Casts : (at[b] # 0) ~> (at[b] = 0 \/ client[at[b]] = "stalled")
=============================================================================
