---------------------------- MODULE UsageTracker ----------------------------
(***************************************************************************)
(* The browser usage tracker (usage-tracker.ts): the session kept in       *)
(* sessionStorage, which outlives page loads, the deduplication state kept *)
(* in memory, which does not, and the rrweb recorder with its buffer.      *)
(*                                                                         *)
(* Script runs to completion, so every method is one step, the nested      *)
(* restart of the recorder included.  Time is in units in which the idle   *)
(* timeout and the hard cap are Idle and HardCap; timestamps start at 1    *)
(* and 0 stands for the empty string.  Meta and FullSnapshot, which rrweb  *)
(* emits when record() is called, are one event of kind "full".            *)
(***************************************************************************)
EXTENDS Integers, Sequences, FiniteSets

CONSTANTS
    Idle,      \* 30 minutes
    HardCap,   \* 60 minutes
    FlushAt,   \* replay events that trigger a flush (50)
    Paths,     \* page paths
    MaxTime,   \* bound: the clock
    MaxEvents  \* bound: replay events recorded, snapshots of restarts not counted

ASSUME UsageTrackerAssumption ==
    /\ Idle \in Nat \ {0} /\ HardCap \in Nat \ {0}
    /\ FlushAt \in Nat /\ FlushAt > 1
    /\ MaxTime \in Nat /\ MaxEvents \in Nat
    /\ 0 \notin Paths

Sessions == 1..(MaxTime + 1)  \* a rotation takes at least one tick of the clock

VARIABLES
    now,
    sid, startTs, lastAct,  \* _session_id, _start_ts, _last_act
    onceStored,             \* the _once_ key of the interaction: "yes" or "no"
    minted,                 \* session ids created so far
    lastPagePath, onceKey,  \* in memory; onceKey: the key is in onceKeys
    dispatchDisabled,
    waiting,                \* a dispatch of this page load is unanswered
    rec,         \* replayEvents, replaySequence, whether we record; external: the
                 \* number of rrweb recorders running and of the events they made
    span,        \* history: a session's first send, its last usage event, its last
                 \* send, and the longest time without a usage event before a send
    onceSent,    \* history: once-interactions sent in a session
    pageSent,    \* history: this page load's last page view: session, path, and whether
                 \* it rotated the session
    pageTwice,   \* history: a page view was sent again although the first one had not
                 \* rotated the session
    filed        \* history: numbers of the replay events sent, in order

session == <<sid, startTs, lastAct, minted>>
once == <<onceStored, onceSent>>
pages == <<pageSent, pageTwice>>
vars == <<now, session, lastPagePath, onceKey, dispatchDisabled, waiting, rec, span,
          once, pages, filed>>

NoRecorder(made) ==
    [events |-> <<>>, sequence |-> 0, recording |-> "no", recorders |-> 0, made |-> made]

Init ==
    /\ now = 1
    /\ sid = 0 /\ startTs = 0 /\ lastAct = 0 /\ minted = 0
    /\ lastPagePath = 0 /\ onceKey = "no"
    /\ dispatchDisabled = "no" /\ waiting = "no"
    /\ rec = NoRecorder(0)
    /\ span = [s \in Sessions |-> [first |-> 0, event |-> 0, last |-> 0, gap |-> 0]]
    /\ onceStored = "no" /\ onceSent = [s \in Sessions |-> 0]
    /\ pageSent = <<0, 0, FALSE>> /\ pageTwice = "no"
    /\ filed = <<>>

-----------------------------------------------------------------------------
Enabled == dispatchDisabled = "no"

\* Mutant of Expired: no hard cap.
ExpiredIdleOnly == lastAct > 0 /\ now - lastAct > Idle

\* The condition of checkAndRotateSession.
Expired ==
    \/ lastAct > 0 /\ now - lastAct > Idle
    \/ startTs > 0 /\ now - startTs > HardCap

\* The id ensureSessionCurrent returns: getStorageValue creates a missing one.
CurrentId == IF Expired \/ sid = 0 THEN minted + 1 ELSE sid

\* checkAndRotateSession and getStorageValue.  bump: dispatch follows, which
\* notes the activity; page, key: the deduplication state it started from.
EnsureSessionCurrent(bump, page, key) ==
    /\ sid' = CurrentId
    /\ minted' = IF CurrentId = sid THEN minted ELSE minted + 1
    /\ startTs' = IF Expired \/ startTs = 0 THEN now ELSE startTs
    /\ lastAct' = IF bump THEN now ELSE IF Expired THEN 0 ELSE lastAct
    /\ lastPagePath' = IF Expired THEN 0 ELSE page
    /\ onceKey' = IF Expired THEN "no" ELSE key

\* Something is sent under session s, a usage event or a replay chunk.
Sent(s, isEvent) ==
    LET p   == span[s]
        gap == IF p.event = 0 THEN 0 ELSE now - p.event
    IN  span' = [span EXCEPT ![s] =
            [first |-> IF p.first = 0 THEN now ELSE p.first,
             event |-> IF isEvent THEN now ELSE p.event,
             last  |-> now,
             gap   |-> IF gap > p.gap THEN gap ELSE p.gap]]

\* The POST of a chunk of replay events, none for an empty one.
File(events) == filed' = filed \o [i \in DOMAIN events |-> events[i].n]

-----------------------------------------------------------------------------
\* emit: one more event in the buffer.
Push(r, kind) ==
    [r EXCEPT !.events = Append(r.events, [n |-> r.made + 1, kind |-> kind]), !.made = r.made + 1]

\* startReplay: record() takes a full snapshot at once.
Record(r) == [Push(r, "full") EXCEPT !.recording = "yes", !.recorders = r.recorders + 1]

\* Mutant of Stop: the recorder's stop function is not called.
StopForgets(r) == [r EXCEPT !.events = <<>>, !.sequence = 0, !.recording = "no"]

\* stopReplay after its flush.
Stop(r) == [r EXCEPT !.events = <<>>, !.sequence = 0, !.recording = "no",
                     !.recorders = r.recorders - 1]

\* ensureSessionCurrent's side effect: a rotation restarts a running recorder.
Restart(r) == IF Expired /\ r.recording = "yes" THEN Record(Stop(r)) ELSE r

\* Mutant of Flushed: the events that were sent are kept.
FlushedKeeps(r) ==
    IF r.events # <<>> /\ Enabled THEN [Restart(r) EXCEPT !.sequence = @ + 1]
    ELSE [r EXCEPT !.events = <<>>]

\* flushReplays: the buffer is emptied, and only then is the session checked.
Flushed(r) ==
    LET emptied == [r EXCEPT !.events = <<>>] IN
    IF r.events # <<>> /\ Enabled
    THEN [Restart(emptied) EXCEPT !.sequence = Restart(emptied).sequence + 1]
    ELSE emptied

\* flushReplays from recorder state r: what it does besides the recorder.
FlushEffects(r) ==
    /\ IF r.events # <<>> /\ Enabled
       THEN /\ EnsureSessionCurrent(FALSE, lastPagePath, onceKey)
            /\ File(r.events)
            /\ Sent(CurrentId, FALSE)
       ELSE UNCHANGED <<session, lastPagePath, onceKey, filed, span>>
    /\ UNCHANGED <<now, dispatchDisabled, waiting, once, pages>>

\* A usage event, from ensureSessionCurrent to dispatch.  When the session has
\* rotated, stopReplay flushes the old buffer under the new session's id.
Track(page, key) ==
    /\ EnsureSessionCurrent(Enabled, page, key)
    /\ rec' = Restart(rec)
    /\ File(IF Expired /\ Enabled THEN rec.events ELSE <<>>)
    /\ IF Enabled THEN Sent(CurrentId, TRUE) /\ waiting' = "yes" ELSE UNCHANGED <<span, waiting>>
    /\ UNCHANGED <<now, dispatchDisabled>>

-----------------------------------------------------------------------------
\* trackInteraction, and trackError once its filter lets the error through.
TrackInteraction == Track(lastPagePath, onceKey) /\ UNCHANGED <<once, pages>>

\* Mutant of TrackPageView: the path is not remembered.
TrackPageViewForgets(path) ==
    /\ lastPagePath # path
    /\ Track(lastPagePath, onceKey)
    /\ IF Enabled
       THEN /\ pageSent' = <<CurrentId, path, Expired>>
            /\ pageTwice' = IF pageSent = <<CurrentId, path, FALSE>> THEN "yes" ELSE pageTwice
       ELSE UNCHANGED pages
    /\ UNCHANGED once

\* trackPageView: the duplicate check comes before the rotation, which forgets
\* the path that was just remembered.
TrackPageView(path) ==
    /\ lastPagePath # path
    /\ Track(path, onceKey)
    /\ IF Enabled
       THEN /\ pageSent' = <<CurrentId, path, Expired>>
            /\ pageTwice' = IF pageSent = <<CurrentId, path, FALSE>> THEN "yes" ELSE pageTwice
       ELSE UNCHANGED pages
    /\ UNCHANGED once

\* trackInteractionOnce returns early: the key is known in memory or in the
\* tab's storage.
TrackInteractionOnceKnown ==
    /\ onceKey = "yes" \/ onceStored = "yes"
    /\ onceKey' = "yes"
    /\ UNCHANGED <<now, session, lastPagePath, dispatchDisabled, waiting, rec, span,
                   onceStored, onceSent, pages, filed>>

\* Mutant of TrackInteractionOnce: the key is only remembered in memory.
TrackInteractionOnceMemory ==
    /\ onceKey = "no" /\ onceStored = "no"
    /\ Track(lastPagePath, "yes")
    /\ onceSent' = IF Enabled THEN [onceSent EXCEPT ![CurrentId] = onceSent[CurrentId] + 1] ELSE onceSent
    /\ UNCHANGED <<onceStored, pages>>

\* trackInteractionOnce goes on to trackInteraction, whose rotation forgets the
\* key in memory; the storage keeps it.
TrackInteractionOnce ==
    /\ onceKey = "no" /\ onceStored = "no"
    /\ onceStored' = "yes"
    /\ Track(lastPagePath, "yes")
    /\ onceSent' = IF Enabled THEN [onceSent EXCEPT ![CurrentId] = onceSent[CurrentId] + 1] ELSE onceSent
    /\ UNCHANGED pages

\* The sessionId getter creates an id when there is none.
SessionId ==
    /\ sid = 0
    /\ sid' = minted + 1 /\ minted' = minted + 1
    /\ UNCHANGED <<now, startTs, lastAct, lastPagePath, onceKey, dispatchDisabled, waiting, rec,
                   span, once, pages, filed>>

\* startReplay, which does nothing while recording.
StartReplay ==
    /\ rec.recording = "no" /\ rec.made < MaxEvents
    /\ EnsureSessionCurrent(FALSE, lastPagePath, onceKey)
    /\ rec' = Record(rec)
    /\ UNCHANGED <<now, dispatchDisabled, waiting, span, once, pages, filed>>

\* stopReplay by the page: the flush may restart the recorder before it stops.
StopReplay ==
    /\ rec.recording = "yes"
    /\ rec' = Stop(Flushed(rec))
    /\ FlushEffects(rec)

\* The ten-second interval.
FlushReplays ==
    /\ rec.recording = "yes" /\ rec.events # <<>>
    /\ rec' = Flushed(rec)
    /\ FlushEffects(rec)

\* rrweb emits an event; a full buffer is flushed at once, so that the hard cap
\* behind it never cuts anything.
Emit ==
    /\ rec.recording = "yes" /\ rec.made < MaxEvents
    /\ LET pushed == Push(rec, "inc") IN
       IF Len(pushed.events) >= FlushAt
       THEN rec' = Flushed(pushed) /\ FlushEffects(pushed)
       ELSE /\ rec' = pushed
            /\ UNCHANGED <<now, session, lastPagePath, onceKey, dispatchDisabled, waiting, span,
                           once, pages, filed>>

\* A dispatch is answered with 401.
Unauthorized ==
    /\ waiting = "yes"
    /\ dispatchDisabled' = "yes" /\ waiting' = "no"
    /\ UNCHANGED <<now, session, lastPagePath, onceKey, rec, span, once, pages, filed>>

\* The page is loaded again in the same tab, and a new tracker constructed.
Reload ==
    /\ lastPagePath' = 0 /\ onceKey' = "no"
    /\ dispatchDisabled' = "no" /\ waiting' = "no"
    /\ rec' = NoRecorder(rec.made)
    /\ pageSent' = <<0, 0, FALSE>>
    /\ UNCHANGED <<now, session, span, once, pageTwice, filed>>

Tick ==
    /\ now < MaxTime
    /\ now' = now + 1
    /\ UNCHANGED <<session, lastPagePath, onceKey, dispatchDisabled, waiting, rec, span, once,
                   pages, filed>>

Next ==
    \/ TrackInteraction \/ \E path \in Paths : TrackPageView(path)
    \/ TrackInteractionOnceKnown \/ TrackInteractionOnce \/ SessionId
    \/ StartReplay \/ StopReplay \/ FlushReplays \/ Emit
    \/ Unauthorized \/ Reload \/ Tick

Spec == Init /\ [][Next]_vars

-----------------------------------------------------------------------------
Event == [n : Nat, kind : {"full", "inc"}]

\* Types; the replay buffer is always below the flush threshold between steps.
TypeOK ==
    /\ now \in 1..MaxTime \cup {1}
    /\ sid \in 0..minted /\ minted \in Nat
    /\ startTs \in 0..now /\ lastAct \in 0..now
    /\ lastPagePath \in Paths \cup {0} /\ onceKey \in {"yes", "no"} /\ onceStored \in {"yes", "no"}
    /\ dispatchDisabled \in {"yes", "no"} /\ waiting \in {"yes", "no"}
    /\ rec \in [events : Seq(Event), sequence : Nat, recording : {"yes", "no"}, recorders : Nat, made : Nat]
    /\ Len(rec.events) < FlushAt

\* Whatever mixture of events, flushes, restarts, 401s and page loads happens,
\* the sends filed under one session span at most the hard cap, and none comes
\* later than the idle timeout after the session's last usage event.
SessionBounded ==
    \A s \in Sessions : span[s].last - span[s].first <= HardCap /\ span[s].gap <= Idle

\* "Track interaction only once per session": never twice in one, although a
\* rotation and a page load forget the key in memory.
OncePerSession == \A s \in Sessions : onceSent[s] <= 1

\* Recording means exactly one rrweb recorder, through nested restarts from an
\* event, from a flush and from inside stopReplay.
OneRecorder == rec.recorders = IF rec.recording = "yes" THEN 1 ELSE 0

Increasing(s) == \A i, j \in DOMAIN s : i < j => s[i] < s[j]

\* Replay events are sent at most once and in the order they were recorded, the
\* buffered ones after those, also when sending restarts the recorder.
ReplayInOrder == Increasing(filed \o [i \in DOMAIN rec.events |-> rec.events[i].n])

\* "Page view deduplication" (usage-tracker.ts:497): in one session and page load
\* the same page view is not sent twice in a row, except after one that itself
\* rotated the session, whose rotation forgets the path it had just noted.
PageViewOnce == pageTwice = "no"
=============================================================================
