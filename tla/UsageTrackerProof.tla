-------------------------- MODULE UsageTrackerProof --------------------------
(***************************************************************************)
(* Proofs about the browser usage tracker.  The state falls into four      *)
(* groups that only meet in EnsureSessionCurrent: the session and what was *)
(* sent under it, the page view remembered in memory, the once key, and    *)
(* the recorder with the numbers of the events it has filed.               *)
(***************************************************************************)
EXTENDS UsageTracker, SequenceTheorems, TLAPS

Recorder ==
    [events : Seq(Event), sequence : Nat, recording : {"yes", "no"}, recorders : Nat, made : Nat]

\* The session and its clock.
SessionTypes ==
    /\ now \in Nat /\ now > 0
    /\ sid \in Nat /\ minted \in Nat /\ sid <= minted
    /\ startTs \in Nat /\ startTs <= now
    /\ lastAct \in Nat /\ lastAct <= now
    /\ span \in [Sessions -> [first : Nat, event : Nat, last : Nat, gap : Nat]]

\* Nothing has been sent under an id that is not minted yet.
Fresh ==
    \A s \in Sessions : s > minted =>
        span[s].first = 0 /\ span[s].event = 0 /\ span[s].last = 0 /\ span[s].gap = 0

\* The stored timestamps of the current session cover its sends: it began no
\* later than the first of them, and its last activity is its last usage event.
Covered ==
    \A s \in Sessions : s = sid =>
        /\ span[s].first > 0 => startTs > 0 /\ startTs <= span[s].first
        /\ span[s].event > 0 => lastAct = span[s].event

SessionInv == SessionTypes /\ Fresh /\ Covered /\ SessionBounded

\* While dispatching is enabled, the last page view that did not rotate the
\* session is the remembered one, unless the session has rotated since.
PageNoted ==
    Enabled /\ pageSent[2] \in Paths /\ pageSent[3] = FALSE =>
        /\ pageSent[1] \in Nat /\ pageSent[1] <= sid
        /\ pageSent[1] = sid => lastPagePath = pageSent[2]

\* The once key is in the tab's storage before the interaction is sent.
OnceNoted ==
    /\ onceSent \in [Sessions -> Nat]
    /\ onceStored = "no" => \A s \in Sessions : onceSent[s] = 0

\* One rrweb recorder while recording, none and no buffer otherwise.
WellFormed(r) ==
    /\ r \in Recorder
    /\ r.recorders = IF r.recording = "yes" THEN 1 ELSE 0
    /\ r.recording = "no" => r.events = <<>>

RecorderInv == WellFormed(rec) /\ Len(rec.events) < FlushAt

\* f was filed and e is buffered, of the events numbered up to m.
Ordered(f, e, m) ==
    /\ f \in Seq(Nat) /\ e \in Seq(Event) /\ m \in Nat
    /\ \A i \in 1..Len(f) : f[i] <= m
    /\ \A i, j \in 1..Len(f) : i < j => f[i] < f[j]
    /\ \A i \in 1..Len(e) : e[i].n <= m
    /\ \A i, j \in 1..Len(e) : i < j => e[i].n < e[j].n
    /\ \A i \in 1..Len(f), j \in 1..Len(e) : f[i] < e[j].n

OrderInv == Ordered(filed, rec.events, rec.made)

UsageInv ==
    /\ SessionInv
    /\ PageNoted /\ PageViewOnce
    /\ OnceNoted /\ OncePerSession
    /\ RecorderInv /\ OrderInv

-----------------------------------------------------------------------------
\* What checkAndRotateSession and getStorageValue leave (usage-tracker.ts): the
\* current id, which is the old one or a fresh one.
LEMMA CurrentFacts ==
    ASSUME SessionTypes
    PROVE  /\ CurrentId \in Nat /\ CurrentId >= sid
           /\ CurrentId # sid => CurrentId = minted + 1
           /\ CurrentId = sid => ~Expired /\ sid # 0
           /\ Expired \in BOOLEAN
BY DEF SessionTypes, CurrentId, Expired

\* EnsureSessionCurrent keeps the session's types and advances the id.
LEMMA EnsureFacts ==
    ASSUME SessionTypes, NEW bump \in BOOLEAN, NEW page, NEW key, now' = now,
           EnsureSessionCurrent(bump, page, key)
    PROVE  /\ sid' = CurrentId /\ sid' \in Nat /\ minted' \in Nat /\ sid' <= minted'
           /\ minted' >= minted
           /\ sid' = sid => minted' = minted
           /\ sid' # sid => sid' = minted + 1 /\ minted' = minted + 1
           /\ startTs' \in Nat /\ startTs' > 0 /\ startTs' <= now
           /\ sid' = sid /\ startTs > 0 => startTs' = startTs
           /\ sid' = sid /\ ~bump => lastAct' = lastAct
           /\ bump => lastAct' = now
           /\ lastAct' \in Nat /\ lastAct' <= now
           /\ sid' = sid /\ lastAct > 0 => now - lastAct <= Idle
           /\ sid' = sid /\ startTs > 0 => now - startTs <= HardCap
<1>1. Idle \in Nat /\ HardCap \in Nat
  BY UsageTrackerAssumption
<1> QED
  BY <1>1, CurrentFacts DEF SessionTypes, EnsureSessionCurrent, Expired

\* A send under the current session keeps the session's bounds.
LEMMA SentStep ==
    ASSUME SessionInv, NEW bump \in BOOLEAN, NEW page, NEW key, now' = now,
           EnsureSessionCurrent(bump, page, key), Sent(CurrentId, bump)
    PROVE  SessionInv'
<1> DEFINE c == CurrentId
<1> DEFINE p == span[c]
<1> DEFINE gap == IF p.event = 0 THEN 0 ELSE now - p.event
<1> DEFINE q == [first |-> IF p.first = 0 THEN now ELSE p.first,
                 event |-> IF bump THEN now ELSE p.event,
                 last  |-> now,
                 gap   |-> IF gap > p.gap THEN gap ELSE p.gap]
<1>0. Idle \in Nat /\ HardCap \in Nat
  BY UsageTrackerAssumption
<1>1. SessionTypes /\ Fresh /\ Covered /\ SessionBounded
  BY DEF SessionInv
<1>2. span' = [span EXCEPT ![c] = q]
  BY DEF Sent
<1>3. \A s \in Sessions : s # c => span'[s] = span[s]
  BY <1>1, <1>2 DEF SessionTypes
<1>4. c \in Sessions => span'[c] = q
  BY <1>1, <1>2 DEF SessionTypes
<1>5. Sessions \subseteq Int
  BY UsageTrackerAssumption DEF Sessions
<1>6. ASSUME c \in Sessions
      PROVE  /\ p.first \in Nat /\ p.event \in Nat /\ p.gap \in Nat
             /\ p.gap <= Idle
             /\ p.first > 0 => startTs > 0 /\ startTs <= p.first /\ c = sid
             /\ p.event > 0 => lastAct = p.event /\ c = sid
  <2>1. p \in [first : Nat, event : Nat, last : Nat, gap : Nat]
    BY <1>1, <1>6 DEF SessionTypes
  <2>2. CASE c = sid
    BY <1>1, <1>6, <2>1, <2>2 DEF Covered, SessionBounded
  <2>3. CASE c # sid
    <3>1. c > minted
      BY <1>1, <2>3, CurrentFacts DEF SessionTypes
    <3>2. p.first = 0 /\ p.event = 0 /\ p.gap = 0
      BY <1>1, <1>6, <3>1 DEF Fresh
    <3> QED
      BY <1>0, <2>1, <3>2
  <2> QED
    BY <2>2, <2>3
<1>7. /\ now \in Nat /\ now > 0 /\ sid' = c /\ lastAct \in Nat /\ lastAct <= now
      /\ startTs \in Nat /\ startTs <= now
  BY <1>1 DEF SessionTypes, EnsureSessionCurrent
<1>8. ASSUME c \in Sessions
      PROVE  /\ gap \in Nat /\ gap <= Idle
             /\ p.first > 0 => now - p.first <= HardCap
  <2>1. /\ sid' = sid /\ lastAct > 0 => now - lastAct <= Idle
        /\ sid' = sid /\ startTs > 0 => now - startTs <= HardCap
    BY <1>1, EnsureFacts
  <2>2. p.event > 0 => now - p.event <= Idle /\ now - p.event \in Nat
    BY <1>6, <1>7, <1>8, <2>1
  <2>3. p.first > 0 => now - p.first <= HardCap
    BY <1>0, <1>6, <1>7, <1>8, <2>1
  <2> QED
    BY <1>0, <1>6, <1>8, <2>2, <2>3
<1>9. SessionTypes'
  <2>1. c \in Sessions => q \in [first : Nat, event : Nat, last : Nat, gap : Nat]
    BY <1>6, <1>7, <1>8
  <2>2. span' \in [Sessions -> [first : Nat, event : Nat, last : Nat, gap : Nat]]
    <3> HIDE DEF q
    <3> QED
      BY <1>1, <1>2, <2>1 DEF SessionTypes
  <2> QED
    BY <1>1, <1>7, <2>2, EnsureFacts DEF SessionTypes
<1>10. Fresh'
  <2>1. minted' \in Nat /\ minted' >= minted /\ c <= minted' /\ c \in Nat /\ minted \in Nat
    BY <1>1, <1>7, EnsureFacts, CurrentFacts DEF SessionTypes
  <2> QED
    BY <1>1, <1>3, <1>5, <2>1 DEF Fresh
<1>11. Covered'
  <2>1. SUFFICES ASSUME c \in Sessions
                 PROVE  /\ q.first > 0 => startTs' > 0 /\ startTs' <= q.first
                        /\ q.event > 0 => lastAct' = q.event
    BY <1>4, <1>7 DEF Covered
  <2>2. /\ startTs' > 0 /\ startTs' <= now
        /\ sid' = sid /\ startTs > 0 => startTs' = startTs
        /\ sid' = sid /\ ~bump => lastAct' = lastAct
        /\ bump => lastAct' = now
    BY <1>1, EnsureFacts
  <2>3. startTs' <= q.first
    BY <1>6, <1>7, <2>1, <2>2
  <2>4. q.event > 0 => lastAct' = q.event
    BY <1>6, <1>7, <2>1, <2>2
  <2> QED
    BY <2>2, <2>3, <2>4
<1>12. SessionBounded'
  <2>1. c \in Sessions => q.last - q.first <= HardCap /\ q.gap <= Idle
    BY <1>0, <1>6, <1>7, <1>8
  <2> QED
    BY <1>1, <1>3, <1>4, <2>1 DEF SessionBounded
<1> QED
  BY <1>9, <1>10, <1>11, <1>12 DEF SessionInv

\* So does checking the session without sending anything.
LEMMA QuietStep ==
    ASSUME SessionInv, NEW page, NEW key, now' = now, span' = span,
           EnsureSessionCurrent(FALSE, page, key)
    PROVE  SessionInv'
<1>1. SessionTypes /\ Fresh /\ Covered /\ SessionBounded
  BY DEF SessionInv
<1>2. /\ sid' \in Nat /\ minted' \in Nat /\ sid' <= minted' /\ minted' >= minted
      /\ sid' # sid => sid' = minted + 1
      /\ startTs' \in Nat /\ startTs' > 0 /\ startTs' <= now
      /\ sid' = sid /\ startTs > 0 => startTs' = startTs
      /\ sid' = sid => lastAct' = lastAct
      /\ lastAct' \in Nat /\ lastAct' <= now
  BY <1>1, EnsureFacts
<1>3. SessionTypes'
  BY <1>1, <1>2 DEF SessionTypes
<1>4. Sessions \subseteq Int
  BY UsageTrackerAssumption DEF Sessions
<1>5. Fresh'
  BY <1>1, <1>2, <1>4 DEF Fresh, SessionTypes
<1>6. Covered'
  <2>1. CASE sid' = sid
    BY <1>1, <1>2, <2>1 DEF Covered
  <2>2. CASE sid' # sid
    BY <1>1, <1>2, <1>4, <2>2 DEF Covered, Fresh, SessionTypes
  <2> QED
    BY <2>1, <2>2
<1>7. SessionBounded'
  BY <1>1 DEF SessionBounded
<1> QED
  BY <1>3, <1>5, <1>6, <1>7 DEF SessionInv

\* What track does to the session, the first half of every usage event.
LEMMA TrackStep ==
    ASSUME SessionInv, NEW page, NEW key, Track(page, key)
    PROVE  SessionInv'
<1>1. CASE Enabled
  <2>1. EnsureSessionCurrent(TRUE, page, key)
    BY <1>1 DEF Track, EnsureSessionCurrent
  <2>2. Sent(CurrentId, TRUE) /\ now' = now
    BY <1>1 DEF Track
  <2> QED
    BY <2>1, <2>2, SentStep
<1>2. CASE ~Enabled
  <2>1. EnsureSessionCurrent(FALSE, page, key)
    BY <1>2 DEF Track, EnsureSessionCurrent
  <2>2. span' = span /\ now' = now
    BY <1>2 DEF Track
  <2> QED
    BY <2>1, <2>2, QuietStep
<1> QED
  BY <1>1, <1>2

\* And what a flush does.
LEMMA FlushStep ==
    ASSUME SessionInv, NEW r, FlushEffects(r)
    PROVE  SessionInv'
<1>1. CASE r.events # <<>> /\ Enabled
  <2>1. EnsureSessionCurrent(FALSE, lastPagePath, onceKey) /\ Sent(CurrentId, FALSE) /\ now' = now
    BY <1>1 DEF FlushEffects
  <2> QED
    BY <2>1, SentStep
<1>2. CASE ~(r.events # <<>> /\ Enabled)
  <2>1. UNCHANGED <<session, span, now>>
    BY <1>2 DEF FlushEffects
  <2> QED
    BY <2>1 DEF session, SessionInv, SessionTypes, Fresh, Covered, SessionBounded
<1> QED
  BY <1>1, <1>2

\* Every step keeps the session's bounds.
LEMMA SessionStep == ASSUME SessionInv, [Next]_vars PROVE SessionInv'
<1>1. CASE UNCHANGED <<session, span, now>>
  BY <1>1 DEF session, SessionInv, SessionTypes, Fresh, Covered, SessionBounded
<1>2. CASE TrackInteraction
  BY <1>2, TrackStep DEF TrackInteraction
<1>3. ASSUME NEW path \in Paths, TrackPageView(path) PROVE SessionInv'
  BY <1>3, TrackStep DEF TrackPageView
<1>4. CASE TrackInteractionOnce
  BY <1>4, TrackStep DEF TrackInteractionOnce
<1>5. CASE SessionId
  <2>1. Sessions \subseteq Int
    BY UsageTrackerAssumption DEF Sessions
  <2>2. /\ sid' = minted + 1 /\ minted' = minted + 1
        /\ UNCHANGED <<now, startTs, lastAct, span>>
    BY <1>5 DEF SessionId
  <2> QED
    BY <2>1, <2>2 DEF SessionInv, SessionTypes, Fresh, Covered, SessionBounded
<1>6. CASE StartReplay
  BY <1>6, QuietStep DEF StartReplay
<1>7. CASE StopReplay \/ FlushReplays
  BY <1>7, FlushStep DEF StopReplay, FlushReplays
<1>8. CASE Emit
  <2>1. CASE Len(Push(rec, "inc").events) >= FlushAt
    BY <1>8, <2>1, FlushStep DEF Emit
  <2>2. CASE ~(Len(Push(rec, "inc").events) >= FlushAt)
    BY <1>8, <2>2, <1>1 DEF Emit
  <2> QED
    BY <2>1, <2>2
<1>9. CASE Tick
  <2>1. now' = now + 1 /\ UNCHANGED <<sid, startTs, lastAct, minted, span>>
    BY <1>9 DEF Tick, session
  <2> QED
    BY <2>1 DEF SessionInv, SessionTypes, Fresh, Covered, SessionBounded
<1>10. CASE TrackInteractionOnceKnown \/ Unauthorized \/ Reload
  BY <1>1, <1>10 DEF TrackInteractionOnceKnown, Unauthorized, Reload
<1>11. CASE UNCHANGED vars
  BY <1>1, <1>11 DEF vars
<1> QED
  BY <1>2, <1>3, <1>4, <1>5, <1>6, <1>7, <1>8, <1>9, <1>10, <1>11 DEF Next

-----------------------------------------------------------------------------
\* A step that checks the session and keeps the remembered path, or rotates,
\* leaves the note on the last page view right.
LEMMA PageKept ==
    ASSUME SessionTypes, PageNoted, NEW bump \in BOOLEAN, NEW key, now' = now,
           EnsureSessionCurrent(bump, lastPagePath, key),
           pageSent' = pageSent, dispatchDisabled' = dispatchDisabled
    PROVE  PageNoted'
<1>1. sid' \in Nat /\ sid' >= sid /\ sid' = CurrentId
  BY CurrentFacts, EnsureFacts
<1>2. sid' = sid => lastPagePath' = lastPagePath
  BY <1>1, CurrentFacts DEF EnsureSessionCurrent
<1>3. sid \in Nat
  BY DEF SessionTypes
<1> QED
  BY <1>1, <1>2, <1>3 DEF PageNoted, Enabled

\* trackPageView itself: what it sends is not what it sent last, and it
\* remembers the path it sends unless it rotates the session.
LEMMA PageViewStep ==
    ASSUME SessionTypes, PageNoted, PageViewOnce, NEW path \in Paths, TrackPageView(path)
    PROVE  PageNoted' /\ PageViewOnce'
<1>1. CASE ~Enabled
  <2>1. ~Enabled' /\ pageTwice' = pageTwice
    BY <1>1 DEF TrackPageView, Track, Enabled, pages
  <2> QED
    BY <2>1 DEF PageNoted, PageViewOnce
<1>2. CASE Enabled
  <2>1. /\ pageSent' = <<CurrentId, path, Expired>>
        /\ pageTwice' = IF pageSent = <<CurrentId, path, FALSE>> THEN "yes" ELSE pageTwice
        /\ lastPagePath # path
        /\ sid' = CurrentId
        /\ lastPagePath' = IF Expired THEN 0 ELSE path
    BY <1>2 DEF TrackPageView, Track, EnsureSessionCurrent
  <2>2. CurrentId \in Nat /\ CurrentId >= sid /\ sid \in Nat
    BY CurrentFacts DEF SessionTypes
  <2>3. pageSent # <<CurrentId, path, FALSE>>
    <3>1. SUFFICES ASSUME pageSent = <<CurrentId, path, FALSE>> PROVE FALSE
      OBVIOUS
    <3>2. pageSent[1] = CurrentId /\ pageSent[2] = path /\ pageSent[3] = FALSE
      BY <3>1
    <3>3. CurrentId <= sid /\ (CurrentId = sid => lastPagePath = path)
      BY <1>2, <3>2 DEF PageNoted
    <3> QED
      BY <2>1, <2>2, <3>3
  <2>4. pageSent'[1] = CurrentId /\ pageSent'[2] = path /\ pageSent'[3] = Expired
    <3> DEFINE e == Expired
    <3> HIDE DEF e
    <3>1. pageSent' = <<CurrentId, path, e>>
      BY <2>1 DEF e
    <3>2. pageSent'[1] = CurrentId /\ pageSent'[2] = path /\ pageSent'[3] = e
      BY <3>1
    <3> QED
      BY <3>2 DEF e
  <2>5. PageNoted'
    <3>1. pageSent'[3] = FALSE => ~Expired
      BY <2>4
    <3> QED
      BY <2>1, <2>2, <2>4, <3>1 DEF PageNoted
  <2> QED
    BY <2>1, <2>3, <2>5 DEF PageViewOnce
<1> QED
  BY <1>1, <1>2

\* Every step keeps the note on the last page view.
LEMMA PageStep ==
    ASSUME SessionTypes, PageNoted, PageViewOnce, [Next]_vars
    PROVE  PageNoted' /\ PageViewOnce'
<1>1. CASE UNCHANGED <<sid, lastPagePath, dispatchDisabled, pages>>
  BY <1>1 DEF PageNoted, PageViewOnce, Enabled, pages
<1>2. ASSUME UNCHANGED <<now, dispatchDisabled, pages>>, NEW bump \in BOOLEAN, NEW key,
             EnsureSessionCurrent(bump, lastPagePath, key)
      PROVE  PageNoted' /\ PageViewOnce'
  BY <1>2, PageKept DEF pages, PageViewOnce
<1>3. ASSUME NEW key, Track(lastPagePath, key), UNCHANGED pages PROVE PageNoted' /\ PageViewOnce'
  <2>1. Enabled \in BOOLEAN
    BY DEF Enabled
  <2> QED
    BY <1>2, <1>3, <2>1 DEF Track
<1>4. ASSUME NEW r, FlushEffects(r) PROVE PageNoted' /\ PageViewOnce'
  <2>1. CASE r.events # <<>> /\ Enabled
    BY <1>2, <1>4, <2>1 DEF FlushEffects
  <2>2. CASE ~(r.events # <<>> /\ Enabled)
    BY <1>1, <1>4, <2>2 DEF FlushEffects, session
  <2> QED
    BY <2>1, <2>2
<1>5. CASE TrackInteraction
  BY <1>3, <1>5 DEF TrackInteraction
<1>6. ASSUME NEW path \in Paths, TrackPageView(path) PROVE PageNoted' /\ PageViewOnce'
  BY <1>6, PageViewStep
<1>7. CASE TrackInteractionOnce
  BY <1>3, <1>7 DEF TrackInteractionOnce
<1>8. CASE SessionId
  <2>1. sid = 0 /\ sid' = minted + 1 /\ UNCHANGED <<lastPagePath, dispatchDisabled, pages>>
    BY <1>8 DEF SessionId
  <2>2. sid' > sid /\ sid' \in Nat /\ sid \in Nat
    BY <2>1 DEF SessionTypes
  <2> QED
    BY <2>1, <2>2 DEF PageNoted, PageViewOnce, Enabled, pages, SessionTypes
<1>9. CASE StartReplay
  BY <1>2, <1>9 DEF StartReplay
<1>10. CASE StopReplay \/ FlushReplays
  BY <1>4, <1>10 DEF StopReplay, FlushReplays
<1>11. CASE Emit
  BY <1>1, <1>4, <1>11 DEF Emit, session
<1>12. CASE Unauthorized
  BY <1>12 DEF Unauthorized, PageNoted, PageViewOnce, Enabled, pages
<1>13. CASE Reload
  <2>1. pageSent' = <<0, 0, FALSE>> /\ pageTwice' = pageTwice /\ 0 \notin Paths
    BY <1>13, UsageTrackerAssumption DEF Reload
  <2> QED
    BY <2>1 DEF PageNoted, PageViewOnce
<1>14. CASE TrackInteractionOnceKnown \/ Tick \/ UNCHANGED vars
  BY <1>1, <1>14 DEF TrackInteractionOnceKnown, Tick, vars, session
<1> QED
  BY <1>5, <1>6, <1>7, <1>8, <1>9, <1>10, <1>11, <1>12, <1>13, <1>14 DEF Next

\* Every step stores the once key before it counts, and counts once.
LEMMA OnceStep ==
    ASSUME OnceNoted, OncePerSession, [Next]_vars
    PROVE  OnceNoted' /\ OncePerSession'
<1>1. CASE UNCHANGED once
  BY <1>1 DEF once, OnceNoted, OncePerSession
<1>2. CASE TrackInteractionOnce
  <2>1. /\ onceStored = "no" /\ onceStored' = "yes"
        /\ onceSent' = IF Enabled THEN [onceSent EXCEPT ![CurrentId] = onceSent[CurrentId] + 1]
                       ELSE onceSent
    BY <1>2 DEF TrackInteractionOnce
  <2>2. \A s \in Sessions : onceSent[s] = 0
    BY <2>1 DEF OnceNoted
  <2>3. onceSent' \in [Sessions -> Nat] /\ \A s \in Sessions : onceSent'[s] <= 1
    <3>1. onceSent \in [Sessions -> Nat]
      BY DEF OnceNoted
    <3>2. CASE Enabled
      <4> DEFINE n == onceSent[CurrentId] + 1
      <4>1. onceSent' = [onceSent EXCEPT ![CurrentId] = n]
        BY <2>1, <3>2
      <4>2. CurrentId \in Sessions => n = 1
        BY <2>2
      <4> HIDE DEF n
      <4>3. \A s \in Sessions : onceSent'[s] = IF s = CurrentId THEN n ELSE onceSent[s]
        BY <3>1, <4>1
      <4>4. DOMAIN onceSent' = Sessions /\ onceSent' = [s \in Sessions |-> onceSent'[s]]
        BY <3>1, <4>1
      <4>5. \A s \in Sessions : onceSent'[s] = 0 \/ onceSent'[s] = 1
        BY <2>2, <4>2, <4>3
      <4> QED
        BY <4>4, <4>5
    <3> QED
      BY <2>1, <2>2, <3>1, <3>2
  <2> QED
    BY <2>1, <2>3 DEF OnceNoted, OncePerSession
<1>3. CASE Emit
  BY <1>1, <1>3 DEF Emit, FlushEffects
<1> QED
  BY <1>1, <1>2, <1>3 DEF Next, vars, once, TrackInteraction, TrackPageView,
     TrackInteractionOnceKnown, SessionId, StartReplay, StopReplay, FlushReplays,
     FlushEffects, Unauthorized, Reload, Tick

-----------------------------------------------------------------------------
\* emit numbers the event it buffers after all the earlier ones.
LEMMA OrderedPush ==
    ASSUME NEW f, NEW e, NEW m, Ordered(f, e, m), NEW kind \in {"full", "inc"}
    PROVE  Ordered(f, Append(e, [n |-> m + 1, kind |-> kind]), m + 1)
<1> DEFINE x == [n |-> m + 1, kind |-> kind]
<1> DEFINE g == Append(e, x)
<1>1. f \in Seq(Nat) /\ e \in Seq(Event) /\ m \in Nat
  BY DEF Ordered
<1>2. x \in Event /\ x.n = m + 1
  BY <1>1 DEF Event
<1> HIDE DEF x
<1>3. /\ g \in Seq(Event) /\ Len(g) = Len(e) + 1 /\ g[Len(e) + 1] = x
      /\ \A i \in 1..Len(e) : g[i] = e[i] /\ e[i].n \in Nat
      /\ \A i \in 1..Len(f) : f[i] \in Nat
      /\ Len(e) \in Nat
  <2>1. \A i \in 1..Len(e) : e[i] \in Event
    BY <1>1
  <2>2. \A y \in Event : y.n \in Nat
    BY DEF Event
  <2>3. /\ g \in Seq(Event) /\ Len(g) = Len(e) + 1 /\ g[Len(e) + 1] = x
        /\ \A i \in 1..Len(e) : g[i] = e[i]
    BY <1>1, <1>2
  <2>4. Len(e) \in Nat /\ \A i \in 1..Len(f) : f[i] \in Nat
    BY <1>1
  <2> QED
    BY <2>1, <2>2, <2>3, <2>4
<1> HIDE DEF g
<1>4. \A i \in 1..Len(g) : i \in 1..Len(e) \/ i = Len(e) + 1
  BY <1>3
<1>5. ASSUME NEW i \in 1..Len(f) PROVE f[i] <= m + 1
  <2>1. f[i] <= m /\ f[i] \in Nat
    BY <1>3 DEF Ordered
  <2> QED
    BY <1>1, <2>1
<1>6. ASSUME NEW i \in 1..Len(g) PROVE g[i].n <= m + 1
  <2>1. CASE i \in 1..Len(e)
    <3>1. e[i].n <= m /\ e[i].n \in Nat /\ g[i] = e[i]
      BY <1>3, <2>1 DEF Ordered
    <3> QED
      BY <1>1, <3>1
  <2>2. CASE i = Len(e) + 1
    <3>1. g[i].n = m + 1
      BY <1>2, <1>3, <2>2
    <3> QED
      BY <1>1, <3>1
  <2> QED
    BY <1>4, <2>1, <2>2
<1>7. ASSUME NEW i \in 1..Len(g), NEW j \in 1..Len(g), i < j PROVE g[i].n < g[j].n
  <2>1. i \in 1..Len(e)
    BY <1>3, <1>7
  <2>2. CASE j \in 1..Len(e)
    BY <1>3, <1>7, <2>1, <2>2 DEF Ordered
  <2>3. CASE j = Len(e) + 1
    <3>1. e[i].n <= m /\ e[i].n \in Nat
      BY <1>3, <2>1 DEF Ordered
    <3> QED
      BY <1>1, <1>2, <1>3, <2>1, <2>3, <3>1
  <2> QED
    BY <1>4, <2>2, <2>3
<1>8. ASSUME NEW i \in 1..Len(f), NEW j \in 1..Len(g) PROVE f[i] < g[j].n
  <2>1. CASE j \in 1..Len(e)
    BY <1>3, <2>1 DEF Ordered
  <2>2. CASE j = Len(e) + 1
    <3>1. f[i] <= m /\ f[i] \in Nat
      BY <1>3 DEF Ordered
    <3> QED
      BY <1>1, <1>2, <1>3, <2>2, <3>1
  <2> QED
    BY <1>4, <2>1, <2>2
<1>9. \A i, j \in 1..Len(f) : i < j => f[i] < f[j]
  BY DEF Ordered
<1>10. m + 1 \in Nat
  BY <1>1
<1>11. Ordered(f, g, m + 1)
  BY <1>1, <1>3, <1>5, <1>6, <1>7, <1>8, <1>9, <1>10 DEF Ordered
<1> QED
  BY <1>11 DEF g, x

\* stopReplay empties the buffer.
LEMMA OrderedDrop ==
    ASSUME NEW f, NEW e, NEW m, Ordered(f, e, m)
    PROVE  Ordered(f, <<>>, m)
BY DEF Ordered

\* flushReplays posts the buffer behind what was posted before.
LEMMA OrderedFile ==
    ASSUME NEW f, NEW e, NEW m, Ordered(f, e, m)
    PROVE  Ordered(f \o [i \in DOMAIN e |-> e[i].n], <<>>, m)
<1> DEFINE h == [i \in DOMAIN e |-> e[i].n]
<1> DEFINE g == f \o h
<1>1. f \in Seq(Nat) /\ e \in Seq(Event) /\ m \in Nat
  BY DEF Ordered
<1>2. DOMAIN e = 1..Len(e) /\ Len(e) \in Nat /\ \A i \in 1..Len(e) : e[i].n \in Nat
  <2>1. DOMAIN e = 1..Len(e) /\ Len(e) \in Nat /\ \A i \in 1..Len(e) : e[i] \in Event
    BY <1>1
  <2>2. \A y \in Event : y.n \in Nat
    BY DEF Event
  <2> QED
    BY <2>1, <2>2
<1>3. h \in [1..Len(e) -> Nat] /\ \A i \in 1..Len(e) : h[i] = e[i].n
  BY <1>2
<1> HIDE DEF h
<1>4. h \in Seq(Nat) /\ Len(h) = Len(e)
  <2>1. h \in Seq(Nat)
    BY <1>2, <1>3
  <2>2. DOMAIN h = 1..Len(h) /\ Len(h) \in Nat /\ DOMAIN h = 1..Len(e)
    BY <1>3, <2>1
  <2>3. \A a, b \in Nat : 1..a = 1..b => a = b
    OBVIOUS
  <2> QED
    BY <1>2, <2>1, <2>2, <2>3
<1>5. /\ g \in Seq(Nat) /\ Len(g) = Len(f) + Len(e) /\ Len(f) \in Nat
      /\ \A i \in 1..Len(f) : g[i] = f[i] /\ f[i] \in Nat
      /\ \A i \in 1..Len(g) : i > Len(f) => g[i] = h[i - Len(f)]
  <2>1. Len(f) \in Nat /\ \A i \in 1..Len(f) : f[i] \in Nat
    BY <1>1
  <2>2. /\ g \in Seq(Nat) /\ Len(g) = Len(f) + Len(h)
        /\ \A i \in 1..Len(g) : g[i] = IF i <= Len(f) THEN f[i] ELSE h[i - Len(f)]
    <3>1. f \in Seq(Nat) /\ h \in Seq(Nat)
      BY <1>1, <1>4
    <3> QED
      BY <3>1, ConcatProperties, Zenon
  <2>3. \A i \in 1..Len(f) : g[i] = f[i]
    BY <1>2, <1>4, <2>1, <2>2
  <2>4. \A i \in 1..Len(g) : i > Len(f) => g[i] = h[i - Len(f)]
    BY <2>1, <2>2
  <2> QED
    BY <1>4, <2>1, <2>2, <2>3, <2>4
<1> HIDE DEF g
<1>6. \A i \in 1..Len(g) : i \in 1..Len(f) \/ (i > Len(f) /\ i - Len(f) \in 1..Len(e))
  BY <1>2, <1>5
<1>7. \A i \in 1..Len(g) : i > Len(f) => i - Len(f) \in 1..Len(e) /\ g[i] = e[i - Len(f)].n
  BY <1>2, <1>3, <1>5, <1>6
<1>8. \A i \in 1..Len(g) : g[i] <= m
  BY <1>5, <1>6, <1>7 DEF Ordered
<1>9. ASSUME NEW i \in 1..Len(g), NEW j \in 1..Len(g), i < j PROVE g[i] < g[j]
  <2>1. CASE i \in 1..Len(f) /\ j \in 1..Len(f)
    BY <1>5, <1>9, <2>1 DEF Ordered
  <2>2. CASE i \in 1..Len(f) /\ j > Len(f)
    BY <1>5, <1>7, <2>2 DEF Ordered
  <2>3. CASE i > Len(f) /\ j > Len(f)
    <3>1. i - Len(f) < j - Len(f)
      BY <1>5, <1>9
    <3> QED
      BY <1>7, <2>3, <3>1 DEF Ordered
  <2>4. CASE i > Len(f) /\ j \in 1..Len(f)
    BY <1>5, <1>9, <2>4
  <2> QED
    BY <1>6, <2>1, <2>2, <2>3, <2>4
<1>10. Ordered(g, <<>>, m)
  BY <1>1, <1>5, <1>8, <1>9 DEF Ordered
<1> QED
  BY <1>10 DEF g, h

\* Nothing is posted for an empty chunk.
LEMMA FileNothing ==
    ASSUME filed \in Seq(Nat), File(<<>>)
    PROVE  filed' = filed
<1>1. [i \in DOMAIN <<>> |-> <<>>[i].n] = <<>>
  OBVIOUS
<1> QED
  BY <1>1 DEF File

\* What emit, startReplay and stopReplay make of a recorder.
LEMMA RecorderFacts ==
    ASSUME NEW r \in Recorder
    PROVE  /\ \A kind \in {"full", "inc"} :
                  /\ Push(r, kind) \in Recorder
                  /\ Push(r, kind).events = Append(r.events, [n |-> r.made + 1, kind |-> kind])
                  /\ Push(r, kind).made = r.made + 1
                  /\ Push(r, kind).recording = r.recording
                  /\ Push(r, kind).recorders = r.recorders
           /\ Record(r) \in Recorder
           /\ Record(r).events = Append(r.events, [n |-> r.made + 1, kind |-> "full"])
           /\ Record(r).made = r.made + 1
           /\ Record(r).recording = "yes"
           /\ Record(r).recorders = r.recorders + 1
           /\ r.recorders > 0 => Stop(r) \in Recorder
           /\ Stop(r).events = <<>> /\ Stop(r).made = r.made
           /\ Stop(r).recording = "no" /\ Stop(r).recorders = r.recorders - 1
<1>1. ASSUME NEW kind \in {"full", "inc"}
      PROVE  /\ Push(r, kind) \in Recorder
             /\ Push(r, kind).events = Append(r.events, [n |-> r.made + 1, kind |-> kind])
             /\ Push(r, kind).made = r.made + 1
             /\ Push(r, kind).recording = r.recording
             /\ Push(r, kind).recorders = r.recorders
  <2> DEFINE x == [n |-> r.made + 1, kind |-> kind]
  <2>1. x \in Event
    BY DEF Recorder, Event
  <2> DEFINE es == Append(r.events, x)
  <2>2. es \in Seq(Event) /\ r.made + 1 \in Nat
    <3> HIDE DEF x
    <3> QED
      BY <2>1 DEF Recorder
  <2> HIDE DEF es
  <2>3. Push(r, kind) = [r EXCEPT !.events = es, !.made = r.made + 1]
    BY DEF Push, es
  <2>4. /\ Push(r, kind) \in Recorder
        /\ Push(r, kind).events = es /\ Push(r, kind).made = r.made + 1
        /\ Push(r, kind).recording = r.recording
        /\ Push(r, kind).recorders = r.recorders
    BY <2>2, <2>3 DEF Recorder
  <2> QED
    BY <2>4 DEF es
<1>2. /\ Record(r) \in Recorder
      /\ Record(r).events = Push(r, "full").events
      /\ Record(r).made = Push(r, "full").made
      /\ Record(r).recording = "yes"
      /\ Record(r).recorders = r.recorders + 1
  <2> DEFINE p == Push(r, "full")
  <2>1. p \in Recorder /\ p.recorders = r.recorders
    BY <1>1
  <2>2. Record(r) = [p EXCEPT !.recording = "yes", !.recorders = r.recorders + 1]
    BY DEF Record
  <2> HIDE DEF p
  <2>3. r.recorders + 1 \in Nat
    BY DEF Recorder
  <2>4. /\ Record(r) \in Recorder
        /\ Record(r).events = p.events /\ Record(r).made = p.made
        /\ Record(r).recording = "yes" /\ Record(r).recorders = r.recorders + 1
    BY <2>1, <2>2, <2>3 DEF Recorder
  <2> QED
    BY <2>4 DEF p
<1>3. /\ r.recorders > 0 => Stop(r) \in Recorder
      /\ Stop(r).events = <<>> /\ Stop(r).made = r.made
      /\ Stop(r).recording = "no" /\ Stop(r).recorders = r.recorders - 1
  <2>1. <<>> \in Seq(Event)
    OBVIOUS
  <2>2. r.recorders > 0 => r.recorders - 1 \in Nat
    BY DEF Recorder
  <2>3. Stop(r) = [r EXCEPT !.events = <<>>, !.sequence = 0, !.recording = "no",
                            !.recorders = r.recorders - 1]
    BY DEF Stop
  <2>4. /\ Stop(r).events = <<>> /\ Stop(r).made = r.made
        /\ Stop(r).recording = "no" /\ Stop(r).recorders = r.recorders - 1
    BY <2>3 DEF Recorder
  <2>5. ASSUME r.recorders > 0 PROVE Stop(r) \in Recorder
    <3> DEFINE k == r.recorders - 1
    <3>1. k \in Nat
      BY <2>2, <2>5
    <3> DEFINE e == <<>>
    <3>2. Stop(r) = [r EXCEPT !.events = e, !.sequence = 0, !.recording = "no",
                              !.recorders = k]
      BY <2>3
    <3>3. e \in Seq(Event)
      BY <2>1
    <3> HIDE DEF k, e
    <3>4. Stop(r) = [events |-> e, sequence |-> 0, recording |-> "no", recorders |-> k,
                     made |-> r.made]
      BY <3>2 DEF Recorder
    <3>5. r.made \in Nat
      BY DEF Recorder
    <3> QED
      BY <3>1, <3>3, <3>4, <3>5 DEF Recorder
  <2> QED
    BY <2>4, <2>5
<1> QED
  BY <1>1, <1>2, <1>3

\* A restart: the buffer has been dropped or posted, f is what was posted, and
\* the one event left is the new snapshot.
LEMMA RestartFacts ==
    ASSUME NEW r, WellFormed(r), NEW f,
           Expired /\ r.recording = "yes" => Ordered(f, <<>>, r.made),
           ~(Expired /\ r.recording = "yes") => Ordered(f, r.events, r.made)
    PROVE  /\ WellFormed(Restart(r)) /\ Restart(r).recording = r.recording
           /\ Ordered(f, Restart(r).events, Restart(r).made)
           /\ \/ Restart(r).events = r.events
              \/ Len(Restart(r).events) = 1
<1>1. CASE Expired /\ r.recording = "yes"
  <2> DEFINE s == Stop(r)
  <2>1. /\ s \in Recorder /\ s.events = <<>> /\ s.made = r.made /\ s.recorders = 0
    <3>1. r \in Recorder /\ r.recorders = 1
      BY <1>1 DEF WellFormed
    <3>2. /\ r.recorders > 0 => s \in Recorder
          /\ s.events = <<>> /\ s.made = r.made /\ s.recorders = r.recorders - 1
      BY <3>1, RecorderFacts
    <3> QED
      BY <3>1, <3>2
  <2> HIDE DEF s
  <2>2. /\ Record(s) \in Recorder
        /\ Record(s).events = Append(s.events, [n |-> s.made + 1, kind |-> "full"])
        /\ Record(s).made = s.made + 1
        /\ Record(s).recording = "yes" /\ Record(s).recorders = 0 + 1
    BY <2>1, RecorderFacts
  <2>3. Restart(r) = Record(s)
    BY <1>1 DEF Restart, s
  <2>4. Ordered(f, Append(<<>>, [n |-> s.made + 1, kind |-> "full"]), s.made + 1)
    BY <1>1, <2>1, OrderedPush
  <2>5. \A x : Len(Append(<<>>, x)) = 1
    OBVIOUS
  <2> QED
    BY <1>1, <2>1, <2>2, <2>3, <2>4, <2>5 DEF WellFormed
<1>2. CASE ~(Expired /\ r.recording = "yes")
  <2>1. Restart(r) = r
    BY <1>2 DEF Restart
  <2> QED
    BY <1>2, <2>1
<1> QED
  BY <1>1, <1>2

\* flushReplays leaves at most the snapshot of a restart in the buffer, and
\* posts what it empties unless dispatching is disabled.
LEMMA FlushedFacts ==
    ASSUME NEW r, WellFormed(r), r.recording = "yes", Ordered(filed, r.events, r.made),
           FlushEffects(r)
    PROVE  /\ WellFormed(Flushed(r)) /\ Flushed(r).recording = "yes"
           /\ Len(Flushed(r).events) <= 1
           /\ Ordered(filed', Flushed(r).events, Flushed(r).made)
<1> DEFINE emptied == [r EXCEPT !.events = <<>>]
<1>1. /\ emptied \in Recorder /\ emptied.events = <<>> /\ emptied.made = r.made
      /\ emptied.recording = "yes" /\ emptied.recorders = r.recorders
  <2>1. <<>> \in Seq(Event)
    OBVIOUS
  <2>2. r \in Recorder
    BY DEF WellFormed
  <2> QED
    BY <2>1, <2>2 DEF Recorder
<1>2. WellFormed(emptied)
  BY <1>1 DEF WellFormed
<1> HIDE DEF emptied
<1>3. Len(<<>>) = 0
  OBVIOUS
<1>4. CASE r.events # <<>> /\ Enabled
  <2>1. filed' = filed \o [i \in DOMAIN r.events |-> r.events[i].n]
    BY <1>4 DEF FlushEffects, File
  <2>2. Ordered(filed', <<>>, r.made)
    BY <2>1, OrderedFile
  <2> DEFINE z == Restart(emptied)
  <2>3. /\ WellFormed(z) /\ z.recording = "yes"
        /\ Ordered(filed', z.events, z.made)
        /\ z.events = <<>> \/ Len(z.events) = 1
    <3>1. Ordered(filed', <<>>, emptied.made) /\ Ordered(filed', emptied.events, emptied.made)
      BY <1>1, <2>2
    <3> QED
      BY <1>1, <1>2, <3>1, RestartFacts
  <2>4. Flushed(r) = [z EXCEPT !.sequence = z.sequence + 1]
    BY <1>4 DEF Flushed, emptied
  <2> HIDE DEF z
  <2>5. /\ Flushed(r) \in Recorder /\ Flushed(r).events = z.events /\ Flushed(r).made = z.made
        /\ Flushed(r).recording = z.recording /\ Flushed(r).recorders = z.recorders
    BY <2>3, <2>4 DEF WellFormed, Recorder
  <2>6. WellFormed(Flushed(r))
    BY <2>3, <2>5 DEF WellFormed
  <2> QED
    <3>1. z.events = <<>> \/ Len(z.events) = 1
      BY <2>3
    <3>2. \A e \in Seq(Event) : e = <<>> => Len(e) = 0
      OBVIOUS
    <3>3. z.events \in Seq(Event)
      BY <2>3 DEF Ordered
    <3>4. Len(z.events) <= 1
      <4>1. CASE z.events = <<>>
        <5>1. Len(z.events) = 0
          BY <3>2, <3>3, <4>1, Zenon
        <5> QED
          BY <5>1
      <4>2. CASE Len(z.events) = 1
        BY <4>2
      <4> QED
        BY <3>1, <4>1, <4>2
    <3> QED
      BY <2>3, <2>5, <2>6, <3>4
<1>5. CASE ~(r.events # <<>> /\ Enabled)
  <2>1. filed' = filed /\ Flushed(r) = emptied
    BY <1>5 DEF FlushEffects, Flushed, emptied
  <2> QED
    BY <1>1, <1>2, <1>3, <2>1, OrderedDrop
<1> QED
  BY <1>4, <1>5

\* A usage event: a rotation posts the old buffer, if it still can, before the
\* recorder starts again.
LEMMA TrackRecorderStep ==
    ASSUME RecorderInv, OrderInv, NEW page, NEW key, Track(page, key)
    PROVE  RecorderInv' /\ OrderInv'
<1>1. WellFormed(rec) /\ Len(rec.events) < FlushAt /\ Ordered(filed, rec.events, rec.made)
  BY DEF RecorderInv, OrderInv
<1>2. filed \in Seq(Nat) /\ FlushAt \in Nat /\ FlushAt > 1
  BY <1>1, UsageTrackerAssumption DEF Ordered
<1>3. /\ Expired /\ rec.recording = "yes" => Ordered(filed', <<>>, rec.made)
      /\ ~(Expired /\ rec.recording = "yes") => Ordered(filed', rec.events, rec.made)
  <2>1. CASE Expired /\ Enabled
    <3>1. filed' = filed \o [i \in DOMAIN rec.events |-> rec.events[i].n]
      BY <2>1 DEF Track, File
    <3>2. Ordered(filed', <<>>, rec.made)
      BY <1>1, <3>1, OrderedFile
    <3>3. rec.recording # "yes" => rec.events = <<>>
      BY <1>1 DEF WellFormed, Recorder
    <3> QED
      BY <2>1, <3>2, <3>3
  <2>2. CASE ~(Expired /\ Enabled)
    <3>1. filed' = filed
      BY <1>2, <2>2, FileNothing DEF Track
    <3> QED
      BY <1>1, <3>1, OrderedDrop
  <2> QED
    BY <2>1, <2>2
<1>4. rec' = Restart(rec)
  BY DEF Track
<1>5. /\ WellFormed(rec') /\ Ordered(filed', rec'.events, rec'.made)
      /\ rec'.events = rec.events \/ Len(rec'.events) = 1
  BY <1>1, <1>3, <1>4, RestartFacts
<1> QED
  BY <1>1, <1>2, <1>5 DEF RecorderInv, OrderInv

\* Every step keeps the recorder single and its events in order.
LEMMA RecorderStep ==
    ASSUME RecorderInv, OrderInv, [Next]_vars
    PROVE  RecorderInv' /\ OrderInv'
<1>1. WellFormed(rec) /\ Len(rec.events) < FlushAt /\ Ordered(filed, rec.events, rec.made)
  BY DEF RecorderInv, OrderInv
<1>2. rec \in Recorder /\ Len(<<>>) = 0 /\ FlushAt \in Nat /\ FlushAt > 1
  BY <1>1, UsageTrackerAssumption DEF WellFormed
<1>3. CASE UNCHANGED <<rec, filed>>
  BY <1>3 DEF RecorderInv, OrderInv
<1>4. CASE TrackInteraction \/ TrackInteractionOnce
  BY <1>4, TrackRecorderStep DEF TrackInteraction, TrackInteractionOnce
<1>5. ASSUME NEW path \in Paths, TrackPageView(path) PROVE RecorderInv' /\ OrderInv'
  BY <1>5, TrackRecorderStep DEF TrackPageView
<1>6. CASE StartReplay
  <2>1. rec.recording = "no" /\ rec' = Record(rec) /\ filed' = filed
    BY <1>6 DEF StartReplay
  <2>2. rec.events = <<>> /\ rec.recorders = 0
    BY <1>1, <2>1 DEF WellFormed
  <2>3. /\ rec' \in Recorder /\ rec'.recording = "yes" /\ rec'.recorders = 0 + 1
        /\ rec'.events = Append(rec.events, [n |-> rec.made + 1, kind |-> "full"])
        /\ rec'.made = rec.made + 1
    BY <1>2, <2>1, <2>2, RecorderFacts
  <2>4. Ordered(filed', rec'.events, rec'.made)
    BY <1>1, <2>1, <2>3, OrderedPush
  <2>5. \A x : Len(Append(<<>>, x)) = 1
    OBVIOUS
  <2>6. Len(rec'.events) = 1
    BY <2>2, <2>3, <2>5
  <2> QED
    BY <1>2, <2>3, <2>4, <2>6 DEF RecorderInv, OrderInv, WellFormed
<1>7. CASE StopReplay
  <2> DEFINE z == Flushed(rec)
  <2>1. rec' = Stop(z) /\ WellFormed(z) /\ z.recording = "yes" /\ Ordered(filed', z.events, z.made)
    BY <1>1, <1>7, FlushedFacts DEF StopReplay
  <2> HIDE DEF z
  <2>2. z \in Recorder /\ z.recorders = 1
    BY <2>1 DEF WellFormed
  <2>3. /\ rec' \in Recorder /\ rec'.events = <<>> /\ rec'.made = z.made
        /\ rec'.recording = "no" /\ rec'.recorders = 0
    <3>1. /\ z.recorders > 0 => Stop(z) \in Recorder
          /\ Stop(z).events = <<>> /\ Stop(z).made = z.made
          /\ Stop(z).recording = "no" /\ Stop(z).recorders = z.recorders - 1
      BY <2>2, RecorderFacts
    <3> QED
      BY <2>1, <2>2, <3>1
  <2>4. Ordered(filed', rec'.events, rec'.made)
    BY <2>1, <2>3, OrderedDrop
  <2> QED
    BY <1>2, <2>3, <2>4 DEF RecorderInv, OrderInv, WellFormed
<1>8. CASE FlushReplays
  <2>1. /\ WellFormed(rec') /\ Len(rec'.events) <= 1
        /\ Ordered(filed', rec'.events, rec'.made)
    BY <1>1, <1>8, FlushedFacts DEF FlushReplays
  <2>2. Len(rec'.events) \in Nat
    BY <2>1 DEF Ordered
  <2> QED
    BY <1>2, <2>1, <2>2 DEF RecorderInv, OrderInv
<1>9. CASE Emit
  <2> DEFINE p == Push(rec, "inc")
  <2>1. /\ p \in Recorder /\ p.made = rec.made + 1
        /\ p.events = Append(rec.events, [n |-> rec.made + 1, kind |-> "inc"])
        /\ p.recording = rec.recording /\ p.recorders = rec.recorders
    BY <1>2, RecorderFacts
  <2>2. rec.recording = "yes"
    BY <1>9 DEF Emit
  <2>3. WellFormed(p) /\ p.recording = "yes" /\ Ordered(filed, p.events, p.made)
    BY <1>1, <2>1, <2>2, OrderedPush DEF WellFormed
  <2>4. CASE Len(p.events) >= FlushAt
    <3>1. rec' = Flushed(p) /\ FlushEffects(p)
      BY <1>9, <2>4 DEF Emit
    <3>2. /\ WellFormed(rec') /\ Len(rec'.events) <= 1
          /\ Ordered(filed', rec'.events, rec'.made)
      BY <2>3, <3>1, FlushedFacts
    <3>3. Len(rec'.events) \in Nat
      BY <3>2 DEF Ordered
    <3> QED
      BY <1>2, <3>2, <3>3 DEF RecorderInv, OrderInv
  <2>5. CASE ~(Len(p.events) >= FlushAt)
    <3>1. rec' = p /\ filed' = filed
      BY <1>9, <2>5 DEF Emit
    <3>2. Len(p.events) \in Nat
      BY <2>3 DEF Ordered
    <3> HIDE DEF p
    <3> QED
      BY <1>2, <2>3, <2>5, <3>1, <3>2 DEF RecorderInv, OrderInv
  <2> QED
    BY <2>4, <2>5
<1>10. CASE Reload
  <2>1. rec' = NoRecorder(rec.made) /\ filed' = filed
    BY <1>10 DEF Reload
  <2>2. /\ rec' \in Recorder /\ rec'.events = <<>> /\ rec'.made = rec.made
        /\ rec'.recording = "no" /\ rec'.recorders = 0
    BY <1>2, <2>1 DEF NoRecorder, Recorder
  <2>3. Ordered(filed', rec'.events, rec'.made)
    BY <1>1, <2>1, <2>2, OrderedDrop
  <2> QED
    BY <1>2, <2>2, <2>3 DEF RecorderInv, OrderInv, WellFormed
<1>11. CASE TrackInteractionOnceKnown \/ SessionId \/ Unauthorized \/ Tick \/ UNCHANGED vars
  BY <1>3, <1>11 DEF TrackInteractionOnceKnown, SessionId, Unauthorized, Tick, vars
<1> QED
  BY <1>4, <1>5, <1>6, <1>7, <1>8, <1>9, <1>10, <1>11 DEF Next

-----------------------------------------------------------------------------
\* The variables whose types say no more than their values.
FlagTypes ==
    /\ now \in 1..MaxTime \cup {1}
    /\ lastPagePath \in Paths \cup {0}
    /\ onceKey \in {"yes", "no"} /\ onceStored \in {"yes", "no"}
    /\ dispatchDisabled \in {"yes", "no"} /\ waiting \in {"yes", "no"}

\* Every step keeps them.
LEMMA FlagStep == ASSUME FlagTypes, [Next]_vars PROVE FlagTypes'
<1>1. ASSUME NEW bump, NEW page \in Paths \cup {0}, NEW key \in {"yes", "no"},
             EnsureSessionCurrent(bump, page, key)
      PROVE  lastPagePath' \in Paths \cup {0} /\ onceKey' \in {"yes", "no"}
  BY <1>1 DEF EnsureSessionCurrent
<1>2. ASSUME NEW page \in Paths \cup {0}, NEW key \in {"yes", "no"}, Track(page, key),
             onceStored' \in {"yes", "no"}
      PROVE  FlagTypes'
  <2>1. lastPagePath' \in Paths \cup {0} /\ onceKey' \in {"yes", "no"}
    BY <1>1, <1>2 DEF Track
  <2>2. UNCHANGED <<now, dispatchDisabled>> /\ waiting' \in {"yes", waiting}
    BY <1>2 DEF Track
  <2> QED
    BY <1>2, <2>1, <2>2 DEF FlagTypes
<1>3. ASSUME NEW r, FlushEffects(r) PROVE FlagTypes'
  <2>1. UNCHANGED <<now, dispatchDisabled, waiting, onceStored>>
    BY <1>3 DEF FlushEffects, once
  <2>2. lastPagePath' \in Paths \cup {0} /\ onceKey' \in {"yes", "no"}
    BY <1>1, <1>3 DEF FlushEffects, FlagTypes
  <2> QED
    BY <2>1, <2>2 DEF FlagTypes
<1>4. CASE TrackInteraction
  BY <1>2, <1>4 DEF TrackInteraction, FlagTypes, once
<1>5. ASSUME NEW path \in Paths, TrackPageView(path) PROVE FlagTypes'
  BY <1>2, <1>5 DEF TrackPageView, FlagTypes, once
<1>6. CASE TrackInteractionOnce
  BY <1>2, <1>6 DEF TrackInteractionOnce, FlagTypes
<1>7. CASE StartReplay
  <2>1. UNCHANGED <<now, dispatchDisabled, waiting, onceStored>>
    BY <1>7 DEF StartReplay, once
  <2>2. lastPagePath' \in Paths \cup {0} /\ onceKey' \in {"yes", "no"}
    BY <1>1, <1>7 DEF StartReplay, FlagTypes
  <2> QED
    BY <2>1, <2>2 DEF FlagTypes
<1>8. CASE StopReplay \/ FlushReplays
  BY <1>3, <1>8 DEF StopReplay, FlushReplays
<1>9. CASE Emit
  BY <1>3, <1>9 DEF Emit, FlagTypes, once
<1>10. CASE Tick
  <2>1. MaxTime \in Nat
    BY UsageTrackerAssumption
  <2> QED
    BY <1>10, <2>1 DEF Tick, FlagTypes, once
<1>11. CASE TrackInteractionOnceKnown \/ SessionId \/ Unauthorized \/ Reload \/ UNCHANGED vars
  BY <1>11 DEF TrackInteractionOnceKnown, SessionId, Unauthorized, Reload, vars, FlagTypes, once
<1> QED
  BY <1>4, <1>5, <1>6, <1>7, <1>8, <1>9, <1>10, <1>11 DEF Next

\* The invariant holds at the first page load of a tab.
LEMMA UsageInit == ASSUME Init PROVE UsageInv /\ FlagTypes
<1>1. SessionInv
  <2>1. Idle \in Nat /\ HardCap \in Nat
    BY UsageTrackerAssumption
  <2> QED
    BY <2>1 DEF Init, SessionInv, SessionTypes, Fresh, Covered, SessionBounded
<1>2. PageNoted /\ PageViewOnce
  <2>1. pageSent[2] = 0 /\ 0 \notin Paths
    BY UsageTrackerAssumption DEF Init
  <2> QED
    BY <2>1 DEF Init, PageNoted, PageViewOnce
<1>3. OnceNoted /\ OncePerSession
  BY DEF Init, OnceNoted, OncePerSession
<1>4. RecorderInv /\ OrderInv
  <2>1. /\ rec \in Recorder /\ rec.events = <<>> /\ rec.made = 0
        /\ rec.recording = "no" /\ rec.recorders = 0
    BY DEF Init, NoRecorder, Recorder
  <2>2. Len(<<>>) = 0 /\ FlushAt \in Nat /\ FlushAt > 1
    BY UsageTrackerAssumption
  <2>3. Ordered(<<>>, <<>>, 0)
    BY DEF Ordered
  <2> QED
    BY <2>1, <2>2, <2>3 DEF Init, RecorderInv, OrderInv, WellFormed
<1>5. FlagTypes
  BY DEF Init, FlagTypes
<1> QED
  BY <1>1, <1>2, <1>3, <1>4, <1>5 DEF UsageInv

\* The inductive invariant of the tracker: its four groups of state, and flags.
THEOREM UsageInvariant == Spec => [](UsageInv /\ FlagTypes)
<1>1. Init => UsageInv /\ FlagTypes
  BY UsageInit
<1>2. UsageInv /\ FlagTypes /\ [Next]_vars => (UsageInv /\ FlagTypes)'
  <2> SUFFICES ASSUME UsageInv, FlagTypes, [Next]_vars PROVE UsageInv' /\ FlagTypes'
    OBVIOUS
  <2>1. SessionInv' /\ SessionTypes
    BY SessionStep DEF UsageInv, SessionInv
  <2>2. PageNoted' /\ PageViewOnce'
    BY <2>1, PageStep DEF UsageInv
  <2>3. OnceNoted' /\ OncePerSession'
    BY OnceStep DEF UsageInv
  <2>4. RecorderInv' /\ OrderInv'
    BY RecorderStep DEF UsageInv
  <2> QED
    BY <2>1, <2>2, <2>3, <2>4, FlagStep DEF UsageInv
<1> QED
  BY <1>1, <1>2, PTL DEF Spec

\* The tracker's variables have their types, and the replay buffer never reaches
\* the flush threshold between steps (usage-tracker.ts, emit and flushReplays).
THEOREM TypesHold == Spec => []TypeOK
<1>1. UsageInv /\ FlagTypes => TypeOK
  BY DEF UsageInv, FlagTypes, SessionInv, SessionTypes, RecorderInv, WellFormed, Recorder, TypeOK
<1> QED
  BY <1>1, UsageInvariant, PTL

\* For every timeout, cap and clock: the sends under one session id span at most
\* the hard cap, and none comes later than the idle timeout after the session's
\* last usage event (checkAndRotateSession).
THEOREM SessionBoundedHolds == Spec => []SessionBounded
<1>1. UsageInv => SessionBounded
  BY DEF UsageInv, SessionInv
<1> QED
  BY <1>1, UsageInvariant, PTL

\* trackInteractionOnce sends at most once under a session id, whatever rotations
\* and page loads forget.
THEOREM OncePerSessionHolds == Spec => []OncePerSession
<1>1. UsageInv => OncePerSession
  BY DEF UsageInv
<1> QED
  BY <1>1, UsageInvariant, PTL

\* startReplay, stopReplay and the restart of a rotation never leave two rrweb
\* recorders running, nor one that the tracker forgot.
THEOREM OneRecorderHolds == Spec => []OneRecorder
<1>1. UsageInv => OneRecorder
  BY DEF UsageInv, RecorderInv, WellFormed, OneRecorder
<1> QED
  BY <1>1, UsageInvariant, PTL

\* trackPageView does not send a page view twice in a row under one session and
\* page load, unless the first one rotated the session.
THEOREM PageViewOnceHolds == Spec => []PageViewOnce
<1>1. UsageInv => PageViewOnce
  BY DEF UsageInv
<1> QED
  BY <1>1, UsageInvariant, PTL

\* Replay events are posted at most once and in the order rrweb emitted them,
\* those still buffered after those posted (flushReplays, stopReplay).
THEOREM ReplayInOrderHolds == Spec => []ReplayInOrder
<1>1. ASSUME OrderInv PROVE ReplayInOrder
  <2> DEFINE g == filed \o [i \in DOMAIN rec.events |-> rec.events[i].n]
  <2>1. Ordered(g, <<>>, rec.made)
    BY <1>1, OrderedFile DEF OrderInv
  <2> HIDE DEF g
  <2>2. DOMAIN g = 1..Len(g)
    BY <2>1 DEF Ordered
  <2>3. Increasing(g)
    BY <2>1, <2>2 DEF Ordered, Increasing
  <2> QED
    BY <2>3 DEF ReplayInOrder, g
<1>2. UsageInv => ReplayInOrder
  BY <1>1 DEF UsageInv
<1> QED
  BY <1>2, UsageInvariant, PTL
=============================================================================
