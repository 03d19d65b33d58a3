----------------------------- MODULE Interaction -----------------------------
(***************************************************************************)
(* The browser SDK's interaction context: the module-level stack of        *)
(* interaction.ts, and the click listeners, fetch and XHR patches of       *)
(* auto-correlate.ts.                                                      *)
(*                                                                         *)
(* Action ids coalesce with the interaction id, so a context is its id.    *)
(* Script runs to completion: a step is a synchronous stretch of code.     *)
(* The browser dispatches a user's click to the SDK's capture listener     *)
(* first and to the page's handlers afterwards; after each callback the    *)
(* script stack is empty and the microtasks queued so far run (the HTML    *)
(* standard's "clean up after running script").                            *)
(***************************************************************************)
EXTENDS Integers, Sequences, FiniteSets

CONSTANTS
    Bodies,      \* concurrently running async bodies and handlers
    Installers,  \* callers of installAutoCorrelate
    Xhrs,        \* XMLHttpRequest objects
    MaxIds       \* bound: ids ever minted

ASSUME InteractionAssumption == MaxIds \in Nat /\ IsFiniteSet(Bodies) /\ IsFiniteSet(Installers)

None == 0          \* undefined
Ids == 1..MaxIds   \* minted ids, in order

VARIABLES
    stack,     \* the module-level handler stack
    minted,    \* how many ids generateInteractionId has returned
    dispatch,  \* a trusted event: "none", "listener" has run, "handlers" run next
    clicked,   \* the id minted for that event
    body,      \* the id an unsettled async body was entered with, or None
    xhr,       \* XHR_INTERACTION
    installRefCount, listening,  \* the installer's count and activeCleanup
    handle,    \* cleanup functions not called yet
    live,      \* history: unsettled bodies in the order they were entered
    crossed    \* history: a context was left that was not the innermost

vars == <<stack, minted, dispatch, clicked, body, xhr, installRefCount, listening, handle,
          live, crossed>>

Init ==
    /\ stack = <<>> /\ minted = 0
    /\ dispatch = "none" /\ clicked = None
    /\ body = [b \in Bodies |-> None]
    /\ xhr = [x \in Xhrs |-> None]
    /\ installRefCount = 0 /\ listening = "no"
    /\ handle = [i \in Installers |-> "none"]
    /\ live = <<>> /\ crossed = "no"

-----------------------------------------------------------------------------
\* currentInteractionId
Current == IF stack = <<>> THEN None ELSE stack[Len(stack)]

Push(s, id) == Append(s, id)
Pop(s) == IF s = <<>> THEN s ELSE SubSeq(s, 1, Len(s) - 1)
Without(s, k) == [i \in 1..(Len(s) - 1) |-> IF i < k THEN s[i] ELSE s[i + 1]]

\* popInteraction(id): the topmost entry with this id goes, if there is one.
PopId(s, id) ==
    LET hits == {i \in DOMAIN s : s[i] = id} IN
    IF hits = {} THEN s ELSE Without(s, CHOOSE k \in hits : \A i \in hits : i <= k)

unchangedSdk == <<xhr, installRefCount, listening, handle>>

\* Page code runs: between tasks, or as an event's handler.
Running == dispatch # "listener"

-----------------------------------------------------------------------------
\* A trusted click, submit or keydown reaches the SDK's capture listener, which
\* pushes a fresh id and queues its removal as a cascade of two microtasks.
Click ==
    /\ listening = "yes" /\ dispatch = "none" /\ minted < MaxIds
    /\ minted' = minted + 1
    /\ clicked' = minted + 1
    /\ stack' = Push(stack, minted + 1)
    /\ dispatch' = "listener"
    /\ UNCHANGED <<body, unchangedSdk, live, crossed>>

\* The listener has returned and the script stack is empty: the microtasks run,
\* the second of the cascade included, before the next handler is called.
MicrotaskCheckpoint ==
    /\ dispatch = "listener"
    /\ stack' = PopId(stack, clicked)
    /\ dispatch' = "handlers"
    /\ UNCHANGED <<minted, clicked, body, unchangedSdk, live, crossed>>

\* The page's handlers have run.
EventDone ==
    /\ dispatch = "handlers"
    /\ dispatch' = "none" /\ clicked' = None
    /\ UNCHANGED <<stack, minted, body, unchangedSdk, live, crossed>>

\* An async body is entered and stays pending: its context is on the stack.
Enter(b, id) ==
    /\ body[b] = None
    /\ body' = [body EXCEPT ![b] = id]
    /\ live' = Append(live, b)

\* withInteractionContextAsync: the page re-enters an id it has kept.
WithInteractionContextAsync(b) ==
    /\ Running
    /\ \E id \in 1..minted : Enter(b, id) /\ stack' = Push(stack, id)
    /\ UNCHANGED <<minted, dispatch, clicked, unchangedSdk, crossed>>

\* withInteractionContext around code that starts such a body: the finally
\* block pops the top of the stack, which is the body's entry.
WithInteractionContext(b) ==
    /\ Running
    /\ \E outer, id \in 1..minted :
          Enter(b, id) /\ stack' = Pop(Push(Push(stack, outer), id))
    /\ crossed' = "yes"
    /\ UNCHANGED <<minted, dispatch, clicked, unchangedSdk>>

\* wrapInteraction around an async handler, called while an id is active;
\* otherwise the handler runs as it is.
WrapAsync(b) ==
    /\ Running /\ Current # None
    /\ Enter(b, Current) /\ stack' = Push(stack, Current)
    /\ UNCHANGED <<minted, dispatch, clicked, unchangedSdk, crossed>>

\* Mutant of WrapSync: the catch block forgets to pop.
WrapSyncThrows ==
    /\ Running /\ Current # None
    /\ stack' = Push(stack, Current)
    /\ UNCHANGED <<minted, dispatch, clicked, body, unchangedSdk, live, crossed>>

\* wrapInteraction around a handler that returns or throws.
WrapSync ==
    /\ Running /\ Current # None
    /\ stack' = Pop(Push(stack, Current))
    /\ UNCHANGED <<minted, dispatch, clicked, body, unchangedSdk, live, crossed>>

\* Mutant of Settle: takes the oldest entry off the stack.
SettleShift(b) ==
    /\ Running /\ body[b] # None
    /\ stack' = Tail(stack)
    /\ body' = [body EXCEPT ![b] = None]
    /\ live' = Without(live, CHOOSE k \in DOMAIN live : live[k] = b)
    /\ crossed' = IF live[Len(live)] = b THEN crossed ELSE "yes"
    /\ UNCHANGED <<minted, dispatch, clicked, unchangedSdk>>

\* A pending body settles: .finally(popInteraction) gets no id, so whatever is
\* on top goes.
Settle(b) ==
    /\ Running /\ body[b] # None
    /\ stack' = Pop(stack)
    /\ body' = [body EXCEPT ![b] = None]
    /\ live' = Without(live, CHOOSE k \in DOMAIN live : live[k] = b)
    /\ crossed' = IF live[Len(live)] = b THEN crossed ELSE "yes"
    /\ UNCHANGED <<minted, dispatch, clicked, unchangedSdk>>

\* patchedOpen: remembers the active context; without one, an object that is used
\* again keeps the context of its earlier request, which patchedSend then sends.
XhrOpen(x) ==
    /\ listening = "yes" /\ Running
    /\ xhr' = IF Current # None THEN [xhr EXCEPT ![x] = Current] ELSE xhr
    /\ UNCHANGED <<stack, minted, dispatch, clicked, body, installRefCount, listening, handle,
                   live, crossed>>

\* Mutant of Install: every call counts from one.
InstallResets(i) ==
    /\ handle[i] = "none" /\ dispatch = "none"
    /\ handle' = [handle EXCEPT ![i] = "held"]
    /\ installRefCount' = 1
    /\ listening' = "yes"
    /\ UNCHANGED <<stack, minted, dispatch, clicked, body, xhr, live, crossed>>

\* installAutoCorrelate: the first call installs, later ones count.
Install(i) ==
    /\ handle[i] = "none" /\ dispatch = "none"
    /\ handle' = [handle EXCEPT ![i] = "held"]
    /\ installRefCount' = IF listening = "yes" THEN installRefCount + 1 ELSE 1
    /\ listening' = "yes"
    /\ UNCHANGED <<stack, minted, dispatch, clicked, body, xhr, live, crossed>>

\* The cleanup function of one caller, called once.
Cleanup(i) ==
    /\ handle[i] = "held" /\ dispatch = "none"
    /\ handle' = [handle EXCEPT ![i] = "none"]
    /\ installRefCount' = IF installRefCount > 0 THEN installRefCount - 1 ELSE 0
    /\ listening' = IF installRefCount' = 0 THEN "no" ELSE listening
    /\ UNCHANGED <<stack, minted, dispatch, clicked, body, xhr, live, crossed>>

Next ==
    \/ Click \/ MicrotaskCheckpoint \/ EventDone \/ WrapSync
    \/ \E b \in Bodies :
          \/ WithInteractionContextAsync(b) \/ WithInteractionContext(b) \/ WrapAsync(b)
          \/ Settle(b)
    \/ \E x \in Xhrs : XhrOpen(x)
    \/ \E i \in Installers : Install(i) \/ Cleanup(i)

Spec == Init /\ [][Next]_vars

-----------------------------------------------------------------------------
\* Only minted ids are ever active.
TypeOK ==
    /\ stack \in Seq(Ids) /\ minted \in 0..MaxIds
    /\ dispatch \in {"none", "listener", "handlers"} /\ clicked \in Ids \cup {None}
    /\ body \in [Bodies -> Ids \cup {None}]
    /\ xhr \in [Xhrs -> Ids \cup {None}]
    /\ installRefCount \in Nat /\ listening \in {"yes", "no"}
    /\ handle \in [Installers -> {"none", "held"}]
    /\ live \in Seq(Bodies) /\ crossed \in {"yes", "no"}

Pending == {b \in Bodies : body[b] # None}

\* Every way out of a context pops exactly one entry, whichever entry it is: no
\* context outlives the code it was entered for, and the stack unwinds.
Unwinds ==
    Len(stack) = Cardinality(Pending) + IF dispatch = "listener" THEN 1 ELSE 0

\* As long as contexts are left innermost first, the stack holds exactly the ids
\* of the unsettled bodies, in the order they were entered, and on top of them
\* the id of an event whose listener has just run.
Nested ==
    crossed = "no" =>
        stack = [i \in 1..Len(live) |-> body[live[i]]] \o
                    (IF dispatch = "listener" THEN <<clicked>> ELSE <<>>)

\* The listener and the patches are in place exactly as long as a caller of
\* installAutoCorrelate holds its cleanup function, in whatever order callers come
\* and go: no caller uninstalls them for another, and the last one to leave does.
InstalledWhileHeld ==
    LET held == {i \in Installers : handle[i] = "held"} IN
    /\ installRefCount = Cardinality(held)
    /\ listening = "yes" <=> held # {}
=============================================================================
