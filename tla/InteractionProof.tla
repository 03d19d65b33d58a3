--------------------------- MODULE InteractionProof --------------------------
(***************************************************************************)
(* Proofs about Interaction for any number of bodies, installers and XHRs: *)
(* the stack unwinds, it mirrors the unsettled bodies for as long as they  *)
(* are left innermost first, and the installer's patches stay until the last holder is gone.            *)
(***************************************************************************)
EXTENDS Interaction, SequenceTheorems, FiniteSetTheorems, TLAPS

\* What the arguments need to know of the types.
Types ==
    /\ stack \in Seq(Ids) /\ minted \in 0..MaxIds
    /\ dispatch \in {"none", "listener", "handlers"}
    /\ body \in [Bodies -> Ids \cup {None}]
    /\ live \in Seq(Bodies) /\ crossed \in {"yes", "no"}
    /\ xhr \in [Xhrs -> Ids \cup {None}]

\* Between an event's listener and the microtasks after it nothing else runs:
\* the event's id is on top, where popInteraction(id) looks first.
ClickedOnTop == dispatch = "listener" => Len(stack) > 0 /\ stack[Len(stack)] = clicked

\* The history of entries lists the unsettled bodies, each once.
LiveIsPending ==
    /\ \A b \in Bodies : body[b] # None <=> \E i \in DOMAIN live : live[i] = b
    /\ \A i, j \in DOMAIN live : live[i] = live[j] => i = j

\* The callers that hold their cleanup function.
Held == {i \in Installers : handle[i] = "held"}

\* The installer's books.
InstallInv ==
    /\ handle \in [Installers -> {"none", "held"}] /\ listening \in {"yes", "no"}
    /\ InstalledWhileHeld

\* Nested, entry by entry.
Mirrored ==
    crossed = "no" =>
        /\ Len(stack) = Len(live) + IF dispatch = "listener" THEN 1 ELSE 0
        /\ \A i \in DOMAIN live : stack[i] = body[live[i]]

InteractionInv ==
    Types /\ ClickedOnTop /\ LiveIsPending /\ Unwinds /\ Mirrored /\ InstallInv

-----------------------------------------------------------------------------
\* push, and the pop that undoes it.
LEMMA PushFacts ==
    ASSUME NEW S, NEW s \in Seq(S), NEW x \in S
    PROVE  /\ Push(s, x) \in Seq(S) /\ Len(Push(s, x)) = Len(s) + 1 /\ Len(s) \in Nat
           /\ \A i \in 1..Len(s) : Push(s, x)[i] = s[i]
           /\ Push(s, x)[Len(s) + 1] = x
           /\ DOMAIN Push(s, x) = 1..(Len(s) + 1) /\ DOMAIN s = 1..Len(s)
  BY AppendProperties, LenProperties DEF Push

\* pop takes the last entry off.
LEMMA PopFacts ==
    ASSUME NEW S, NEW s \in Seq(S), Len(s) > 0
    PROVE  /\ Pop(s) \in Seq(S) /\ Len(Pop(s)) = Len(s) - 1 /\ Len(s) \in Nat
           /\ \A i \in 1..(Len(s) - 1) : Pop(s)[i] = s[i]
<1>1. Len(s) \in Nat /\ s # <<>> /\ \A i \in 1..(Len(s) - 1) : s[i] \in S
  BY LenProperties, ElementOfSeq, EmptySeq
<1>2. Pop(s) = SubSeq(s, 1, Len(s) - 1)
  BY <1>1 DEF Pop
<1> DEFINE n == Len(s) - 1
<1>3. n \in Nat /\ \A i \in 1..n : s[i] \in S
  BY <1>1
<1> HIDE DEF n
<1>4. /\ SubSeq(s, 1, n) \in Seq(S)
      /\ Len(SubSeq(s, 1, n)) = IF 1 <= n THEN n - 1 + 1 ELSE 0
      /\ \A i \in 1..(n - 1 + 1) : SubSeq(s, 1, n)[i] = s[1 + i - 1]
  BY <1>3, SubSeqProperties
<1>5. /\ SubSeq(s, 1, n) \in Seq(S) /\ Len(SubSeq(s, 1, n)) = n
      /\ \A i \in 1..n : SubSeq(s, 1, n)[i] = s[i]
  BY <1>3, <1>4
<1> QED BY <1>1, <1>2, <1>5 DEF n

\* splice(k, 1) takes the k-th entry out.
LEMMA WithoutFacts ==
    ASSUME NEW S, NEW s \in Seq(S), NEW k \in 1..Len(s)
    PROVE  /\ Without(s, k) \in Seq(S) /\ Len(Without(s, k)) = Len(s) - 1 /\ Len(s) \in Nat
           /\ DOMAIN Without(s, k) = 1..(Len(s) - 1) /\ DOMAIN s = 1..Len(s)
           /\ \A i \in 1..(Len(s) - 1) : Without(s, k)[i] = IF i < k THEN s[i] ELSE s[i + 1]
<1>1. Len(s) \in Nat /\ DOMAIN s = 1..Len(s)
  BY LenProperties
<1>2. Without(s, k) \in Seq(S)
  BY LenProperties DEF Without
<1>3. DOMAIN Without(s, k) = 1..(Len(s) - 1)
  BY DEF Without
<1>4. Len(Without(s, k)) = Len(s) - 1
  <2>1. Len(Without(s, k)) \in Nat /\ DOMAIN Without(s, k) = 1..Len(Without(s, k))
    BY <1>2, LenProperties
  <2>2. \A a, b \in Nat : 1..a = 1..b => a = b
    OBVIOUS
  <2>3. Len(s) - 1 \in Nat
    BY <1>1
  <2> QED BY <1>3, <2>1, <2>2, <2>3
<1>5. \A i \in 1..(Len(s) - 1) : Without(s, k)[i] = IF i < k THEN s[i] ELSE s[i + 1]
  BY DEF Without
<1> QED BY <1>1, <1>2, <1>3, <1>4, <1>5

\* popInteraction(id) is a pop when the id is on top.
LEMMA PopIdFacts ==
    ASSUME NEW S, NEW s \in Seq(S), Len(s) > 0
    PROVE  /\ PopId(s, s[Len(s)]) \in Seq(S) /\ Len(PopId(s, s[Len(s)])) = Len(s) - 1
           /\ \A i \in 1..(Len(s) - 1) : PopId(s, s[Len(s)])[i] = s[i]
<1> DEFINE hits == {i \in DOMAIN s : s[i] = s[Len(s)]}
           top == CHOOSE k \in hits : \A i \in hits : i <= k
<1>1. Len(s) \in Nat /\ DOMAIN s = 1..Len(s)
  BY LenProperties
<1>2. Len(s) \in hits /\ \A i \in hits : i <= Len(s)
  BY <1>1
<1>3. top \in hits /\ \A i \in hits : i <= top
  BY <1>2
<1>4. top = Len(s)
  BY <1>1, <1>2, <1>3
<1>5. PopId(s, s[Len(s)]) = Without(s, Len(s))
  BY <1>2, <1>4 DEF PopId
<1>6. /\ Without(s, Len(s)) \in Seq(S) /\ Len(Without(s, Len(s))) = Len(s) - 1
      /\ \A i \in 1..(Len(s) - 1) :
            Without(s, Len(s))[i] = IF i < Len(s) THEN s[i] ELSE s[i + 1]
  <2>1. Len(s) \in 1..Len(s)
    BY <1>1
  <2> QED BY <2>1, WithoutFacts
<1>7. \A i \in 1..(Len(s) - 1) : Without(s, Len(s))[i] = s[i]
  BY <1>1, <1>6
<1> QED BY <1>5, <1>6, <1>7

\* A push that is popped again leaves the stack as it was.
LEMMA PushPop ==
    ASSUME NEW S, NEW s \in Seq(S), NEW x \in S
    PROVE  Pop(Push(s, x)) = s
<1> DEFINE t == Push(s, x)
<1>1. t \in Seq(S) /\ Len(t) = Len(s) + 1 /\ Len(s) \in Nat /\ \A i \in 1..Len(s) : t[i] = s[i]
  BY PushFacts DEF Push
<1> HIDE DEF t
<1>2. /\ Pop(t) \in Seq(S) /\ Len(Pop(t)) = Len(t) - 1
      /\ \A i \in 1..(Len(t) - 1) : Pop(t)[i] = t[i]
  BY <1>1, PopFacts
<1>3. Len(Pop(t)) = Len(s) /\ \A i \in 1..Len(s) : Pop(t)[i] = s[i]
  BY <1>1, <1>2
<1> QED BY <1>1, <1>2, <1>3, SeqEqual DEF t

\* The unsettled bodies are finitely many, and one more or less changes their
\* number by one.
LEMMA PendingFacts ==
    ASSUME Types
    PROVE  /\ Cardinality(Pending) \in Nat
           /\ \A b \in Bodies : b \notin Pending =>
                 Cardinality(Pending \cup {b}) = Cardinality(Pending) + 1
           /\ \A b \in Pending : Cardinality(Pending \ {b}) = Cardinality(Pending) - 1
                                 /\ Cardinality(Pending) > 0
<1>1. IsFiniteSet(Pending)
  <2>1. Pending \in SUBSET Bodies
    BY DEF Pending
  <2> QED BY <2>1, FS_Subset, InteractionAssumption
<1>2. Cardinality(Pending) \in Nat
  BY <1>1, FS_CardinalityType
<1>3. ASSUME NEW b \in Bodies, b \notin Pending
      PROVE  Cardinality(Pending \cup {b}) = Cardinality(Pending) + 1
  BY <1>1, <1>3, FS_AddElement
<1>4. ASSUME NEW b \in Pending
      PROVE  Cardinality(Pending \ {b}) = Cardinality(Pending) - 1 /\ Cardinality(Pending) > 0
  <2>1. Cardinality(Pending \ {b}) = Cardinality(Pending) - 1
    BY <1>1, <1>4, FS_RemoveElement
  <2>2. Cardinality(Pending) # 0
    BY <1>1, <1>4, FS_EmptySet
  <2> QED BY <1>2, <2>1, <2>2
<1> QED BY <1>2, <1>3, <1>4

\* The stack, the bodies and the history without the calls.
StackInv == Types /\ ClickedOnTop /\ LiveIsPending /\ Unwinds /\ Mirrored

\* Entering a body keeps them, when its id is pushed on what was there, and when
\* one entry more is left of something else and the order is given up.
LEMMA EnterStep ==
    ASSUME StackInv, NEW b \in Bodies, NEW id \in Ids, Enter(b, id), Running,
           stack' \in Seq(Ids), Len(stack') = Len(stack) + 1,
           crossed' = "yes" \/ (crossed' = crossed /\ stack' = Push(stack, id)),
           UNCHANGED <<minted, dispatch, clicked, xhr>>
    PROVE  StackInv'
<1>0. None \notin Ids /\ Len(stack) \in Nat
  BY LenProperties, InteractionAssumption DEF None, Ids, StackInv, Types
<1>1. body[b] = None /\ body' = [body EXCEPT ![b] = id] /\ live' = Append(live, b)
  BY DEF Enter
<1>2. /\ live' \in Seq(Bodies) /\ Len(live') = Len(live) + 1 /\ Len(live) \in Nat
      /\ \A i \in 1..Len(live) : live'[i] = live[i]
      /\ live'[Len(live) + 1] = b
      /\ DOMAIN live' = 1..(Len(live) + 1) /\ DOMAIN live = 1..Len(live)
  BY <1>1, PushFacts DEF Push, StackInv, Types
<1>3. Types'
  BY <1>1, <1>2 DEF StackInv, Types
<1>4. /\ body'[b] = id /\ id # None
      /\ \A c \in Bodies : c # b => body'[c] = body[c]
      /\ \A i \in 1..Len(live) : live[i] \in Bodies /\ live[i] # b
  <2>1. \A i \in DOMAIN live : live[i] \in Bodies /\ live[i] # b
    BY <1>1, ElementOfSeq, <1>2 DEF StackInv, Types, LiveIsPending
  <2> QED BY <1>0, <1>1, <1>2, <2>1 DEF StackInv, Types
<1>5. LiveIsPending'
  <2>1. ASSUME NEW c \in Bodies PROVE body'[c] # None <=> \E i \in DOMAIN live' : live'[i] = c
    <3>1. CASE c = b
      BY <1>2, <1>4, <3>1
    <3>2. CASE c # b
      <4>1. (\E i \in DOMAIN live' : live'[i] = c) <=> \E i \in DOMAIN live : live[i] = c
        BY <1>2, <3>2
      <4> QED BY <1>4, <3>2, <4>1 DEF StackInv, LiveIsPending
    <3> QED BY <3>1, <3>2
  <2>2. ASSUME NEW i \in DOMAIN live', NEW j \in DOMAIN live', live'[i] = live'[j] PROVE i = j
    <3>1. CASE i \in 1..Len(live) /\ j \in 1..Len(live)
      BY <1>2, <2>2, <3>1 DEF StackInv, LiveIsPending
    <3>2. CASE ~(i \in 1..Len(live) /\ j \in 1..Len(live))
      <4>1. i = Len(live) + 1 \/ j = Len(live) + 1
        BY <1>2, <3>2
      <4> QED BY <1>2, <1>4, <2>2, <4>1
    <3> QED BY <3>1, <3>2
  <2> QED BY <2>1, <2>2 DEF LiveIsPending
<1>6. Unwinds'
  <2>1. Pending' = Pending \cup {b} /\ b \notin Pending
    BY <1>1, <1>4 DEF Pending
  <2>2. Cardinality(Pending') = Cardinality(Pending) + 1 /\ Cardinality(Pending) \in Nat
    BY <2>1, PendingFacts DEF StackInv
  <2>3. Len(stack') = Cardinality(Pending') + IF dispatch' = "listener" THEN 1 ELSE 0
    BY <2>2 DEF StackInv, Unwinds, Running
  <2> QED BY <2>3 DEF Unwinds
<1>7. Mirrored'
  <2> SUFFICES ASSUME crossed' = "no" PROVE Mirrored'
    BY DEF Mirrored
  <2>1. /\ stack' = Push(stack, id) /\ Len(stack) = Len(live)
        /\ \A i \in DOMAIN live : stack[i] = body[live[i]]
    BY <1>0 DEF StackInv, Mirrored, Running
  <2>2. (\A i \in 1..Len(stack) : stack'[i] = stack[i]) /\ stack'[Len(stack) + 1] = id
    <3>1. stack \in Seq(Ids)
      BY DEF StackInv, Types
    <3>2. /\ \A i \in 1..Len(stack) : Push(stack, id)[i] = stack[i]
          /\ Push(stack, id)[Len(stack) + 1] = id
      BY <3>1, PushFacts DEF Push
    <3> QED BY <2>1, <3>2
  <2>3. ASSUME NEW i \in 1..Len(live) PROVE stack'[i] = body'[live'[i]]
    <3>1. stack'[i] = stack[i] /\ stack[i] = body[live[i]]
      BY <1>2, <2>1, <2>2
    <3>2. live'[i] = live[i] /\ body'[live[i]] = body[live[i]]
      BY <1>2, <1>4
    <3> QED BY <3>1, <3>2
  <2>4. stack'[Len(live) + 1] = body'[live'[Len(live) + 1]]
    BY <1>2, <1>4, <2>1, <2>2
  <2>5. \A i \in DOMAIN live' : stack'[i] = body'[live'[i]]
    BY <1>2, <2>3, <2>4
  <2> QED BY <1>2, <2>1, <2>5 DEF Mirrored, Running
<1>8. ClickedOnTop'
  BY DEF ClickedOnTop, Running
<1> QED BY <1>3, <1>5, <1>6, <1>7, <1>8 DEF StackInv

\* A body that settles keeps them, whichever entry it pops.
LEMMA SettleStep == ASSUME StackInv, NEW b \in Bodies, Settle(b) PROVE StackInv'
<1> DEFINE k == CHOOSE i \in DOMAIN live : live[i] = b
<1>1. /\ Running /\ body[b] # None /\ stack' = Pop(stack)
      /\ body' = [body EXCEPT ![b] = None] /\ live' = Without(live, k)
      /\ crossed' = IF live[Len(live)] = b THEN crossed ELSE "yes"
      /\ UNCHANGED <<minted, dispatch, clicked, xhr>>
  BY DEF Settle, unchangedSdk
<1>2. live \in Seq(Bodies) /\ stack \in Seq(Ids) /\ body \in [Bodies -> Ids \cup {None}]
  BY DEF StackInv, Types
<1>3. Len(live) \in Nat /\ DOMAIN live = 1..Len(live) /\ \A i \in DOMAIN live : live[i] \in Bodies
  BY <1>2, LenProperties, ElementOfSeq
<1>4. k \in 1..Len(live) /\ live[k] = b
  BY <1>1, <1>3 DEF StackInv, LiveIsPending
<1> HIDE DEF k
<1>5. /\ live' \in Seq(Bodies) /\ Len(live') = Len(live) - 1
      /\ DOMAIN live' = 1..(Len(live) - 1)
      /\ \A i \in 1..(Len(live) - 1) : live'[i] = IF i < k THEN live[i] ELSE live[i + 1]
  BY <1>1, <1>2, <1>4, WithoutFacts
<1>6. b \in Pending /\ Pending' = Pending \ {b}
  BY <1>1, <1>2 DEF Pending
<1>7. /\ Cardinality(Pending') = Cardinality(Pending) - 1 /\ Cardinality(Pending) \in Nat
      /\ Cardinality(Pending) > 0
  BY <1>6, PendingFacts DEF StackInv
<1>8. Len(stack) > 0 /\ Len(stack) = Cardinality(Pending)
  BY <1>1, <1>7 DEF StackInv, Unwinds, Running
<1>9. /\ stack' \in Seq(Ids) /\ Len(stack') = Len(stack) - 1 /\ Len(stack) \in Nat
      /\ \A i \in 1..(Len(stack) - 1) : stack'[i] = stack[i]
  BY <1>1, <1>2, <1>8, PopFacts
<1>10. Types'
  BY <1>1, <1>2, <1>5, <1>9 DEF StackInv, Types, None
<1>11. Unwinds'
  BY <1>1, <1>7, <1>8, <1>9 DEF Unwinds, Running
<1>12. ClickedOnTop'
  BY <1>1 DEF ClickedOnTop, Running
<1>13. \A i, j \in 1..Len(live) : live[i] = live[j] => i = j
  BY <1>3 DEF StackInv, LiveIsPending
<1>14. \A i \in 1..(Len(live) - 1) :
          \E j \in 1..Len(live) : j # k /\ j = (IF i < k THEN i ELSE i + 1) /\ live'[i] = live[j]
  BY <1>3, <1>4, <1>5
<1>15. \A i, j \in 1..(Len(live) - 1) : live'[i] = live'[j] => i = j
  <2> SUFFICES ASSUME NEW i \in 1..(Len(live) - 1), NEW j \in 1..(Len(live) - 1), live'[i] = live'[j]
               PROVE  i = j
    OBVIOUS
  <2>1. PICK m \in 1..Len(live) : m = (IF i < k THEN i ELSE i + 1) /\ live'[i] = live[m]
    BY <1>14
  <2>2. PICK n \in 1..Len(live) : n = (IF j < k THEN j ELSE j + 1) /\ live'[j] = live[n]
    BY <1>14
  <2>3. m = n
    BY <1>13, <2>1, <2>2
  <2> QED BY <1>3, <1>4, <2>1, <2>2, <2>3
<1>16. ASSUME NEW c \in Bodies PROVE body'[c] # None <=> \E i \in DOMAIN live' : live'[i] = c
  <2>1. CASE c = b
    <3>1. \A i \in DOMAIN live' : live'[i] # b
      BY <1>4, <1>5, <1>13, <1>14
    <3> QED BY <1>1, <1>2, <2>1, <3>1
  <2>2. CASE c # b
    <3>1. body'[c] = body[c]
      BY <1>1, <1>2, <2>2
    <3>2. ASSUME NEW j \in 1..Len(live), live[j] = c PROVE \E i \in DOMAIN live' : live'[i] = c
      <4>1. j # k
        BY <1>4, <2>2, <3>2
      <4>2. CASE j < k
        <5>1. j \in 1..(Len(live) - 1) /\ live'[j] = live[j]
          BY <1>3, <1>4, <1>5, <4>2
        <5> QED BY <1>5, <3>2, <5>1
      <4>3. CASE j > k
        <5>1. j - 1 \in 1..(Len(live) - 1) /\ ~(j - 1 < k) /\ (j - 1) + 1 = j
          BY <1>3, <1>4, <4>3
        <5>2. live'[j - 1] = live[j]
          BY <1>5, <5>1
        <5> QED BY <1>5, <3>2, <5>1, <5>2
      <4> QED BY <1>3, <1>4, <4>1, <4>2, <4>3
    <3>3. ASSUME NEW i \in DOMAIN live', live'[i] = c PROVE \E j \in DOMAIN live : live[j] = c
      BY <1>3, <1>5, <1>14, <3>3
    <3> QED BY <1>3, <3>1, <3>2, <3>3 DEF StackInv, LiveIsPending
  <2> QED BY <2>1, <2>2
<1>17. LiveIsPending'
  BY <1>5, <1>15, <1>16 DEF LiveIsPending
<1>18. Mirrored'
  <2> SUFFICES ASSUME crossed' = "no" PROVE Mirrored'
    BY DEF Mirrored
  <2>1. live[Len(live)] = b /\ crossed = "no"
    BY <1>1
  <2>2. k = Len(live)
    <3>1. Len(live) \in 1..Len(live) /\ live[k] = live[Len(live)]
      BY <1>3, <1>4, <2>1
    <3> QED BY <1>4, <1>13, <3>1
  <2>3. Len(stack) = Len(live) /\ \A i \in 1..Len(live) : stack[i] = body[live[i]]
    <3>1. Len(stack) = Len(live) + IF dispatch = "listener" THEN 1 ELSE 0
      BY <2>1 DEF StackInv, Mirrored
    <3>2. Len(stack) = Len(live)
      BY <1>1, <1>3, <3>1 DEF Running
    <3> QED BY <1>3, <2>1, <3>2 DEF StackInv, Mirrored
  <2>4. ASSUME NEW i \in 1..(Len(live) - 1) PROVE stack'[i] = body'[live'[i]]
    <3>1. i \in 1..Len(live) /\ i < k /\ i # k
      <4>1. \A n \in Nat : \A j \in 1..(n - 1) : j \in 1..n /\ j < n /\ j # n
        OBVIOUS
      <4>2. Len(live) \in Nat
        BY <1>3
      <4> QED BY <2>2, <4>1, <4>2, Zenon
    <3>2. live'[i] = live[i] /\ live[i] # b /\ live[i] \in Bodies
      <4>1. live'[i] = live[i]
        BY <1>5, <3>1
      <4> QED BY <1>3, <1>4, <1>13, <3>1, <4>1
    <3>3. body'[live[i]] = body[live[i]]
      BY <1>1, <1>2, <3>2
    <3> QED BY <1>9, <2>3, <3>1, <3>2, <3>3
  <2> QED BY <1>1, <1>5, <1>9, <2>3, <2>4 DEF Mirrored, Running
<1> QED BY <1>10, <1>11, <1>12, <1>17, <1>18 DEF StackInv

\* A step that leaves the stack, the bodies and the history alone, and is not
\* between a listener and its microtasks before or after, keeps them.
LEMMA IdleStep ==
    ASSUME StackInv, Types', stack' = stack, body' = body, live' = live, crossed' = crossed,
           \/ dispatch' = dispatch /\ clicked' = clicked
           \/ dispatch = "handlers" /\ dispatch' = "none"
    PROVE  StackInv'
<1>1. ClickedOnTop' /\ LiveIsPending'
  BY DEF StackInv, ClickedOnTop, LiveIsPending
<1>2. Pending' = Pending
  BY DEF Pending
<1>3. Unwinds'
  BY <1>2 DEF StackInv, Unwinds
<1>4. Mirrored'
  BY DEF StackInv, Mirrored
<1> QED BY <1>1, <1>3, <1>4 DEF StackInv

\* A click puts its fresh id on top, and the microtasks after the listener take
\* it off again.
LEMMA ClickStep == ASSUME StackInv, Click PROVE StackInv'
<1>1. /\ dispatch = "none" /\ dispatch' = "listener" /\ clicked' = minted + 1 /\ minted' = minted + 1
      /\ stack' = Push(stack, minted + 1) /\ UNCHANGED <<body, live, crossed, xhr>>
      /\ minted < MaxIds
  BY DEF Click, unchangedSdk
<1>2. stack \in Seq(Ids) /\ minted + 1 \in Ids /\ minted' \in 0..MaxIds
  BY <1>1, InteractionAssumption DEF StackInv, Types, Ids
<1>3. /\ stack' \in Seq(Ids) /\ Len(stack') = Len(stack) + 1 /\ Len(stack) \in Nat
      /\ \A i \in 1..Len(stack) : stack'[i] = stack[i]
      /\ stack'[Len(stack) + 1] = minted + 1
  BY <1>1, <1>2, PushFacts DEF Push
<1>4. Types'
  BY <1>1, <1>2, <1>3 DEF StackInv, Types
<1>5. ClickedOnTop' /\ LiveIsPending'
  BY <1>1, <1>3 DEF StackInv, ClickedOnTop, LiveIsPending
<1>6. Pending' = Pending /\ Cardinality(Pending) \in Nat
  BY <1>1, PendingFacts DEF Pending, StackInv
<1>7. Unwinds'
  BY <1>1, <1>3, <1>6 DEF StackInv, Unwinds
<1>8. Mirrored'
  <2>1. Len(live) \in Nat /\ DOMAIN live = 1..Len(live)
    BY LenProperties DEF StackInv, Types
  <2> QED BY <1>1, <1>3, <2>1 DEF StackInv, Mirrored
<1> QED BY <1>4, <1>5, <1>7, <1>8 DEF StackInv

\* The microtask cascade takes the click's context off again.
LEMMA CheckpointStep == ASSUME StackInv, MicrotaskCheckpoint PROVE StackInv'
<1>1. /\ dispatch = "listener" /\ dispatch' = "handlers" /\ stack' = PopId(stack, clicked)
      /\ UNCHANGED <<minted, clicked, body, live, crossed, xhr>>
  BY DEF MicrotaskCheckpoint, unchangedSdk
<1>2. stack \in Seq(Ids) /\ Len(stack) > 0 /\ clicked = stack[Len(stack)]
  BY <1>1 DEF StackInv, Types, ClickedOnTop
<1>3. /\ stack' \in Seq(Ids) /\ Len(stack') = Len(stack) - 1 /\ Len(stack) \in Nat
      /\ \A i \in 1..(Len(stack) - 1) : stack'[i] = stack[i]
  BY <1>1, <1>2, PopIdFacts, LenProperties
<1>4. Types'
  BY <1>1, <1>3 DEF StackInv, Types
<1>5. ClickedOnTop' /\ LiveIsPending'
  BY <1>1 DEF StackInv, ClickedOnTop, LiveIsPending
<1>6. Pending' = Pending /\ Cardinality(Pending) \in Nat
  BY <1>1, PendingFacts DEF Pending, StackInv
<1>7. Unwinds'
  BY <1>1, <1>3, <1>6 DEF StackInv, Unwinds
<1>8. Mirrored'
  <2>1. Len(live) \in Nat /\ DOMAIN live = 1..Len(live)
    BY LenProperties DEF StackInv, Types
  <2> QED BY <1>1, <1>3, <2>1 DEF StackInv, Mirrored
<1> QED BY <1>4, <1>5, <1>7, <1>8 DEF StackInv

\* What is active is an id that is on the stack.
LEMMA CurrentFacts ==
    ASSUME Types
    PROVE  /\ Current \in Ids \cup {None}
           /\ Len(stack) > 0 => Current = stack[Len(stack)]
<1>1. CASE stack = <<>>
  BY <1>1, EmptySeq DEF Current, Types
<1>2. CASE stack # <<>>
  <2>1. Len(stack) \in 1..Len(stack)
    BY <1>2, EmptySeq DEF Types
  <2> QED BY <1>2, <2>1, ElementOfSeq DEF Current, Types
<1> QED BY <1>1, <1>2

\* Every step keeps the stack's invariant.
LEMMA StackStep == ASSUME StackInv, [Next]_vars PROVE StackInv'
<1>0. Types /\ stack \in Seq(Ids) /\ 1..minted \subseteq Ids
  BY InteractionAssumption DEF StackInv, Types, Ids
<1>1. ASSUME NEW b \in Bodies, WithInteractionContextAsync(b) PROVE StackInv'
  <2>1. PICK id \in 1..minted : Enter(b, id) /\ stack' = Push(stack, id)
    BY <1>1 DEF WithInteractionContextAsync
  <2>2. Running /\ UNCHANGED <<minted, dispatch, clicked, crossed, xhr>>
    BY <1>1 DEF WithInteractionContextAsync, unchangedSdk
  <2>3. id \in Ids /\ stack' \in Seq(Ids) /\ Len(stack') = Len(stack) + 1
    BY <1>0, <2>1, PushFacts DEF Push
  <2> QED BY <2>1, <2>2, <2>3, EnterStep
<1>2. ASSUME NEW b \in Bodies, WithInteractionContext(b) PROVE StackInv'
  <2>1. PICK outer \in 1..minted, id \in 1..minted :
            Enter(b, id) /\ stack' = Pop(Push(Push(stack, outer), id))
    BY <1>2 DEF WithInteractionContext
  <2>2. Running /\ crossed' = "yes" /\ UNCHANGED <<minted, dispatch, clicked, xhr>>
    BY <1>2 DEF WithInteractionContext, unchangedSdk
  <2>3. id \in Ids /\ outer \in Ids
    BY <1>0
  <2>4. Push(stack, outer) \in Seq(Ids) /\ Len(Push(stack, outer)) = Len(stack) + 1
    BY <1>0, <2>3, PushFacts DEF Push
  <2>5. stack' = Push(stack, outer)
    BY <2>1, <2>3, <2>4, PushPop
  <2> QED BY <2>1, <2>2, <2>3, <2>4, <2>5, EnterStep
<1>3. ASSUME NEW b \in Bodies, WrapAsync(b) PROVE StackInv'
  <2>1. /\ Running /\ Current # None /\ Enter(b, Current) /\ stack' = Push(stack, Current)
        /\ UNCHANGED <<minted, dispatch, clicked, crossed, xhr>>
    BY <1>3 DEF WrapAsync, unchangedSdk
  <2>2. PICK id \in Ids : id = Current
    BY <1>0, <2>1, CurrentFacts
  <2>3. Enter(b, id) /\ stack' = Push(stack, id)
    BY <2>1, <2>2
  <2>4. stack' \in Seq(Ids) /\ Len(stack') = Len(stack) + 1
    BY <1>0, <2>3, PushFacts DEF Push
  <2> QED BY <2>1, <2>3, <2>4, EnterStep
<1>4. CASE WrapSync
  <2>1. stack' = Pop(Push(stack, Current)) /\ Current \in Ids
    BY <1>0, <1>4, CurrentFacts DEF WrapSync
  <2>2. stack' = stack
    BY <1>0, <2>1, PushPop
  <2>3. UNCHANGED <<minted, dispatch, clicked, body, live, crossed, xhr>>
    BY <1>4 DEF WrapSync, unchangedSdk
  <2>4. Types'
    BY <1>0, <2>2, <2>3 DEF Types
  <2> QED BY <2>2, <2>3, <2>4, IdleStep
<1>5. ASSUME NEW x \in Xhrs, XhrOpen(x) PROVE StackInv'
  <2>1. Types'
    BY <1>0, <1>5, CurrentFacts DEF XhrOpen, Types
  <2> QED BY <1>5, <2>1, IdleStep DEF XhrOpen
<1>6. CASE EventDone \/ (\E i \in Installers : Install(i) \/ Cleanup(i)) \/ UNCHANGED vars
  <2>1. /\ UNCHANGED <<stack, minted, body, live, crossed, xhr>>
        /\ \/ dispatch' = dispatch /\ clicked' = clicked
           \/ dispatch = "handlers" /\ dispatch' = "none"
    BY <1>6 DEF EventDone, Install, Cleanup, vars, unchangedSdk
  <2>2. Types'
    BY <1>0, <2>1 DEF Types
  <2> QED BY <2>1, <2>2, IdleStep
<1> QED BY <1>1, <1>2, <1>3, <1>4, <1>5, <1>6, ClickStep, CheckpointStep, SettleStep DEF Next

\* Every step keeps the installer's books.
LEMMA InstallStep == ASSUME InstallInv, [Next]_vars PROVE InstallInv'
<1>0. /\ IsFiniteSet(Held) /\ Cardinality(Held) \in Nat
      /\ installRefCount = Cardinality(Held) /\ (listening = "yes" <=> Held # {})
      /\ handle \in [Installers -> {"none", "held"}] /\ listening \in {"yes", "no"}
  <2>1. Held \subseteq Installers
    BY DEF Held
  <2>2. IsFiniteSet(Held) /\ Cardinality(Held) \in Nat
    BY <2>1, InteractionAssumption, FS_Subset, FS_CardinalityType
  <2> QED BY <2>2 DEF InstallInv, InstalledWhileHeld, Held
<1>1. ASSUME NEW i \in Installers, Install(i) PROVE InstallInv'
  <2>1. i \notin Held /\ Held' = Held \cup {i} /\ handle' \in [Installers -> {"none", "held"}]
    BY <1>0, <1>1 DEF Install, Held
  <2>2. Cardinality(Held') = Cardinality(Held) + 1
    BY <1>0, <2>1, FS_AddElement
  <2>3. installRefCount' = Cardinality(Held')
    <3>1. CASE listening = "yes"
      BY <1>0, <1>1, <2>2, <3>1 DEF Install
    <3>2. CASE listening # "yes"
      BY <1>0, <1>1, <2>2, <3>2, FS_EmptySet DEF Install
    <3> QED BY <3>1, <3>2
  <2>4. listening' = "yes" /\ Held' # {}
    BY <1>1, <2>1 DEF Install
  <2> QED BY <2>1, <2>3, <2>4 DEF InstallInv, InstalledWhileHeld, Held
<1>2. ASSUME NEW i \in Installers, Cleanup(i) PROVE InstallInv'
  <2>1. i \in Held /\ Held' = Held \ {i} /\ handle' \in [Installers -> {"none", "held"}]
    BY <1>0, <1>2 DEF Cleanup, Held
  <2>2. Cardinality(Held') = Cardinality(Held) - 1 /\ Cardinality(Held) > 0
    <3>1. Cardinality(Held') = Cardinality(Held) - 1
      BY <1>0, <2>1, FS_RemoveElement
    <3>2. Cardinality(Held) # 0
      BY <1>0, <2>1, FS_EmptySet
    <3> QED BY <1>0, <3>1, <3>2
  <2>3. installRefCount' = Cardinality(Held')
    BY <1>0, <1>2, <2>2 DEF Cleanup
  <2>4. installRefCount' = 0 <=> Held' = {}
    <3>1. IsFiniteSet(Held')
      BY <1>0, <2>1, FS_RemoveElement
    <3> QED BY <2>3, <3>1, FS_EmptySet
  <2>5. listening' \in {"yes", "no"} /\ (listening' = "yes" <=> Held' # {})
    BY <1>0, <1>2, <2>1, <2>4 DEF Cleanup
  <2> QED BY <2>1, <2>3, <2>5 DEF InstallInv, InstalledWhileHeld, Held
<1>3. CASE UNCHANGED <<handle, listening, installRefCount>>
  BY <1>3 DEF InstallInv, InstalledWhileHeld
<1>4. \/ \E i \in Installers : Install(i) \/ Cleanup(i)
      \/ UNCHANGED <<handle, listening, installRefCount>>
  BY DEF Next, vars, unchangedSdk, Click, MicrotaskCheckpoint, EventDone, WrapSync,
     WithInteractionContextAsync, WithInteractionContext, WrapAsync, Settle, XhrOpen
<1> QED BY <1>1, <1>2, <1>3, <1>4

-----------------------------------------------------------------------------
\* The invariant holds in every execution.
THEOREM InteractionInvariant == Spec => []InteractionInv
<1>1. Init => InteractionInv
  <2> SUFFICES ASSUME Init PROVE InteractionInv
    OBVIOUS
  <2>1. /\ <<>> \in Seq(Ids) /\ <<>> \in Seq(Bodies) /\ Len(<<>>) = 0 /\ DOMAIN <<>> = {}
        /\ Pending = {} /\ Cardinality({}) = 0
    BY EmptySeq, FS_EmptySet DEF Init, Pending
  <2>2. Types
    BY <2>1, InteractionAssumption DEF Init, Types
  <2>3. ClickedOnTop /\ LiveIsPending /\ Unwinds /\ Mirrored
    BY <2>1 DEF Init, ClickedOnTop, LiveIsPending, Unwinds, Mirrored
  <2>4. InstallInv
    <3>1. Held = {}
      BY DEF Init, Held
    <3> QED BY <2>1, <3>1 DEF Init, InstallInv, InstalledWhileHeld, Held
  <2> QED BY <2>2, <2>3, <2>4 DEF InteractionInv
<1>2. InteractionInv /\ [Next]_vars => InteractionInv'
  BY StackStep, InstallStep DEF InteractionInv, StackInv
<1> QED BY <1>1, <1>2, PTL DEF Spec

\* Every way out of a context pops exactly one entry (popInteraction, interaction.ts),
\* so the stack is as deep as there are unsettled bodies.
THEOREM UnwindsHolds == Spec => []Unwinds
<1>1. InteractionInv => Unwinds
  BY DEF InteractionInv
<1> QED BY <1>1, InteractionInvariant, PTL

\* Left innermost first, the contexts on the stack are those of the unsettled
\* bodies in the order they were entered, an event's id on top of them.
THEOREM NestedHolds == Spec => []Nested
<1>1. InteractionInv => Nested
  <2> SUFFICES ASSUME InteractionInv, crossed = "no" PROVE Nested
    BY DEF Nested
  <2> DEFINE mine == [i \in 1..Len(live) |-> body[live[i]]]
             top  == IF dispatch = "listener" THEN <<clicked>> ELSE <<>>
  <2>1. /\ stack \in Seq(Ids) /\ Len(stack) \in Nat /\ Len(live) \in Nat /\ DOMAIN live = 1..Len(live)
        /\ \A i \in 1..Len(live) : live[i] \in Bodies
        /\ \A i \in 1..Len(stack) : stack[i] \in Ids
    BY LenProperties, ElementOfSeq DEF InteractionInv, Types
  <2>2. /\ Len(stack) = Len(live) + IF dispatch = "listener" THEN 1 ELSE 0
        /\ \A i \in 1..Len(live) : stack[i] = body[live[i]]
    BY <2>1 DEF InteractionInv, Mirrored
  <2>3. mine \in Seq(Ids) /\ Len(mine) = Len(live) /\ \A i \in 1..Len(live) : mine[i] = stack[i]
    <3>1. \A i \in 1..Len(live) : body[live[i]] \in Ids
      BY <2>1, <2>2
    <3>2. mine \in [1..Len(live) -> Ids]
      BY <3>1
    <3>3. mine \in Seq(Ids)
      BY <2>1, <3>2
    <3>4. Len(mine) = Len(live)
      BY <2>1, <3>2, <3>3, LenProperties
    <3> QED BY <2>2, <3>3, <3>4
  <2> HIDE DEF mine
  <2>4. /\ top \in Seq(Ids) /\ Len(top) = IF dispatch = "listener" THEN 1 ELSE 0
        /\ dispatch = "listener" => top[1] = stack[Len(stack)]
    <3>1. CASE dispatch = "listener"
      <4>1. Len(stack) \in 1..Len(stack) /\ clicked = stack[Len(stack)]
        BY <2>1, <3>1 DEF InteractionInv, ClickedOnTop
      <4>2. clicked \in Ids
        BY <2>1, <4>1
      <4> QED BY <3>1, <4>1, <4>2
    <3>2. CASE dispatch # "listener"
      BY <3>2, EmptySeq
    <3> QED BY <3>1, <3>2
  <2> HIDE DEF top
  <2>5. /\ mine \o top \in Seq(Ids) /\ Len(mine \o top) = Len(stack)
        /\ \A i \in 1..Len(stack) : (mine \o top)[i] = stack[i]
    <3>1. /\ mine \o top \in Seq(Ids) /\ Len(mine \o top) = Len(mine) + Len(top)
          /\ \A i \in 1..(Len(mine) + Len(top)) :
                (mine \o top)[i] = IF i <= Len(mine) THEN mine[i] ELSE top[i - Len(mine)]
      BY <2>3, <2>4, ConcatProperties
    <3> QED BY <2>1, <2>2, <2>3, <2>4, <3>1
  <2>6. stack = mine \o top
    BY <2>1, <2>5, SeqEqual
  <2> QED BY <2>6 DEF Nested, mine, top
<1> QED BY <1>1, InteractionInvariant, PTL

\* However callers of installAutoCorrelate come and go, the patches stay until the
\* last one has called its cleanup function (installRefCount, auto-correlate.ts).
THEOREM InstalledWhileHeldHolds == Spec => []InstalledWhileHeld
<1>1. InteractionInv => InstalledWhileHeld
  BY DEF InteractionInv, InstallInv
<1> QED BY <1>1, InteractionInvariant, PTL
=============================================================================
