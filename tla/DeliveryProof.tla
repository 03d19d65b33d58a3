---------------------------- MODULE DeliveryProof ---------------------------
(***************************************************************************)
(* Proofs about telemetry delivery.  The first part is about Exporter      *)
(* alone, for every cap, threshold and kind of exporter.  The second part  *)
(* composes: whatever the network and the collector do, the exporter in    *)
(* Delivery takes only steps of Exporter, so its invariants carry over,    *)
(* and with the receiver's they give what the whole pipeline promises.     *)
(***************************************************************************)
EXTENDS Delivery, SequenceTheorems, FiniteSetTheorems, TLAPS

(***************************************************************************)
(* The inductive strengthening.  The buffer can only overflow at its cap,  *)
(* and while a flight is outstanding nothing takes entries out of it: so a *)
(* batch that comes back after an overflow finds the buffer full and is    *)
(* cut off whole, and otherwise nothing newer than it has been dropped.    *)
(***************************************************************************)
Numbered ==
    /\ \A b \in flights : \A x \in Elems(b) : x <= made
    /\ \A x \in Elems(buffer) : x <= made
    /\ dropped \in SUBSET Nat
    /\ \A x \in dropped : x <= made

InOrder ==
    /\ Increasing(buffer)
    /\ \A b \in flights : Increasing(b) /\ \A x \in Elems(b), y \in Elems(buffer) : x < y

FlightOrFull ==
    \A b \in flights :
        \/ Len(buffer) = Cap
        \/ \A x \in dropped, y \in Elems(b) : x < y

ExportInv == TypeOK /\ SingleFlight /\ Numbered /\ InOrder /\ DropsOldest /\ FlightOrFull

-----------------------------------------------------------------------------
\* What splice(0, n) leaves of a buffer: its length and its entries.
LEMMA SpliceFacts ==
    ASSUME NEW s \in Seq(Nat), NEW n \in 0..Len(s)
    PROVE  /\ Splice(s, n) \in Seq(Nat)
           /\ Len(Splice(s, n)) = Len(s) - n
           /\ DOMAIN Splice(s, n) = 1..(Len(s) - n)
           /\ \A i \in 1..(Len(s) - n) : Splice(s, n)[i] = s[n + i]
<1>1. Len(s) \in Nat /\ \A i \in (n + 1)..Len(s) : s[i] \in Nat
  BY LenProperties, ElementOfSeq
<1>2. /\ SubSeq(s, n + 1, Len(s)) \in Seq(Nat)
      /\ Len(SubSeq(s, n + 1, Len(s))) = IF n + 1 <= Len(s) THEN Len(s) - (n + 1) + 1 ELSE 0
      /\ \A i \in 1..(Len(s) - (n + 1) + 1) : SubSeq(s, n + 1, Len(s))[i] = s[(n + 1) + i - 1]
  BY <1>1, SubSeqProperties
<1>3. Len(Splice(s, n)) = Len(s) - n /\ Splice(s, n) \in Seq(Nat)
  BY <1>1, <1>2 DEF Splice
<1>4. \A i \in 1..(Len(s) - n) : Splice(s, n)[i] = s[n + i]
  BY <1>1, <1>2 DEF Splice
<1> QED BY <1>3, <1>4, LenProperties

\* Cutting off the oldest entries keeps the order, and what is left is newer.
LEMMA SpliceOrder ==
    ASSUME NEW s \in Seq(Nat), NEW n \in 0..Len(s), Increasing(s)
    PROVE  /\ Increasing(Splice(s, n))
           /\ \A i \in Oldest(s, n), j \in Elems(Splice(s, n)) : i < j
           /\ Elems(Splice(s, n)) \subseteq Elems(s)
           /\ Oldest(s, n) \subseteq Elems(s)
           /\ Elems(s) \subseteq Oldest(s, n) \cup Elems(Splice(s, n))
<1>1. Len(s) \in Nat /\ DOMAIN s = 1..Len(s)
  BY LenProperties
<1> DEFINE t == Splice(s, n)
<1>2. /\ DOMAIN t = 1..(Len(s) - n)
      /\ \A i \in 1..(Len(s) - n) : t[i] = s[n + i] /\ n + i \in DOMAIN s
  <2>1. DOMAIN t = 1..(Len(s) - n) /\ \A i \in 1..(Len(s) - n) : t[i] = s[n + i]
    BY SpliceFacts
  <2>2. \A i \in 1..(Len(s) - n) : n + i \in 1..Len(s)
    BY <1>1
  <2> QED BY <1>1, <2>1, <2>2
<1>3. Increasing(t)
  <2> HIDE DEF t
  <2> SUFFICES ASSUME NEW i \in DOMAIN t, NEW j \in DOMAIN t, i < j PROVE t[i] < t[j]
    BY DEF Increasing
  <2>1. n + i \in DOMAIN s /\ n + j \in DOMAIN s /\ t[i] = s[n + i] /\ t[j] = s[n + j]
    BY <1>2
  <2>2. n + i < n + j
    BY <1>1, <1>2
  <2>3. \A k, l \in DOMAIN s : k < l => s[k] < s[l]
    BY DEF Increasing
  <2>4. s[n + i] < s[n + j]
    BY <2>1, <2>2, <2>3
  <2> QED BY <2>1, <2>4
<1>4. ASSUME NEW i \in Oldest(s, n), NEW j \in Elems(Splice(s, n)) PROVE i < j
  <2>1. PICK k \in 1..n : i = s[k]
    BY DEF Oldest
  <2>2. PICK m \in 1..(Len(s) - n) : j = s[n + m]
    BY <1>2 DEF Elems
  <2>3. k \in DOMAIN s /\ n + m \in DOMAIN s /\ k < n + m
    BY <1>1
  <2> QED BY <2>1, <2>2, <2>3 DEF Increasing
<1>5. Elems(Splice(s, n)) \subseteq Elems(s)
  BY <1>2 DEF Elems
<1>6. Oldest(s, n) \subseteq Elems(s)
  BY <1>1 DEF Oldest, Elems
<1>7. ASSUME NEW i \in DOMAIN s PROVE s[i] \in Oldest(s, n) \cup Elems(t)
  <2>1. CASE i <= n
    BY <1>1, <2>1 DEF Oldest
  <2>2. CASE ~(i <= n)
    <3>1. i - n \in 1..(Len(s) - n) /\ n + (i - n) = i
      BY <1>1, <2>2
    <3>2. i - n \in DOMAIN t /\ t[i - n] = s[i]
      BY <1>2, <3>1
    <3> QED BY <3>2 DEF Elems
  <2> QED BY <2>1, <2>2
<1>8. Elems(s) \subseteq Oldest(s, n) \cup Elems(t)
  BY <1>7 DEF Elems
<1> QED BY <1>3, <1>4, <1>5, <1>6, <1>8

\* Entries of a buffer are item numbers; the empty buffer has none.
LEMMA ElemsFacts ==
    /\ \A s \in Seq(Nat) : Elems(s) \subseteq Nat /\ Len(s) \in Nat /\ DOMAIN s = 1..Len(s)
    /\ Elems(<<>>) = {} /\ Increasing(<<>>) /\ <<>> \in Seq(Nat) /\ Len(<<>>) = 0
<1>1. ASSUME NEW s \in Seq(Nat)
      PROVE  Elems(s) \subseteq Nat /\ Len(s) \in Nat /\ DOMAIN s = 1..Len(s)
  BY LenProperties, ElementOfSeq DEF Elems
<1>2. <<>> \in Seq(Nat) /\ Len(<<>>) = 0 /\ DOMAIN <<>> = {}
  BY EmptySeq
<1> QED BY <1>1, <1>2 DEF Elems, Increasing

\* push: the entries, length and order of a buffer with one more entry.
LEMMA AppendFacts ==
    ASSUME NEW s \in Seq(Nat), NEW x \in Nat
    PROVE  /\ Append(s, x) \in Seq(Nat)
           /\ Len(Append(s, x)) = Len(s) + 1
           /\ Elems(Append(s, x)) = Elems(s) \cup {x}
           /\ Increasing(s) /\ (\A y \in Elems(s) : y < x) => Increasing(Append(s, x))
<1>1. Len(s) \in Nat /\ DOMAIN s = 1..Len(s) /\ \A i \in DOMAIN s : s[i] \in Nat
  BY LenProperties, ElementOfSeq
<1>2. /\ Append(s, x) \in Seq(Nat) /\ Len(Append(s, x)) = Len(s) + 1
      /\ DOMAIN Append(s, x) = 1..(Len(s) + 1)
      /\ \A i \in 1..Len(s) : Append(s, x)[i] = s[i]
      /\ Append(s, x)[Len(s) + 1] = x
  BY <1>1, AppendProperties, LenProperties
<1>3. Elems(Append(s, x)) = Elems(s) \cup {x}
  BY <1>1, <1>2 DEF Elems
<1>4. ASSUME Increasing(s), \A y \in Elems(s) : y < x PROVE Increasing(Append(s, x))
  BY <1>1, <1>2, <1>4 DEF Elems, Increasing
<1> QED BY <1>2, <1>3, <1>4

\* unshift: the entries, length and order of a batch in front of a buffer.
LEMMA ConcatFacts ==
    ASSUME NEW s \in Seq(Nat), NEW t \in Seq(Nat)
    PROVE  /\ s \o t \in Seq(Nat)
           /\ Len(s \o t) = Len(s) + Len(t)
           /\ Elems(s \o t) = Elems(s) \cup Elems(t)
           /\ Increasing(s) /\ Increasing(t) /\ (\A x \in Elems(s), y \in Elems(t) : x < y)
                => Increasing(s \o t)
<1>1. /\ Len(s) \in Nat /\ DOMAIN s = 1..Len(s)
      /\ Len(t) \in Nat /\ DOMAIN t = 1..Len(t)
  BY LenProperties
<1>2. /\ s \o t \in Seq(Nat) /\ Len(s \o t) = Len(s) + Len(t)
      /\ DOMAIN (s \o t) = 1..(Len(s) + Len(t))
      /\ \A i \in 1..(Len(s) + Len(t)) :
            (s \o t)[i] = IF i <= Len(s) THEN s[i] ELSE t[i - Len(s)]
  BY ConcatProperties, LenProperties
<1> DEFINE c == s \o t
<1>3. /\ \A i \in 1..Len(s) : c[i] = s[i] /\ i \in DOMAIN c
      /\ \A i \in 1..Len(t) : c[Len(s) + i] = t[i] /\ Len(s) + i \in DOMAIN c
  <2>1. \A i \in 1..Len(s) : c[i] = s[i] /\ i \in DOMAIN c
    BY <1>1, <1>2
  <2>2. ASSUME NEW i \in 1..Len(t) PROVE c[Len(s) + i] = t[i] /\ Len(s) + i \in DOMAIN c
    <3>1. Len(s) + i \in 1..(Len(s) + Len(t)) /\ ~(Len(s) + i <= Len(s)) /\ (Len(s) + i) - Len(s) = i
      BY <1>1
    <3> QED BY <1>2, <3>1
  <2> QED BY <2>1, <2>2
<1>4. \A i \in DOMAIN c :
          \/ i \in DOMAIN s /\ c[i] = s[i]
          \/ i - Len(s) \in DOMAIN t /\ c[i] = t[i - Len(s)] /\ i > Len(s)
  <2> SUFFICES ASSUME NEW i \in DOMAIN c
               PROVE  \/ i \in DOMAIN s /\ c[i] = s[i]
                      \/ i - Len(s) \in DOMAIN t /\ c[i] = t[i - Len(s)] /\ i > Len(s)
    OBVIOUS
  <2>1. i \in 1..(Len(s) + Len(t)) /\ c[i] = IF i <= Len(s) THEN s[i] ELSE t[i - Len(s)]
    BY <1>2
  <2>2. CASE i <= Len(s)
    BY <1>1, <2>1, <2>2
  <2>3. CASE ~(i <= Len(s))
    BY <1>1, <2>1, <2>3
  <2> QED BY <2>2, <2>3
<1> HIDE DEF c
<1>5. Elems(c) = Elems(s) \cup Elems(t)
  <2>1. Elems(c) \subseteq Elems(s) \cup Elems(t)
    BY <1>4 DEF Elems
  <2>2. Elems(s) \subseteq Elems(c)
    BY <1>1, <1>3 DEF Elems
  <2>3. Elems(t) \subseteq Elems(c)
    BY <1>1, <1>3 DEF Elems
  <2> QED BY <2>1, <2>2, <2>3
<1>6. ASSUME Increasing(s), Increasing(t), \A x \in Elems(s), y \in Elems(t) : x < y
      PROVE  Increasing(c)
  <2> SUFFICES ASSUME NEW i \in DOMAIN c, NEW j \in DOMAIN c, i < j PROVE c[i] < c[j]
    BY DEF Increasing
  <2>0. i \in Int /\ j \in Int
    BY <1>2 DEF c
  <2>1. CASE i \in DOMAIN s /\ j \in DOMAIN s /\ c[i] = s[i] /\ c[j] = s[j]
    BY <1>6, <2>1 DEF Increasing
  <2>2. CASE /\ i \in DOMAIN s /\ c[i] = s[i]
             /\ j - Len(s) \in DOMAIN t /\ c[j] = t[j - Len(s)]
    BY <1>6, <2>2 DEF Elems
  <2>3. CASE /\ i - Len(s) \in DOMAIN t /\ c[i] = t[i - Len(s)]
             /\ j - Len(s) \in DOMAIN t /\ c[j] = t[j - Len(s)]
    <3>1. i - Len(s) < j - Len(s)
      BY <1>1, <2>0
    <3> QED BY <1>6, <2>3, <3>1 DEF Increasing
  <2>4. i > Len(s) => ~(j \in DOMAIN s)
    BY <1>1, <2>0
  <2> QED BY <1>4, <2>1, <2>2, <2>3, <2>4
<1> QED BY <1>2, <1>5, <1>6 DEF c

\* Making room at the hard cap drops nothing below the cap, and otherwise only
\* the oldest entry.
LEMMA MakeRoomFacts ==
    ASSUME NEW s \in Seq(Nat), Len(s) <= Cap, Increasing(s)
    PROVE  /\ MakeRoom(s) \in Seq(Nat) /\ Len(MakeRoom(s)) < Cap /\ Increasing(MakeRoom(s))
           /\ Elems(MakeRoom(s)) \subseteq Elems(s)
           /\ Oldest(s, Len(s) - Cap + 1) \subseteq Elems(s)
           /\ \A x \in Oldest(s, Len(s) - Cap + 1), y \in Elems(MakeRoom(s)) : x < y
           /\ Len(s) = Cap => Len(MakeRoom(s)) = Cap - 1
           /\ Len(s) < Cap => Oldest(s, Len(s) - Cap + 1) = {}
           /\ Elems(s) \subseteq Oldest(s, Len(s) - Cap + 1) \cup Elems(MakeRoom(s))
<1> USE ExporterAssumption
<1>1. Len(s) \in Nat
  BY LenProperties
<1>2. CASE Len(s) < Cap
  <2>1. MakeRoom(s) = s /\ Oldest(s, Len(s) - Cap + 1) = {}
    BY <1>1, <1>2 DEF MakeRoom, Oldest
  <2> QED BY <1>1, <1>2, <2>1
<1>3. CASE Len(s) = Cap
  <2>1. Len(s) - Cap + 1 = 1 /\ 1 \in 0..Len(s) /\ MakeRoom(s) = Splice(s, 1)
    BY <1>1, <1>3 DEF MakeRoom
  <2> QED BY <1>1, <1>3, <2>1, SpliceFacts, SpliceOrder
<1> QED BY <1>1, <1>2, <1>3

\* Putting a failed batch back keeps the cap and the order, cuts off only the
\* oldest, and cuts off the whole batch when the buffer is full.
LEMMA RequeueFacts ==
    ASSUME NEW b \in Seq(Nat), buffer \in Seq(Nat), Len(buffer) <= Cap, Increasing(b),
           Increasing(buffer), \A x \in Elems(b), y \in Elems(buffer) : x < y
    PROVE  /\ Requeue(b) \in Seq(Nat) /\ Len(Requeue(b)) <= Cap /\ Increasing(Requeue(b))
           /\ Elems(Requeue(b)) \subseteq Elems(b) \cup Elems(buffer)
           /\ Oldest(b \o buffer, Len(b) + Len(buffer) - Cap) \subseteq Elems(b) \cup Elems(buffer)
           /\ \A x \in Oldest(b \o buffer, Len(b) + Len(buffer) - Cap), y \in Elems(Requeue(b)) : x < y
           /\ Len(buffer) = Cap => Elems(Requeue(b)) \subseteq Elems(buffer)
           /\ Elems(b) \cup Elems(buffer) \subseteq
                 Oldest(b \o buffer, Len(b) + Len(buffer) - Cap) \cup Elems(Requeue(b))
<1> USE ExporterAssumption
<1> DEFINE all == b \o buffer
           n == Len(b) + Len(buffer) - Cap
<1>1. Len(b) \in Nat /\ Len(buffer) \in Nat
  BY LenProperties
<1>2. /\ all \in Seq(Nat) /\ Len(all) = Len(b) + Len(buffer)
      /\ Elems(all) = Elems(b) \cup Elems(buffer) /\ Increasing(all)
  BY ConcatFacts
<1>3. Requeue(b) = IF Len(all) > Cap THEN Splice(all, n) ELSE all
  BY <1>2 DEF Requeue
<1>4. CASE Len(all) > Cap
  <2>1. n \in 0..Len(all) /\ Requeue(b) = Splice(all, n) /\ Len(all) - n = Cap
    BY <1>1, <1>2, <1>3, <1>4
  <2> HIDE DEF all, n
  <2>2. /\ Splice(all, n) \in Seq(Nat) /\ Len(Splice(all, n)) = Len(all) - n
        /\ DOMAIN Splice(all, n) = 1..(Len(all) - n)
        /\ \A i \in 1..(Len(all) - n) : Splice(all, n)[i] = all[n + i]
    BY <1>2, <2>1, SpliceFacts
  <2>3. /\ Increasing(Splice(all, n)) /\ Elems(Splice(all, n)) \subseteq Elems(all)
        /\ Oldest(all, n) \subseteq Elems(all)
        /\ \A x \in Oldest(all, n), y \in Elems(Splice(all, n)) : x < y
        /\ Elems(all) \subseteq Oldest(all, n) \cup Elems(Splice(all, n))
    BY <1>2, <2>1, SpliceOrder
  <2>4. ASSUME Len(buffer) = Cap PROVE Elems(Requeue(b)) \subseteq Elems(buffer)
    <3>1. n = Len(b) /\ DOMAIN buffer = 1..Cap
      BY <1>1, <2>4, LenProperties DEF n
    <3>2. \A i \in 1..Cap : all[n + i] = buffer[i]
      BY <1>1, <2>4, <3>1, ConcatProperties DEF all
    <3> QED BY <2>1, <2>2, <3>1, <3>2 DEF Elems
  <2>5. Len(Requeue(b)) <= Cap /\ Requeue(b) \in Seq(Nat)
    BY <2>1, <2>2
  <2> QED BY <1>2, <2>1, <2>3, <2>4, <2>5 DEF all, n
<1>5. CASE ~(Len(all) > Cap)
  <2>1. Requeue(b) = all /\ Oldest(all, n) = {} /\ Len(all) <= Cap
    BY <1>1, <1>2, <1>3, <1>5 DEF Oldest
  <2>2. ASSUME Len(buffer) = Cap PROVE Elems(b) = {}
    BY <1>1, <1>2, <1>5, <2>2, LenProperties DEF Elems
  <2> QED BY <1>2, <2>1, <2>2
<1> QED BY <1>4, <1>5

-----------------------------------------------------------------------------
\* A flush that starts from an ordered buffer within the cap, whose entries are
\* newer than what was dropped, leaves the exporter's invariant intact.
LEMMA FlushStep ==
    ASSUME ExportInv, NEW buf \in Seq(Nat), Flush(buf), Len(buf) <= Cap, Increasing(buf),
           made' \in Nat, made <= made', failures' \in Nat,
           config' \in {"on", "off"}, timer' \in {"on", "off"}, closing' \in {"none", "wait", "return"},
           \A x \in Elems(buf) : x <= made',
           dropped' \in SUBSET Nat, \A x \in dropped' : x <= made',
           \A x \in dropped', y \in Elems(buf) : x < y,
           \A b \in flights : \A x \in Elems(b), y \in Elems(buf) : x < y,
           \A b \in flights : Len(buf) = Cap \/ \A x \in dropped', y \in Elems(b) : x < y
    PROVE  ExportInv'
<1>1. CASE CanFlush(buf)
  <2>1. buffer' = <<>> /\ flushing' = "yes" /\ flights' = {buf}
    BY <1>1 DEF Flush, CanFlush, ExportInv, SingleFlight, TypeOK
  <2> QED BY <2>1, ElemsFacts, ExporterAssumption
      DEF ExportInv, TypeOK, SingleFlight, Numbered, InOrder, DropsOldest, FlightOrFull
<1>2. CASE ~CanFlush(buf)
  <2>1. buffer' = buf /\ flushing' = flushing /\ flights' = flights
    BY <1>2 DEF Flush
  <2>2. TypeOK' /\ SingleFlight'
    BY <2>1 DEF ExportInv, TypeOK, SingleFlight
  <2>3. Numbered'
    <3>1. \A b \in flights : \A x \in Elems(b) : x \in Nat
      BY ElemsFacts DEF ExportInv, TypeOK
    <3> QED BY <2>1, <3>1 DEF ExportInv, TypeOK, Numbered
  <2>4. InOrder' /\ DropsOldest' /\ FlightOrFull'
    BY <2>1 DEF ExportInv, InOrder, DropsOldest, FlightOrFull
  <2> QED BY <2>2, <2>3, <2>4 DEF ExportInv
<1> QED BY <1>1, <1>2

\* Settling a fetch without touching the buffer keeps the invariant.
LEMMA SettleStep ==
    ASSUME ExportInv, NEW b \in flights, Settle(b), buffer' = buffer, dropped' = dropped,
           failures' = failures
    PROVE  ExportInv'
<1>1. flights' = {} /\ flushing' = "no" /\ config' = config /\ timer' = timer /\ made' = made
  BY DEF ExportInv, SingleFlight, Settle
<1>2. closing' \in {"none", "wait", "return"}
  BY DEF ExportInv, TypeOK, Settle
<1> QED BY <1>1, <1>2
    DEF ExportInv, TypeOK, SingleFlight, Numbered, InOrder, DropsOldest, FlightOrFull

\* Every step of an exporter preserves its invariant.
LEMMA ExportStep == ExportInv /\ [Next]_vars => ExportInv'
<1> SUFFICES ASSUME ExportInv, [Next]_vars PROVE ExportInv'
  OBVIOUS
<1>0. /\ buffer \in Seq(Nat) /\ Len(buffer) <= Cap /\ Increasing(buffer) /\ made \in Nat
      /\ Elems(buffer) \subseteq Nat /\ Len(buffer) \in Nat
      /\ \A b \in flights : b \in Seq(Nat) /\ Elems(b) \subseteq Nat /\ Increasing(b)
  BY ElemsFacts DEF ExportInv, TypeOK, InOrder
<1>1. CASE InitExporter \/ ShutdownReturns
  BY <1>1 DEF InitExporter, ShutdownReturns, ExportInv, TypeOK, SingleFlight, Numbered, InOrder,
     DropsOldest, FlightOrFull
<1>2. CASE Enqueue
  <2> DEFINE kept == MakeRoom(buffer)
             buf  == Append(kept, made + 1)
             cut  == Oldest(buffer, Len(buffer) - Cap + 1)
  <2>1. /\ kept \in Seq(Nat) /\ Len(kept) < Cap /\ Increasing(kept)
        /\ Elems(kept) \subseteq Elems(buffer) /\ cut \subseteq Elems(buffer)
        /\ \A x \in cut, y \in Elems(kept) : x < y
        /\ Len(buffer) = Cap => Len(kept) = Cap - 1
        /\ Len(buffer) < Cap => cut = {}
    BY <1>0, MakeRoomFacts
  <2>2. /\ dropped' = dropped \cup cut /\ made' = made + 1
        /\ UNCHANGED <<config, timer, closing, failures>>
        /\ Flush(buf) \/ (buffer' = buf /\ flushing' = flushing /\ flights' = flights)
    BY <1>2 DEF Enqueue
  <2> HIDE DEF kept, cut
  <2>3. \A x \in Elems(kept) : x < made + 1
    BY <1>0, <2>1 DEF ExportInv, Numbered
  <2>4. /\ buf \in Seq(Nat) /\ Len(buf) = Len(kept) + 1 /\ Increasing(buf)
        /\ Elems(buf) = Elems(kept) \cup {made + 1}
    BY <1>0, <2>1, <2>3, AppendFacts
  <2> HIDE DEF buf
  <2>5. Len(buf) <= Cap /\ (Len(buffer) = Cap => Len(buf) = Cap)
    BY <2>1, <2>4, ElemsFacts, ExporterAssumption
  <2>6. \A x \in Elems(buf) : x <= made'
    BY <1>0, <2>1, <2>2, <2>3, <2>4
  <2>7. dropped' \in SUBSET Nat /\ \A x \in dropped' : x <= made'
    <3>1. dropped \in SUBSET Nat /\ (\A x \in dropped : x <= made) /\ \A x \in cut : x <= made
      BY <2>1 DEF ExportInv, Numbered
    <3>2. cut \in SUBSET Nat
      BY <1>0, <2>1
    <3> QED BY <1>0, <2>2, <3>1, <3>2
  <2>8. \A x \in dropped', y \in Elems(buf) : x < y
    <3>1. \A x \in dropped \cup cut : x \in Nat /\ x <= made
      BY <1>0, <2>1 DEF ExportInv, Numbered
    <3>2. \A x \in dropped, y \in Elems(kept) : x < y
      BY <2>1 DEF ExportInv, DropsOldest
    <3> QED BY <1>0, <2>1, <2>2, <2>4, <3>1, <3>2
  <2>9. \A b \in flights : \A x \in Elems(b), y \in Elems(buf) : x < y
    <3>1. \A b \in flights : \A x \in Elems(b) : x \in Nat /\ x <= made
      BY <1>0 DEF ExportInv, Numbered
    <3>2. \A b \in flights : \A x \in Elems(b), y \in Elems(kept) : x < y
      BY <2>1 DEF ExportInv, InOrder
    <3> QED BY <1>0, <2>4, <3>1, <3>2
  <2>10. \A b \in flights : Len(buf) = Cap \/ \A x \in dropped', y \in Elems(b) : x < y
    BY <1>0, <2>1, <2>2, <2>5, ExporterAssumption DEF ExportInv, FlightOrFull
  <2>11. /\ made' \in Nat /\ made <= made' /\ failures' \in Nat /\ config' \in {"on", "off"}
         /\ timer' \in {"on", "off"} /\ closing' \in {"none", "wait", "return"}
    BY <1>0, <2>2 DEF ExportInv, TypeOK
  <2>12. CASE Flush(buf)
    BY <2>4, <2>5, <2>6, <2>7, <2>8, <2>9, <2>10, <2>11, <2>12, FlushStep
  <2>13. CASE buffer' = buf /\ flushing' = flushing /\ flights' = flights
    <3>1. TypeOK' /\ SingleFlight'
      BY <2>4, <2>5, <2>11, <2>13 DEF ExportInv, TypeOK, SingleFlight
    <3>2. Numbered'
      BY <1>0, <2>2, <2>6, <2>7, <2>13 DEF ExportInv, Numbered
    <3>3. InOrder' /\ DropsOldest' /\ FlightOrFull'
      BY <1>0, <2>4, <2>8, <2>9, <2>10, <2>13 DEF InOrder, DropsOldest, FlightOrFull
    <3> QED BY <3>1, <3>2, <3>3 DEF ExportInv
  <2> QED BY <2>2, <2>12, <2>13
<1>3. CASE TimerFlush \/ ManualFlush \/ Shutdown
  <2>1. /\ Flush(buffer) /\ made' = made /\ failures' = failures /\ dropped' = dropped
        /\ config' = config /\ timer' \in {timer, "off"}
        /\ closing' \in {closing, "wait", "return"}
    BY <1>3 DEF TimerFlush, ManualFlush, Shutdown
  <2>2. /\ made' \in Nat /\ made <= made' /\ failures' \in Nat /\ config' \in {"on", "off"}
        /\ timer' \in {"on", "off"} /\ closing' \in {"none", "wait", "return"}
    BY <1>0, <2>1 DEF ExportInv, TypeOK
  <2>3. /\ \A x \in Elems(buffer) : x <= made'
        /\ dropped' \in SUBSET Nat /\ \A x \in dropped' : x <= made'
    BY <2>1 DEF ExportInv, Numbered
  <2>4. /\ \A x \in dropped', y \in Elems(buffer) : x < y
        /\ \A b \in flights : \A x \in Elems(b), y \in Elems(buffer) : x < y
        /\ \A b \in flights : Len(buffer) = Cap \/ \A x \in dropped', y \in Elems(b) : x < y
    BY <2>1 DEF ExportInv, DropsOldest, InOrder, FlightOrFull
  <2> QED BY <1>0, <2>1, <2>2, <2>3, <2>4, FlushStep
<1>4. ASSUME NEW b \in flights, FetchOk(b) \/ FetchErrorStatus(b) PROVE ExportInv'
  BY <1>4, SettleStep DEF FetchOk, FetchErrorStatus
<1>5. ASSUME NEW b \in flights, FetchThrows(b) PROVE ExportInv'
  <2> DEFINE cut == Oldest(b \o buffer, Len(b) + Len(buffer) - Cap)
  <2>1. /\ buffer' = Requeue(b) /\ dropped' = dropped \cup cut /\ failures' = failures + 1
        /\ flights' = {} /\ flushing' = "no" /\ config' = config /\ timer' = timer /\ made' = made
    BY <1>5 DEF FetchThrows, Settle, ExportInv, SingleFlight
  <2>2. closing' \in {"none", "wait", "return"}
    BY <1>5 DEF FetchThrows, Settle, ExportInv, TypeOK
  <2>3. /\ Requeue(b) \in Seq(Nat) /\ Len(Requeue(b)) <= Cap /\ Increasing(Requeue(b))
        /\ Elems(Requeue(b)) \subseteq Elems(b) \cup Elems(buffer)
        /\ cut \subseteq Elems(b) \cup Elems(buffer)
        /\ \A x \in cut, y \in Elems(Requeue(b)) : x < y
        /\ Len(buffer) = Cap => Elems(Requeue(b)) \subseteq Elems(buffer)
    BY <1>0, RequeueFacts DEF ExportInv, InOrder
  <2> HIDE DEF cut
  <2>4. TypeOK' /\ SingleFlight'
    BY <2>1, <2>2, <2>3 DEF ExportInv, TypeOK, SingleFlight
  <2>5. Numbered'
    BY <1>0, <2>1, <2>3 DEF ExportInv, Numbered
  <2>6. InOrder' /\ FlightOrFull'
    BY <2>1, <2>3 DEF InOrder, FlightOrFull
  <2>7. DropsOldest'
    <3>1. \A x \in dropped, y \in Elems(buffer) : x < y
      BY DEF ExportInv, DropsOldest
    <3>2. Len(buffer) = Cap \/ \A x \in dropped, y \in Elems(b) : x < y
      BY DEF ExportInv, FlightOrFull
    <3> QED BY <2>1, <2>3, <3>1, <3>2 DEF DropsOldest
  <2> QED BY <2>4, <2>5, <2>6, <2>7 DEF ExportInv
<1>6. CASE UNCHANGED vars
  BY <1>6 DEF vars, ExportInv, TypeOK, SingleFlight, Numbered, InOrder, DropsOldest, FlightOrFull
<1> QED
  BY <1>1, <1>2, <1>3, <1>4, <1>5, <1>6 DEF Next, Settling

\* The invariant holds in every execution of an exporter.
THEOREM ExportInvariant == Spec => []ExportInv
<1>1. Init => ExportInv
  BY ElemsFacts, ExporterAssumption
  DEF Init, ExportInv, TypeOK, SingleFlight, Numbered, InOrder, DropsOldest, FlightOrFull
<1>2. ExportInv /\ [Next]_vars => ExportInv'
  BY ExportStep
<1> QED
  BY <1>1, <1>2, PTL DEF Spec

\* No exporter's buffer ever holds more than its cap.
THEOREM BufferBounded == Spec => []TypeOK
<1>1. ExportInv => TypeOK
  BY DEF ExportInv
<1> QED BY <1>1, ExportInvariant, PTL

\* At most one fetch is outstanding, and exactly while the flag is up.
THEOREM SingleFlightHolds == Spec => []SingleFlight
<1>1. ExportInv => SingleFlight
  BY DEF ExportInv
<1> QED BY <1>1, ExportInvariant, PTL

\* A failed batch goes back in front of what was buffered meanwhile.
THEOREM OrderKeptHolds == Spec => []OrderKept
<1>1. ExportInv => OrderKept
  <2> SUFFICES ASSUME ExportInv, NEW b \in flights \cup {<<>>} PROVE Increasing(b \o buffer)
    BY DEF OrderKept
  <2>1. b \in Seq(Nat) /\ buffer \in Seq(Nat) /\ Increasing(b) /\ Increasing(buffer)
    BY ElemsFacts DEF ExportInv, TypeOK, InOrder
  <2>2. \A x \in Elems(b), y \in Elems(buffer) : x < y
    BY ElemsFacts DEF ExportInv, InOrder
  <2> QED BY <2>1, <2>2, ConcatFacts
<1> QED BY <1>1, ExportInvariant, PTL

\* The cap costs only items older than everything still buffered.
THEOREM DropsOldestHolds == Spec => []DropsOldest
<1>1. ExportInv => DropsOldest
  BY DEF ExportInv
<1> QED BY <1>1, ExportInvariant, PTL

-----------------------------------------------------------------------------
(***************************************************************************)
(* Accounting.  Parted is what it says of the five places as sets, which   *)
(* is inductive together with the invariant above: the order tells that a  *)
(* cut leaves nothing behind of what it drops, and the single flight that  *)
(* a batch that settles is all that was in flight.                         *)
(***************************************************************************)
Parted(B, F, K, L, D) ==
    /\ B \cup F \cup K \cup L \cup D = 1..made
    /\ B \cap F = {} /\ B \cap K = {} /\ B \cap L = {} /\ B \cap D = {}
    /\ F \cap K = {} /\ F \cap L = {} /\ F \cap D = {}
    /\ K \cap L = {} /\ K \cap D = {} /\ L \cap D = {}

Placed == Parted(Elems(buffer), InFlight, acked, lost, dropped)

\* What is in flight is the one batch there is.
LEMMA InFlightFacts ==
    ASSUME SingleFlight
    PROVE  /\ flights = {} => InFlight = {}
           /\ \A b \in flights : flights = {b} /\ InFlight = Elems(b)
  BY DEF SingleFlight, InFlight

\* A flush moves what is buffered into flight, or leaves it.
LEMMA FlushMoves ==
    ASSUME ExportInv, NEW buf \in Seq(Nat), Flush(buf)
    PROVE  \/ Elems(buffer') = Elems(buf) /\ InFlight' = InFlight
           \/ Elems(buffer') = {} /\ InFlight = {} /\ InFlight' = Elems(buf)
<1>1. CASE CanFlush(buf)
  <2>1. flights = {} /\ buffer' = <<>> /\ flights' = {buf}
    BY <1>1 DEF Flush, CanFlush, ExportInv, SingleFlight
  <2> QED BY <2>1, ElemsFacts DEF InFlight
<1>2. CASE ~CanFlush(buf)
  BY <1>2 DEF Flush, InFlight
<1> QED BY <1>1, <1>2

\* Every step of an exporter moves items from place to place, and makes none
\* but the next.
LEMMA PlacedStep == ASSUME ExportInv, Placed, [Next]_vars PROVE Placed'
<1>0. /\ buffer \in Seq(Nat) /\ Len(buffer) <= Cap /\ Increasing(buffer) /\ made \in Nat
      /\ Elems(buffer) \subseteq Nat /\ Len(buffer) \in Nat
      /\ \A b \in flights : b \in Seq(Nat) /\ Elems(b) \subseteq Nat /\ Increasing(b)
  BY ElemsFacts DEF ExportInv, TypeOK, InOrder
<1>1. CASE InitExporter \/ ShutdownReturns \/ UNCHANGED vars
  BY <1>1 DEF InitExporter, ShutdownReturns, vars, Placed, Parted, InFlight
<1>2. CASE Enqueue
  <2> DEFINE kept == MakeRoom(buffer)
             buf  == Append(kept, made + 1)
             cut  == Oldest(buffer, Len(buffer) - Cap + 1)
  <2>1. /\ kept \in Seq(Nat) /\ Elems(buffer) = cut \cup Elems(kept)
        /\ \A x \in cut, y \in Elems(kept) : x < y
    BY <1>0, MakeRoomFacts
  <2>2. /\ dropped' = dropped \cup cut /\ made' = made + 1 /\ acked' = acked /\ lost' = lost
        /\ Flush(buf) \/ (buffer' = buf /\ flushing' = flushing /\ flights' = flights)
    BY <1>2 DEF Enqueue
  <2> HIDE DEF kept, cut
  <2>3. buf \in Seq(Nat) /\ Elems(buf) = Elems(kept) \cup {made + 1}
    BY <1>0, <2>1, AppendFacts
  <2> HIDE DEF buf
  <2>4. \/ Elems(buffer') = Elems(buf) /\ InFlight' = InFlight
        \/ Elems(buffer') = {} /\ InFlight = {} /\ InFlight' = Elems(buf)
    BY <2>2, <2>3, FlushMoves DEF InFlight
  <2>5. cut \cap Elems(kept) = {}
    <3>1. \A x \in Nat : ~(x < x)
      OBVIOUS
    <3> QED BY <1>0, <2>1, <3>1
  <2>6. 1..(made + 1) = 1..made \cup {made + 1} /\ made + 1 \notin 1..made
    BY <1>0
  <2> QED BY <2>1, <2>2, <2>3, <2>4, <2>5, <2>6 DEF Placed, Parted
<1>3. CASE TimerFlush \/ ManualFlush \/ Shutdown
  <2>1. Flush(buffer) /\ UNCHANGED <<made, acked, lost, dropped>>
    BY <1>3 DEF TimerFlush, ManualFlush, Shutdown
  <2> QED BY <1>0, <2>1, FlushMoves DEF Placed, Parted
<1>4. ASSUME NEW b \in flights, FetchOk(b) \/ FetchErrorStatus(b) \/ FetchThrows(b)
      PROVE  /\ InFlight = Elems(b) /\ InFlight' = {} /\ made' = made
  BY <1>4, InFlightFacts DEF FetchOk, FetchErrorStatus, FetchThrows, Settle, ExportInv, InFlight
<1>5. ASSUME NEW b \in flights, FetchOk(b) \/ FetchErrorStatus(b) PROVE Placed'
  BY <1>4, <1>5 DEF FetchOk, FetchErrorStatus, Placed, Parted
<1>6. ASSUME NEW b \in flights, FetchThrows(b) PROVE Placed'
  <2> DEFINE cut == Oldest(b \o buffer, Len(b) + Len(buffer) - Cap)
  <2>1. /\ Elems(b) \cup Elems(buffer) = cut \cup Elems(Requeue(b))
        /\ \A x \in cut, y \in Elems(Requeue(b)) : x < y
    BY <1>0, RequeueFacts DEF ExportInv, InOrder
  <2>2. /\ buffer' = Requeue(b) /\ dropped' = dropped \cup cut
        /\ acked' = acked /\ lost' = lost
    BY <1>6 DEF FetchThrows
  <2> HIDE DEF cut
  <2>3. cut \cap Elems(Requeue(b)) = {}
    <3>1. \A x \in Nat : ~(x < x)
      OBVIOUS
    <3> QED BY <1>0, <2>1, <3>1
  <2> QED BY <1>4, <1>6, <2>1, <2>2, <2>3 DEF Placed, Parted
<1> QED BY <1>1, <1>2, <1>3, <1>5, <1>6 DEF Next, Settling

\* The partition holds in every execution of an exporter.
THEOREM PlacedInvariant == Spec => []Placed
<1>1. Init => Placed
  BY ElemsFacts DEF Init, Placed, Parted, InFlight
<1>2. ExportInv /\ Placed /\ [Next]_vars => Placed'
  BY PlacedStep
<1> QED BY <1>1, <1>2, ExportInvariant, PTL DEF Spec

\* The places as sets say what Accounting says of them in a row.
LEMMA PlacedAccounts == Placed => Accounting
<1> SUFFICES ASSUME Placed PROVE Accounting
  OBVIOUS
<1> DEFINE places == <<Elems(buffer), InFlight, acked, lost, dropped>>
<1>1. DOMAIN places = 1..5
  OBVIOUS
<1>2. UNION Elems(places) = Elems(buffer) \cup InFlight \cup acked \cup lost \cup dropped
  BY DEF Elems
<1>3. \A i, j \in 1..5 : i # j => places[i] \cap places[j] = {}
  BY DEF Placed, Parted
<1> QED BY <1>1, <1>2, <1>3 DEF Accounting, Placed, Parted

\* Every log record, span or AI call ever made is in exactly one place, however
\* flushes, failures and the cap interleave (requeueLogs, logger.ts, and its
\* twins in span.ts and ai.ts).
THEOREM AccountingHolds == Spec => []Accounting
  BY PlacedAccounts, PlacedInvariant, PTL

-----------------------------------------------------------------------------
\* Every step of the composed system is a step of the exporter or leaves it
\* alone: a fetch of Delivery settles as one of Exporter's fetches does.
LEMMA ExporterStep == [DeliveryNext]_allVars => [Next]_vars
<1> SUFFICES ASSUME [DeliveryNext]_allVars PROVE [Next]_vars
  OBVIOUS
<1>1. CASE Producing
  BY <1>1 DEF Producing, Next
<1>2. CASE Network
  <2>1. PICK batch \in flights :
            \/ \E q \in Requests : Arrive(q, batch) \/ Answer(q, batch)
            \/ TurnedAway(batch) \/ Timeout(batch)
    BY <1>2 DEF Network
  <2>2. ASSUME NEW q \in Requests, Arrive(q, batch) PROVE UNCHANGED vars
    BY <2>2 DEF Arrive
  <2>3. ASSUME NEW q \in Requests, Answer(q, batch)
        PROVE  FetchOk(batch) \/ FetchErrorStatus(batch)
    BY <2>3 DEF Answer
  <2>4. CASE TurnedAway(batch)
    BY <2>4 DEF TurnedAway, Settling, Next
  <2>5. CASE Timeout(batch)
    BY <2>5 DEF Timeout, Settling, Next
  <2>6. FetchOk(batch) \/ FetchErrorStatus(batch) => Next
    BY DEF Settling, Next
  <2> QED BY <2>1, <2>2, <2>3, <2>4, <2>5, <2>6
<1>3. ASSUME NEW q \in Requests, Serve(q) \/ AnswerLate(q) PROVE UNCHANGED vars
  BY <1>3 DEF Serve, AnswerLate
<1>4. CASE UNCHANGED allVars
  BY <1>4 DEF allVars
<1> QED BY <1>1, <1>2, <1>3, <1>4 DEF DeliveryNext

\* The composition implements Exporter's specification.
THEOREM DeliveryImplementsExporter == DeliverySpec => Spec
<1>1. DeliveryInit => Init
  BY DEF DeliveryInit
<1> QED BY <1>1, ExporterStep, PTL DEF DeliverySpec, Spec

\* While batches time out, are stored late and come back, at most one is in
\* flight and the flag says so (flushInProgress, logger.ts:86).
THEOREM DeliverySingleFlight == DeliverySpec => []SingleFlight
  BY DeliveryImplementsExporter, SingleFlightHolds, PTL

\* Retries over the network keep the items in the order they were made
\* (requeueLogs, logger.ts:115).
THEOREM DeliveryOrderKept == DeliverySpec => []OrderKept
  BY DeliveryImplementsExporter, OrderKeptHolds, PTL

\* What the cap costs under retries is always the oldest (logger.ts:118).
THEOREM DeliveryDropsOldest == DeliverySpec => []DropsOldest
  BY DeliveryImplementsExporter, DropsOldestHolds, PTL

\* Retried over the network or not, every item is in exactly one place
\* (logger.ts:86-125 and its twins).
THEOREM DeliveryAccounting == DeliverySpec => []Accounting
  BY DeliveryImplementsExporter, AccountingHolds, PTL

-----------------------------------------------------------------------------
(***************************************************************************)
(* The two ends of the wire.  A handler is at work exactly while its link  *)
(* is not free, and the fetch that waits is answered by at most one.       *)
(***************************************************************************)
Held(q) == Elems(handler[q].batch)

WireTypes ==
    /\ handler \in [Requests -> [pc : {"idle", "store", "ok", "unavailable"},
                                 batch : Seq(Nat), rejected : Nat]]
    /\ link \in [Requests -> {"none", "open", "cut"}]
    /\ rows \in [Items -> Nat]
    /\ made <= MaxItems
    /\ \A b \in flights : Len(b) <= Cap

Wired ==
    /\ \A q \in Requests : link[q] = "none" <=> handler[q].pc = "idle"
    /\ \A p, q \in Requests : link[p] = "open" /\ link[q] = "open" => p = q
    /\ \A q \in Requests : link[q] = "open" => flights # {} /\ Held(q) \subseteq InFlight

(***************************************************************************)
(* What a handler holds was made once and, when it answers 200, is stored, *)
(* unless all the statements of its batch were one.  A batch that fits the *)
(* receiver's limit is held whole.                                         *)
(***************************************************************************)
Answered ==
    \A q \in Requests :
        /\ Held(q) \subseteq 1..made
        /\ handler[q].pc = "ok" => SharedStatement \/ Held(q) \subseteq Stored
        /\ Cap <= MaxPerRequest /\ link[q] = "open" => InFlight \subseteq Held(q)

(***************************************************************************)
(* How often an item is stored, counting the handlers that may yet store   *)
(* it: no more often than fetches threw, and once more when the item is    *)
(* settled or held by the handler that the outstanding fetch waits for.    *)
(***************************************************************************)
Writers(i) == {q \in Requests : handler[q].pc = "store" /\ i \in Held(q)}

Reached(i) ==
    i \in acked \cup lost \/ \E q \in Requests : link[q] = "open" /\ i \in Held(q)

Copies(i) ==
    /\ IsFiniteSet(Writers(i))
    /\ rows[i] + Cardinality(Writers(i)) <= failures + 1
    /\ ~Reached(i) => rows[i] + Cardinality(Writers(i)) <= failures

DeliveryInv == WireTypes /\ Wired /\ Answered /\ \A i \in Items : Copies(i)

\* What the receiver's limit leaves of a batch: its first n entries.
LEMMA PrefixFacts ==
    ASSUME NEW s \in Seq(Nat), NEW n \in 0..Len(s)
    PROVE  /\ SubSeq(s, 1, n) \in Seq(Nat)
           /\ Len(SubSeq(s, 1, n)) = n
           /\ Elems(SubSeq(s, 1, n)) \subseteq Elems(s)
           /\ n = Len(s) => Elems(SubSeq(s, 1, n)) = Elems(s)
<1> DEFINE kept == SubSeq(s, 1, n)
<1>1. Len(s) \in Nat /\ DOMAIN s = 1..Len(s) /\ \A i \in 1..Len(s) : s[i] \in Nat
  BY LenProperties, ElementOfSeq
<1>2. kept \in Seq(Nat) /\ Len(kept) = n /\ \A i \in 1..n : kept[i] = s[i]
  <2>1. \A i \in 1..n : s[i] \in Nat
    BY <1>1
  <2>2. /\ kept \in Seq(Nat)
        /\ Len(kept) = IF 1 <= n THEN n - 1 + 1 ELSE 0
        /\ \A i \in 1..(n - 1 + 1) : kept[i] = s[1 + i - 1]
    BY <2>1, SubSeqProperties
  <2> QED BY <2>2
<1>3. DOMAIN kept = 1..n
  BY <1>2, LenProperties
<1> HIDE DEF kept
<1>4. Elems(kept) \subseteq Elems(s)
  <2>1. \A i \in 1..n : i \in DOMAIN s /\ kept[i] = s[i]
    BY <1>1, <1>2
  <2> QED BY <1>3, <2>1 DEF Elems
<1>5. n = Len(s) => Elems(s) \subseteq Elems(kept)
  BY <1>1, <1>2, <1>3 DEF Elems
<1> QED BY <1>2, <1>4, <1>5 DEF kept

\* Between fetches the exporter makes at most the next item, and starts a
\* flight, of at most Cap items, only when there is none.
LEMMA ProducingFacts ==
    ASSUME ExportInv, WireTypes, Producing
    PROVE  /\ made' \in {made, made + 1} /\ made' <= MaxItems
           /\ flights' = flights \/ flights = {}
           /\ \A b \in flights' : Len(b) <= Cap
           /\ UNCHANGED <<acked, lost, failures, handler, rows, storeFaults, link>>
<1>1. UNCHANGED <<handler, rows, storeFaults, link>>
  BY DEF Producing, receiver
<1>2. /\ buffer \in Seq(Nat) /\ Len(buffer) <= Cap /\ Increasing(buffer) /\ made \in Nat
      /\ \A b \in flights : Len(b) <= Cap
      /\ made <= MaxItems
  BY DEF ExportInv, TypeOK, InOrder, WireTypes
<1>3. ASSUME NEW buf, Flush(buf), Len(buf) <= Cap
      PROVE  (flights' = flights \/ flights = {}) /\ \A b \in flights' : Len(b) <= Cap
  BY <1>2, <1>3 DEF Flush, CanFlush, ExportInv, SingleFlight
<1>4. CASE InitExporter \/ ShutdownReturns
  BY <1>1, <1>2, <1>4 DEF InitExporter, ShutdownReturns
<1>5. CASE TimerFlush \/ ManualFlush \/ Shutdown
  <2>1. Flush(buffer) /\ UNCHANGED <<made, acked, lost, failures>>
    BY <1>5 DEF TimerFlush, ManualFlush, Shutdown
  <2> QED BY <1>1, <1>2, <1>3, <2>1
<1>6. CASE Enqueue
  <2> DEFINE kept == MakeRoom(buffer)
             buf  == Append(kept, made + 1)
  <2>1. kept \in Seq(Nat) /\ Len(kept) < Cap
    BY <1>2, MakeRoomFacts
  <2>2. /\ made' = made + 1 /\ made < MaxItems /\ UNCHANGED <<acked, lost, failures>>
        /\ Flush(buf) \/ flights' = flights
    BY <1>6 DEF Enqueue
  <2> HIDE DEF kept
  <2>3. Len(buf) = Len(kept) + 1 /\ Len(kept) \in Nat
    BY <1>2, <2>1, AppendFacts, LenProperties
  <2>4. Len(buf) <= Cap
    BY <2>1, <2>3, ExporterAssumption
  <2> HIDE DEF buf
  <2>5. made' <= MaxItems
    BY <1>2, <2>2, ExporterAssumption
  <2> QED BY <1>1, <1>2, <1>3, <2>2, <2>4, <2>5
<1> QED BY <1>4, <1>5, <1>6 DEF Producing

\* A request that reaches the receiver leaves a handler with the whole batch,
\* or with as much of it as the limit allows.
LEMMA ArriveFacts ==
    ASSUME ExportInv, WireTypes, NEW q \in Requests, NEW batch \in flights, Arrive(q, batch)
    PROVE  /\ link[q] = "none" /\ \A p \in Requests : link[p] # "open"
           /\ link' = [link EXCEPT ![q] = "open"]
           /\ \E kept \in Seq(Nat), n \in Nat :
                /\ handler' = [handler EXCEPT ![q] = [pc |-> "store", batch |-> kept, rejected |-> n]]
                /\ Elems(kept) \subseteq Elems(batch)
                /\ Cap <= MaxPerRequest => Elems(batch) \subseteq Elems(kept)
           /\ UNCHANGED <<vars, rows, storeFaults>>
<1> DEFINE n == R!SmallerOf(Len(batch), MaxPerRequest)
           kept == SubSeq(batch, 1, n)
<1>1. /\ link[q] = "none" /\ \A p \in Requests : link[p] # "open"
      /\ link' = [link EXCEPT ![q] = "open"]
      /\ UNCHANGED <<vars, rows, storeFaults>>
      /\ handler' = [handler EXCEPT ![q] =
             [pc |-> "store", batch |-> kept, rejected |-> Len(batch) - Len(kept)]]
  BY DEF Arrive, Waiting, R!Receive
<1>2. batch \in Seq(Nat) /\ Len(batch) \in Nat /\ Len(batch) <= Cap
  BY LenProperties DEF ExportInv, TypeOK, WireTypes
<1>3. MaxPerRequest \in Nat /\ Cap \in Nat
  BY DeliveryAssumption, ExporterAssumption
<1>4. n \in 0..Len(batch) /\ (Cap <= MaxPerRequest => n = Len(batch))
  BY <1>2, <1>3 DEF R!SmallerOf
<1> HIDE DEF n
<1>5. /\ kept \in Seq(Nat) /\ Len(kept) = n
      /\ Elems(kept) \subseteq Elems(batch)
      /\ n = Len(batch) => Elems(kept) = Elems(batch)
  BY <1>2, <1>4, PrefixFacts
<1>6. Len(batch) - Len(kept) \in Nat
  BY <1>2, <1>4, <1>5
<1> HIDE DEF kept
<1> QED BY <1>1, <1>4, <1>5, <1>6

\* A step that stores nothing and gives no handler an item to store cannot add
\* copies, so long as what was settled or held by the open link stays so.
LEMMA CopiesKept ==
    ASSUME \A i \in Items : Copies(i), UNCHANGED <<rows, failures>>,
           \A i \in Items : Writers(i)' = Writers(i) /\ (Reached(i) => Reached(i)')
    PROVE  \A i \in Items : Copies(i)'
  BY DEF Copies

\* A step of the exporter's that no handler takes part in keeps the wire.
LEMMA ProducingStep == ASSUME ExportInv, DeliveryInv, Producing PROVE DeliveryInv'
<1>1. /\ made' \in {made, made + 1} /\ made' <= MaxItems
      /\ flights' = flights \/ flights = {}
      /\ \A b \in flights' : Len(b) <= Cap
      /\ UNCHANGED <<acked, lost, failures, handler, rows, storeFaults, link>>
  BY ProducingFacts DEF DeliveryInv
<1>2. WireTypes'
  BY <1>1 DEF DeliveryInv, WireTypes
<1>3. Wired'
  BY <1>1 DEF DeliveryInv, Wired, Held, InFlight
<1>4. 1..made \subseteq (1..made)'
  <2>1. made \in Nat
    BY DEF ExportInv, TypeOK
  <2> QED BY <1>1, <2>1
<1>5. Answered'
  BY <1>1, <1>4 DEF DeliveryInv, Wired, Answered, Held, InFlight, Stored
<1>6. \A i \in Items : Copies(i)'
  <2>1. UNCHANGED <<acked, lost, failures, handler, rows, link>> /\ \A i \in Items : Copies(i)
    BY <1>1 DEF DeliveryInv
  <2> QED BY <2>1, CopiesKept DEF Writers, Reached, Held
<1> QED BY <1>2, <1>3, <1>5, <1>6 DEF DeliveryInv, Items

\* So does the arrival of the request that a fetch sends.
LEMMA ArriveStep ==
    ASSUME ExportInv, Placed, DeliveryInv, NEW q \in Requests, NEW batch \in flights,
           Arrive(q, batch)
    PROVE  DeliveryInv'
<1>1. /\ link[q] = "none" /\ \A p \in Requests : link[p] # "open"
      /\ link' = [link EXCEPT ![q] = "open"]
      /\ UNCHANGED <<vars, rows, storeFaults>>
  BY ArriveFacts DEF DeliveryInv
<1>2. PICK kept \in Seq(Nat), n \in Nat :
        /\ handler' = [handler EXCEPT ![q] = [pc |-> "store", batch |-> kept, rejected |-> n]]
        /\ Elems(kept) \subseteq Elems(batch)
        /\ Cap <= MaxPerRequest => Elems(batch) \subseteq Elems(kept)
  BY ArriveFacts DEF DeliveryInv
<1>3. UNCHANGED <<flights, made, failures, acked, rows>> /\ InFlight = Elems(batch)
  BY <1>1, InFlightFacts DEF vars, ExportInv
<1>4. WireTypes'
  BY <1>1, <1>2, <1>3 DEF DeliveryInv, WireTypes
<1>5. \A p \in Requests : p # q => /\ handler'[p] = handler[p] /\ link'[p] = link[p]
                                   /\ link[p] # "open"
  BY <1>1, <1>2 DEF DeliveryInv, WireTypes
<1>6. /\ handler'[q].pc = "store" /\ handler'[q].batch = kept /\ link'[q] = "open"
      /\ InFlight' = InFlight /\ flights # {} /\ Stored' = Stored
  BY <1>1, <1>2, <1>3 DEF DeliveryInv, WireTypes, InFlight, Stored
<1>7. Wired'
  BY <1>2, <1>3, <1>5, <1>6 DEF DeliveryInv, Wired, Held
<1>8. InFlight \subseteq 1..made
  BY DEF Placed, Parted
<1>9. Answered'
  BY <1>2, <1>3, <1>5, <1>6, <1>8 DEF DeliveryInv, Answered, Held
<1>10. ASSUME NEW i \in Items, i \in Elems(kept) PROVE Copies(i)'
  <2>1. i \notin acked /\ i \notin lost
    BY <1>2, <1>3, <1>10 DEF Placed, Parted
  <2>2. ~Reached(i) /\ Copies(i)
    BY <1>1, <2>1 DEF Reached, DeliveryInv
  <2>3. q \notin Writers(i) /\ Writers(i)' = Writers(i) \cup {q}
    BY <1>1, <1>2, <1>5, <1>6, <1>10 DEF DeliveryInv, Wired, Writers, Held
  <2>4. /\ IsFiniteSet(Writers(i)) /\ IsFiniteSet(Writers(i)')
        /\ Cardinality(Writers(i)') = Cardinality(Writers(i)) + 1
    BY <2>2, <2>3, FS_AddElement DEF Copies
  <2>5. rows[i] \in Nat /\ Cardinality(Writers(i)) \in Nat /\ failures \in Nat
    BY <2>4, FS_CardinalityType DEF DeliveryInv, WireTypes, ExportInv, TypeOK
  <2>6. rows[i] + Cardinality(Writers(i)) <= failures
    BY <2>2 DEF Copies
  <2>7. rows'[i] = rows[i] /\ failures' = failures /\ Reached(i)'
    BY <1>1, <1>6, <1>10 DEF vars, Reached, Held
  <2> QED BY <2>4, <2>5, <2>6, <2>7 DEF Copies
<1>11. ASSUME NEW i \in Items, i \notin Elems(kept) PROVE Copies(i)'
  <2>1. Writers(i)' = Writers(i)
    BY <1>1, <1>5, <1>6, <1>11 DEF DeliveryInv, Wired, Writers, Held
  <2>2. Reached(i) => Reached(i)'
    BY <1>1 DEF Reached, vars
  <2>3. rows'[i] = rows[i] /\ failures' = failures /\ Copies(i)
    BY <1>1 DEF vars, DeliveryInv
  <2> QED BY <2>1, <2>2, <2>3 DEF Copies
<1>12. \A i \in Items : Copies(i)'
  BY <1>10, <1>11
<1> QED BY <1>4, <1>7, <1>9, <1>12 DEF DeliveryInv, Items

\* A batch runs with the values of items it holds, of all of them when every
\* bind makes a statement of its own.
LEMMA ExecutedFacts ==
    ASSUME NEW s \in Seq(Nat)
    PROVE  R!Executed(s) \subseteq Elems(s) /\ (~SharedStatement => R!Executed(s) = Elems(s))
  BY DeliveryAssumption DEF R!Executed, Elems

\* So do the store's answers: it stores nothing but what the handler holds, all
\* of that when it answers 200 (unless the statements are one), and stores it
\* once.
LEMMA ServeStep ==
    ASSUME ExportInv, DeliveryInv, NEW q \in Requests, Serve(q)
    PROVE  DeliveryInv' /\ UNCHANGED vars
                        /\ Stored \subseteq Stored' /\ Stored' \subseteq Stored \cup Held(q)
<1> DEFINE ran == R!Executed(handler[q].batch)
<1>0. UNCHANGED <<vars, link>> /\ InFlight' = InFlight
  BY DEF Serve, vars, InFlight
<1>1. UNCHANGED <<flights, made, failures, acked, lost>>
  BY <1>0 DEF vars
<1>2. PICK pc \in {"ok", "unavailable"} :
          /\ handler' = [handler EXCEPT ![q].pc = pc]
          /\ rows' = R!RowsAfter(handler[q].batch) \/ (rows' = rows /\ pc = "unavailable")
  BY DEF Serve, R!Store, R!StoreFails
<1>3. /\ handler[q].pc = "store" /\ handler' \in [Requests -> [pc : {"idle", "store", "ok", "unavailable"},
                                                            batch : Seq(Nat), rejected : Nat]]
      /\ handler'[q].pc = pc
      /\ \A p \in Requests : handler'[p].batch = handler[p].batch
      /\ \A p \in Requests : p # q => handler'[p] = handler[p]
  BY <1>2 DEF Serve, R!Store, R!StoreFails, DeliveryInv, WireTypes
<1>4. link[q] # "none"
  BY <1>3 DEF DeliveryInv, Wired
<1>5. ran \subseteq Held(q) /\ (~SharedStatement => ran = Held(q))
  BY ExecutedFacts DEF DeliveryInv, WireTypes, Held
<1> HIDE DEF ran
<1>6. /\ rows' \in [Items -> Nat]
      /\ \A i \in Items : \/ rows'[i] = rows[i]
                          \/ i \in ran /\ rows'[i] \in Nat /\ rows'[i] > 0 /\ rows'[i] <= rows[i] + 1
      /\ pc = "ok" => \A i \in Items : i \in ran => rows'[i] > 0
  <2>1. \A i \in Items : /\ rows[i] \in Nat /\ R!Inserted(i) \in Nat /\ R!Inserted(i) > 0
                         /\ R!Inserted(i) <= rows[i] + 1
    BY DEF R!Inserted, DeliveryInv, WireTypes
  <2>2. CASE rows' = R!RowsAfter(handler[q].batch)
    <3>1. rows' = [i \in Items |-> IF i \in ran THEN R!Inserted(i) ELSE rows[i]]
      BY <2>2 DEF R!RowsAfter, ran
    <3> QED BY <2>1, <3>1
  <2>3. CASE rows' = rows /\ pc = "unavailable"
    BY <2>3 DEF DeliveryInv, WireTypes
  <2> QED BY <1>2, <2>2, <2>3
<1>7. Held(q) \subseteq Items /\ \A p \in Requests : Held(p)' = Held(p)
  <2>1. Held(q) \subseteq 1..made /\ made <= MaxItems /\ made \in Nat
    BY DEF DeliveryInv, Answered, WireTypes, ExportInv, TypeOK
  <2> QED BY <1>3, <2>1, ExporterAssumption DEF Items, Held
<1>8. /\ Stored \subseteq Stored' /\ Stored' \subseteq Stored \cup Held(q)
      /\ pc = "ok" => SharedStatement \/ Held(q) \subseteq Stored'
  <2>1. \A i \in Items : rows[i] \in Nat
    BY DEF DeliveryInv, WireTypes
  <2>2. \A i \in Items : i \in Stored => i \in Stored'
    BY <1>6, <2>1 DEF Stored
  <2>3. \A i \in Items : i \in Stored' => i \in Stored \cup ran
    BY <1>6, <2>1 DEF Stored
  <2>4. pc = "ok" => \A i \in Items : i \in ran => i \in Stored'
    BY <1>6 DEF Stored
  <2>5. Stored \subseteq Items /\ Stored' \subseteq Items
    BY DEF Stored, Items
  <2> QED BY <1>5, <1>7, <2>2, <2>3, <2>4, <2>5
<1>9. WireTypes' /\ Wired'
  BY <1>0, <1>1, <1>3, <1>4, <1>6, <1>7 DEF DeliveryInv, WireTypes, Wired
<1>10. Answered'
  BY <1>0, <1>1, <1>3, <1>7, <1>8 DEF DeliveryInv, Answered
<1>11. ASSUME NEW i \in Items PROVE Copies(i)'
  <2>1. Writers(i)' = Writers(i) \ {q} /\ Reached(i)' = Reached(i) /\ Copies(i)
    BY <1>0, <1>1, <1>3, <1>7 DEF Writers, Reached, DeliveryInv
  <2>2. IsFiniteSet(Writers(i)) /\ IsFiniteSet(Writers(i)')
    BY <2>1, FS_RemoveElement DEF Copies
  <2>3. Cardinality(Writers(i)') = IF q \in Writers(i) THEN Cardinality(Writers(i)) - 1
                                                       ELSE Cardinality(Writers(i))
    BY <2>1, <2>2, FS_RemoveElement
  <2>4. rows[i] \in Nat /\ rows'[i] \in Nat /\ Cardinality(Writers(i)) \in Nat /\ failures \in Nat
    BY <1>6, <2>2, FS_CardinalityType DEF DeliveryInv, WireTypes, ExportInv, TypeOK
  <2>5. i \in ran => q \in Writers(i)
    BY <1>3, <1>5 DEF Writers
  <2>6. rows'[i] + Cardinality(Writers(i)') <= rows[i] + Cardinality(Writers(i))
    BY <1>6, <2>3, <2>4, <2>5
  <2>7. Cardinality(Writers(i)') \in Nat
    BY <2>2, FS_CardinalityType
  <2>8. rows[i] + Cardinality(Writers(i)) <= failures + 1
    BY <2>1 DEF Copies
  <2>9. ~Reached(i)' => rows[i] + Cardinality(Writers(i)) <= failures
    BY <2>1 DEF Copies
  <2>10. failures' = failures
    BY <1>1
  <2>11. rows'[i] + Cardinality(Writers(i)') <= failures' + 1
    BY <2>4, <2>6, <2>7, <2>8, <2>10
  <2>12. ~Reached(i)' => rows'[i] + Cardinality(Writers(i)') <= failures'
    BY <2>4, <2>6, <2>7, <2>9, <2>10
  <2> QED BY <2>2, <2>11, <2>12 DEF Copies
<1> QED BY <1>0, <1>8, <1>9, <1>10, <1>11 DEF DeliveryInv, Items

\* A response empties its handler.
LEMMA RespondFacts ==
    ASSUME WireTypes, NEW q \in Requests, R!Respond(q)
    PROVE  /\ handler' \in [Requests -> [pc : {"idle", "store", "ok", "unavailable"},
                                         batch : Seq(Nat), rejected : Nat]]
           /\ handler[q].pc \in {"ok", "unavailable"}
           /\ handler'[q].pc = "idle" /\ Elems(handler'[q].batch) = {}
           /\ \A p \in Requests : p # q => handler'[p] = handler[p]
           /\ UNCHANGED <<rows, storeFaults>>
  BY ElemsFacts DEF R!Respond, R!Idle, WireTypes

\* A response to the fetch that waits keeps the wire: what the handler held is
\* acknowledged or lost.
LEMMA AnswerStep ==
    ASSUME ExportInv, DeliveryInv, NEW q \in Requests, NEW batch \in flights, Answer(q, batch)
    PROVE  DeliveryInv'
<1>1. /\ link[q] = "open" /\ link' = [link EXCEPT ![q] = "none"] /\ R!Respond(q)
      /\ UNCHANGED <<made, failures>>
      /\ acked' = IF handler[q].pc = "ok" THEN acked \cup Elems(batch) ELSE acked
      /\ flights' = flights \ {batch}
  BY DEF Answer, FetchOk, FetchErrorStatus, Settle
<1>2. InFlight = Elems(batch) /\ flights' = {} /\ InFlight' = {}
  BY <1>1, InFlightFacts DEF ExportInv, InFlight
<1>3. /\ handler' \in [Requests -> [pc : {"idle", "store", "ok", "unavailable"},
                                    batch : Seq(Nat), rejected : Nat]]
      /\ handler'[q].pc = "idle" /\ Held(q)' = {}
      /\ \A p \in Requests : p # q => handler'[p] = handler[p]
      /\ UNCHANGED <<rows, storeFaults>>
  BY <1>1, RespondFacts DEF DeliveryInv, Held
<1>4. WireTypes' /\ Stored' = Stored
  BY <1>1, <1>2, <1>3 DEF DeliveryInv, WireTypes, Stored
<1>5. /\ link'[q] = "none"
      /\ \A p \in Requests : p # q => /\ link'[p] = link[p] /\ link[p] # "open"
                                      /\ Held(p)' = Held(p)
  BY <1>1, <1>3 DEF DeliveryInv, WireTypes, Wired, Held
<1>6. Wired'
  BY <1>3, <1>5 DEF DeliveryInv, Wired
<1>7. Answered'
  BY <1>1, <1>3, <1>4, <1>5 DEF DeliveryInv, Answered
<1>8. Held(q) \subseteq (acked \cup lost)' /\ acked \cup lost \subseteq (acked \cup lost)'
  <2>1. Held(q) \subseteq Elems(batch)
    BY <1>1, <1>2 DEF DeliveryInv, Wired
  <2> QED BY <2>1 DEF Answer, FetchOk, FetchErrorStatus
<1>9. \A i \in Items : Copies(i)'
  <2>1. ASSUME NEW i \in Items PROVE Reached(i) => Reached(i)'
    BY <1>5, <1>8 DEF Reached
  <2>2. handler[q].pc # "store"
    BY <1>1, RespondFacts DEF DeliveryInv
  <2>3. ASSUME NEW i \in Items PROVE Writers(i)' = Writers(i)
    BY <1>3, <1>5, <2>2 DEF Writers
  <2> QED BY <1>1, <1>3, <2>1, <2>3, CopiesKept DEF DeliveryInv
<1> QED BY <1>4, <1>6, <1>7, <1>9 DEF DeliveryInv, Items

\* So does a response that comes too late, an error status before the receiver,
\* and a fetch that throws.
LEMMA LateStep == ASSUME ExportInv, DeliveryInv, NEW q \in Requests, AnswerLate(q) PROVE DeliveryInv'
<1>1. /\ link[q] = "cut" /\ link' = [link EXCEPT ![q] = "none"] /\ R!Respond(q)
      /\ UNCHANGED <<made, failures, acked, flights>> /\ InFlight' = InFlight
  BY DEF AnswerLate, vars, InFlight
<1>2. /\ handler' \in [Requests -> [pc : {"idle", "store", "ok", "unavailable"},
                                    batch : Seq(Nat), rejected : Nat]]
      /\ handler'[q].pc = "idle" /\ Held(q)' = {}
      /\ \A p \in Requests : p # q => handler'[p] = handler[p]
      /\ UNCHANGED <<rows, storeFaults>>
  BY <1>1, RespondFacts DEF DeliveryInv, Held
<1>3. WireTypes' /\ Stored' = Stored
  BY <1>1, <1>2 DEF DeliveryInv, WireTypes, Stored
<1>4. /\ link'[q] = "none"
      /\ \A p \in Requests : p # q => link'[p] = link[p] /\ Held(p)' = Held(p)
  BY <1>1, <1>2 DEF DeliveryInv, WireTypes, Held
<1>5. Wired'
  BY <1>1, <1>2, <1>4 DEF DeliveryInv, Wired
<1>6. Answered'
  BY <1>1, <1>2, <1>3, <1>4 DEF DeliveryInv, Answered
<1>7. \A i \in Items : Copies(i)'
  <2>1. UNCHANGED <<acked, lost>>
    BY DEF AnswerLate, vars
  <2>2. ASSUME NEW i \in Items PROVE Reached(i) => Reached(i)'
    BY <1>1, <1>4, <2>1 DEF Reached
  <2>3. handler[q].pc # "store"
    BY <1>1, RespondFacts DEF DeliveryInv
  <2>4. ASSUME NEW i \in Items PROVE Writers(i)' = Writers(i)
    BY <1>2, <1>4, <2>3 DEF Writers
  <2> QED BY <1>1, <1>2, <2>2, <2>4, CopiesKept DEF DeliveryInv
<1> QED BY <1>3, <1>5, <1>6, <1>7 DEF DeliveryInv, Items

\* An error status from in front of the receiver: the batch is given up, unstored.
LEMMA TurnedAwayStep ==
    ASSUME ExportInv, DeliveryInv, NEW batch \in flights, TurnedAway(batch)
    PROVE  DeliveryInv'
<1>1. /\ \A q \in Requests : link[q] # "open"
      /\ UNCHANGED <<made, failures, acked, handler, rows, link>>
      /\ flights' = flights \ {batch}
  BY DEF TurnedAway, Waiting, FetchErrorStatus, Settle, receiver
<1>2. WireTypes' /\ Wired'
  BY <1>1 DEF DeliveryInv, WireTypes, Wired, Held
<1>3. Answered'
  BY <1>1 DEF DeliveryInv, Answered, Held, Stored
<1>4. \A i \in Items : Copies(i)'
  <2>1. lost \subseteq lost'
    BY DEF TurnedAway, FetchErrorStatus
  <2>2. ASSUME NEW i \in Items PROVE Reached(i) => Reached(i)'
    BY <1>1, <2>1 DEF Reached, Held
  <2>3. ASSUME NEW i \in Items PROVE Writers(i)' = Writers(i)
    BY <1>1 DEF Writers, Held
  <2> QED BY <1>1, <2>2, <2>3, CopiesKept DEF DeliveryInv
<1> QED BY <1>2, <1>3, <1>4 DEF DeliveryInv, Items

\* A timeout puts the batch back and cuts the link; its handler goes on.
LEMMA TimeoutStep ==
    ASSUME ExportInv, DeliveryInv, NEW batch \in flights, Timeout(batch)
    PROVE  DeliveryInv'
<1>1. /\ link' = [q \in Requests |-> IF link[q] = "open" THEN "cut" ELSE link[q]]
      /\ UNCHANGED <<made, acked, handler, rows>> /\ failures' = failures + 1
      /\ flights' = flights \ {batch}
  BY DEF Timeout, FetchThrows, Settle, receiver
<1>2. \A q \in Requests : link'[q] # "open" /\ (link'[q] = "none" <=> link[q] = "none")
  BY <1>1 DEF DeliveryInv, WireTypes
<1>3. WireTypes' /\ Wired'
  BY <1>1, <1>2 DEF DeliveryInv, WireTypes, Wired, Held
<1>4. Answered'
  BY <1>1, <1>2 DEF DeliveryInv, Answered, Held, Stored
<1>5. ASSUME NEW i \in Items PROVE Copies(i)'
  <2>1. Copies(i) /\ Writers(i)' = Writers(i)
    BY <1>1 DEF Writers, Held, DeliveryInv
  <2>2. rows[i] \in Nat /\ Cardinality(Writers(i)) \in Nat /\ failures \in Nat
    BY <2>1, FS_CardinalityType DEF DeliveryInv, WireTypes, Copies, ExportInv, TypeOK
  <2>3. rows'[i] + Cardinality(Writers(i)') <= failures' /\ failures' \in Nat
    BY <1>1, <2>1, <2>2 DEF Copies
  <2>4. rows'[i] + Cardinality(Writers(i)') <= failures' + 1
    BY <1>1, <2>1, <2>2, <2>3
  <2> QED BY <2>1, <2>3, <2>4 DEF Copies
<1> QED BY <1>3, <1>4, <1>5 DEF DeliveryInv, Items

\* Every step of the composition keeps its invariant.
LEMMA DeliveryStep == ASSUME ExportInv, Placed, DeliveryInv, [DeliveryNext]_allVars PROVE DeliveryInv'
<1>1. CASE Producing
  BY <1>1, ProducingStep
<1>2. CASE Network
  BY <1>2, ArriveStep, AnswerStep, TurnedAwayStep, TimeoutStep DEF Network
<1>3. ASSUME NEW q \in Requests, Serve(q) \/ AnswerLate(q) PROVE DeliveryInv'
  BY <1>3, ServeStep, LateStep
<1>4. CASE UNCHANGED allVars
  BY <1>4 DEF allVars, vars, receiver, DeliveryInv, WireTypes, Wired, Answered, Copies, Writers,
     Reached, Held, Stored, InFlight, Items
<1> QED BY <1>1, <1>2, <1>3, <1>4 DEF DeliveryNext

\* The invariants of the exporter and of the wire hold in every execution.
THEOREM DeliveryInvariant == DeliverySpec => [](ExportInv /\ Placed /\ DeliveryInv)
<1>1. DeliveryInit => DeliveryInv
  <2>1. DeliveryInit => WireTypes /\ Wired /\ Answered
    BY ElemsFacts, ExporterAssumption
    DEF DeliveryInit, Init, R!ReceiverInit, R!Idle, WireTypes, Wired, Answered, Held, Stored, Items
  <2>2. ASSUME DeliveryInit, NEW i \in Items PROVE Copies(i)
    <3>1. Writers(i) = {} /\ rows[i] = 0 /\ failures = 0
      BY <2>2 DEF DeliveryInit, Init, R!ReceiverInit, R!Idle, Writers
    <3> QED BY <3>1, FS_EmptySet DEF Copies
  <2> QED BY <2>1, <2>2 DEF DeliveryInv
<1>2. ExportInv /\ Placed /\ DeliveryInv /\ [DeliveryNext]_allVars => DeliveryInv'
  BY DeliveryStep
<1> QED
  BY <1>1, <1>2, DeliveryImplementsExporter, PlacedInvariant, ExportInvariant, PTL DEF DeliverySpec

\* A log record is stored at most once more than fetches threw, although a
\* handler may store a batch whose fetch has timed out, and a batch may have
\* taken effect that was answered 503: nothing but a fetch that throws makes the
\* exporter send again (flushLogs, logger.ts:86, and otlpRetryableError).
THEOREM CopiesBoundedHolds == DeliverySpec => []CopiesBounded
<1>1. ExportInv /\ Placed /\ DeliveryInv => CopiesBounded
  <2> SUFFICES ASSUME ExportInv, DeliveryInv, NEW i \in Items PROVE rows[i] <= failures + 1
    BY DEF CopiesBounded
  <2>1. Copies(i)
    BY DEF DeliveryInv
  <2>2. Cardinality(Writers(i)) \in Nat /\ rows[i] \in Nat /\ failures \in Nat
    BY <2>1, FS_CardinalityType DEF Copies, DeliveryInv, WireTypes, ExportInv, TypeOK
  <2> QED BY <2>1, <2>2 DEF Copies
<1> QED BY <1>1, DeliveryInvariant, PTL

-----------------------------------------------------------------------------
(***************************************************************************)
(* Refinement of AtLeastOnce.  It needs a statement per record, and a      *)
(* receiver's limit no less than the exporter's cap, as it is for logs     *)
(* (1000 against 500) and spans (500 against 200): a receiver that rejects *)
(* part of a batch still answers 200, and an exporter that looks at no     *)
(* response body counts all of it as delivered.                            *)
(***************************************************************************)
\* Discarding what is buffered or in flight gives it up.
LEMMA GivesUp ==
    ASSUME Placed, NEW items, items \subseteq Elems(buffer) \cup InFlight,
           (lost \cup dropped)' = lost \cup dropped \cup items,
           made' = made, acked' = acked, Stored' = Stored
    PROVE  A!GiveUp
<1>1. items \in SUBSET ((1..made) \ (acked \cup (lost \cup dropped)))
  BY DEF Placed, Parted
<1> QED BY <1>1 DEF A!GiveUp

\* Every step of the composition is a step of AtLeastOnce, or none.
LEMMA RefinementStep ==
    ASSUME Cap <= MaxPerRequest, ~SharedStatement, ExportInv, Placed, DeliveryInv,
           [DeliveryNext]_allVars
    PROVE  [A!Next]_(A!vars)
<1>0. /\ buffer \in Seq(Nat) /\ Len(buffer) <= Cap /\ Increasing(buffer)
      /\ \A b \in flights : /\ b \in Seq(Nat) /\ Increasing(b) /\ InFlight = Elems(b)
                             /\ \A x \in Elems(b), y \in Elems(buffer) : x < y
  BY InFlightFacts DEF ExportInv, TypeOK, InOrder
<1>1. CASE Producing
  <2>1. rows' = rows /\ Stored' = Stored
    BY <1>1 DEF Producing, receiver, Stored
  <2>2. CASE Enqueue
    <3> DEFINE cut == Oldest(buffer, Len(buffer) - Cap + 1)
    <3>1. cut \subseteq Elems(buffer)
      BY <1>0, MakeRoomFacts
    <3>2. made' = made + 1 /\ dropped' = dropped \cup cut /\ UNCHANGED <<acked, lost>>
      BY <2>2 DEF Enqueue
    <3> HIDE DEF cut
    <3>3. cut \in SUBSET ((1..made) \ (acked \cup (lost \cup dropped)))
      BY <3>1 DEF Placed, Parted
    <3>4. (lost \cup dropped)' = (lost \cup dropped) \cup cut
      BY <3>2
    <3>5. A!Produce
      BY <2>1, <3>2, <3>3, <3>4 DEF A!Produce
    <3> QED BY <3>5 DEF A!Next
  <2>3. CASE InitExporter \/ TimerFlush \/ ManualFlush \/ Shutdown \/ ShutdownReturns
    BY <2>1, <2>3 DEF InitExporter, TimerFlush, ManualFlush, Shutdown, ShutdownReturns, A!vars
  <2> QED BY <1>1, <2>2, <2>3 DEF Producing
<1>2. ASSUME NEW q \in Requests, Serve(q) PROVE [A!Next]_(A!vars)
  <2>1. UNCHANGED <<made, acked, lost, dropped>> /\ Stored \subseteq Stored' /\ Stored' \subseteq Stored \cup Held(q)
    BY <1>2, ServeStep DEF vars
  <2> DEFINE items == Stored' \ Stored
  <2>2. items \in SUBSET ((1..made) \ Stored) /\ Stored' = Stored \cup items
    BY <2>1 DEF DeliveryInv, Answered
  <2>3. A!Store
    BY <2>1, <2>2 DEF A!Store
  <2> QED BY <2>3 DEF A!Next
<1>3. ASSUME NEW q \in Requests, NEW batch \in flights, Arrive(q, batch) PROVE UNCHANGED A!vars
  BY <1>3 DEF Arrive, R!Receive, vars, A!vars, Stored
<1>4. ASSUME NEW q \in Requests, AnswerLate(q) PROVE UNCHANGED A!vars
  BY <1>4 DEF AnswerLate, R!Respond, vars, A!vars, Stored
<1>5. ASSUME NEW q \in Requests, NEW batch \in flights, Answer(q, batch) PROVE A!Next
  <2>1. link[q] = "open" /\ Stored' = Stored /\ made' = made
    BY <1>5 DEF Answer, R!Respond, Stored, FetchOk, FetchErrorStatus, Settle
  <2>2. CASE handler[q].pc = "ok"
    <3>1. acked' = acked \cup Elems(batch) /\ UNCHANGED <<lost, dropped>>
      BY <1>5, <2>2 DEF Answer, FetchOk
    <3>2. Elems(batch) \subseteq Stored
      BY <1>0, <2>1, <2>2 DEF DeliveryInv, Answered
    <3>3. Elems(batch) \in SUBSET (Stored \ (acked \cup (lost \cup dropped)))
      BY <1>0, <3>2 DEF Placed, Parted
    <3>4. A!Deliver
      BY <2>1, <3>1, <3>3 DEF A!Deliver
    <3> QED BY <3>4 DEF A!Next
  <2>3. CASE handler[q].pc # "ok"
    <3>1. lost' = lost \cup Elems(batch) /\ UNCHANGED <<acked, dropped>>
      BY <1>5, <2>3 DEF Answer, FetchErrorStatus
    <3>2. A!GiveUp
      BY <1>0, <2>1, <3>1, GivesUp
    <3> QED BY <3>2 DEF A!Next
  <2> QED BY <2>2, <2>3
<1>6. ASSUME NEW batch \in flights, TurnedAway(batch) PROVE A!Next
  <2>1. lost' = lost \cup Elems(batch) /\ UNCHANGED <<made, acked, dropped, rows>>
    BY <1>6 DEF TurnedAway, FetchErrorStatus, Settle, receiver
  <2>2. A!GiveUp
    BY <1>0, <2>1, GivesUp DEF Stored
  <2> QED BY <2>2 DEF A!Next
<1>7. ASSUME NEW batch \in flights, Timeout(batch) PROVE A!Next
  <2> DEFINE cut == Oldest(batch \o buffer, Len(batch) + Len(buffer) - Cap)
  <2>1. dropped' = dropped \cup cut /\ UNCHANGED <<made, acked, lost, rows>>
    BY <1>7 DEF Timeout, FetchThrows, Settle, receiver
  <2>2. cut \subseteq Elems(batch) \cup Elems(buffer)
    BY <1>0, RequeueFacts
  <2> HIDE DEF cut
  <2>3. A!GiveUp
    BY <1>0, <2>1, <2>2, GivesUp DEF Stored
  <2> QED BY <2>3 DEF A!Next
<1>8. CASE UNCHANGED allVars
  BY <1>8 DEF allVars, vars, receiver, A!vars, Stored
<1>9. CASE Network
  BY <1>3, <1>5, <1>6, <1>7, <1>9 DEF Network
<1> QED BY <1>1, <1>2, <1>4, <1>8, <1>9 DEF DeliveryNext

\* Whatever the network, the store and the timeouts do, nothing counts as
\* delivered that is not stored and nothing delivered is given up, provided
\* that a full buffer fits in one request (MAX_BUFFER_SIZE, logger.ts:61, against
\* MAX_LOGS_PER_REQUEST, logs-receiver.ts:17) and that every bind makes a
\* statement of its own (D1StatementAdapter.bind, sql-db.ts:149).
THEOREM DeliveryIsAtLeastOnce ==
    ASSUME Cap <= MaxPerRequest, ~SharedStatement
    PROVE  DeliverySpec => ImplementsAtLeastOnce
<1>1. DeliveryInit => A!Init
  BY ExporterAssumption DEF DeliveryInit, Init, R!ReceiverInit, A!Init, Stored
<1>2. ExportInv /\ Placed /\ DeliveryInv /\ [DeliveryNext]_allVars => [A!Next]_(A!vars)
  BY RefinementStep
<1> QED
  BY <1>1, <1>2, DeliveryInvariant, PTL DEF DeliverySpec, ImplementsAtLeastOnce, A!Spec
=============================================================================
