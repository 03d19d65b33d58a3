----------------------------- MODULE AtLeastOnce ----------------------------
(***************************************************************************)
(* What the path from an SDK exporter to the collector's store promises:   *)
(* an item counts as delivered only once it is stored, and it is never     *)
(* given up after that.  It may be given up first and stored all the same. *)
(***************************************************************************)
EXTENDS Naturals

VARIABLES
    produced,   \* number of items handed to the exporter
    stored,     \* items with at least one row
    delivered,  \* items the exporter believes delivered
    givenUp     \* items the exporter has discarded

vars == <<produced, stored, delivered, givenUp>>

Init == produced = 0 /\ stored = {} /\ delivered = {} /\ givenUp = {}

\* An item is handed over; to make room, others may be discarded.
Produce ==
    /\ produced' = produced + 1
    /\ \E items \in SUBSET ((1..produced) \ (delivered \cup givenUp)) :
            givenUp' = givenUp \cup items
    /\ UNCHANGED <<stored, delivered>>

Store ==
    /\ \E items \in SUBSET ((1..produced) \ stored) : stored' = stored \cup items
    /\ UNCHANGED <<produced, delivered, givenUp>>

Deliver ==
    /\ \E items \in SUBSET (stored \ (delivered \cup givenUp)) :
            delivered' = delivered \cup items
    /\ UNCHANGED <<produced, stored, givenUp>>

GiveUp ==
    /\ \E items \in SUBSET ((1..produced) \ (delivered \cup givenUp)) :
            givenUp' = givenUp \cup items
    /\ UNCHANGED <<produced, stored, delivered>>

Next == Produce \/ Store \/ Deliver \/ GiveUp

Spec == Init /\ [][Next]_vars
=============================================================================
