----------------------------- MODULE MCAnalyses -----------------------------
(* Instances of Analyses for TLC. *)
EXTENDS Analyses, TLC

Symmetry == Permutations(Ticks) \cup Permutations(Analyses)
=============================================================================
