------------------------------ MODULE MCAlerts ------------------------------
\* Instances of Alerts for TLC: small rules, patches and values.
EXTENDS Alerts, TLC

Rule(enabled, comparison, threshold) ==
    [enabled |-> enabled, comparison |-> comparison, threshold |-> threshold]

OneInput == {Rule("yes", ">", 1)}
TwoInputs == {Rule("yes", ">=", 1), Rule("no", "<", 1)}
NoPatches == {}
TwoPatches == {[enabled |-> "yes", threshold |-> 2], [enabled |-> "yes", comparison |-> "<="]}

Symmetry == Permutations(Ticks) \cup Permutations(Workers)
=============================================================================
