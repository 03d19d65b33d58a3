----------------------------- MODULE MCEvalRuns -----------------------------
\* EvalRuns for TLC: requests and cases are interchangeable.
EXTENDS EvalRuns, TLC

Symmetry == Permutations(Posts) \cup Permutations(Creators) \cup Permutations(Cases)
=============================================================================
