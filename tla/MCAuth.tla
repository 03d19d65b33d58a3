------------------------------- MODULE MCAuth -------------------------------
\* Instances of Auth for TLC: requests are interchangeable.
EXTENDS Auth, TLC

Symmetry == Permutations(Requests)
=============================================================================
