--------------------------- MODULE MCConnection ---------------------------
(* Instances of Connection for TLC.                                        *)
EXTENDS Connection, TLC

\* Session names and connector goroutines are interchangeable.
Symmetry == Permutations(Sessions) \cup Permutations(Connectors)
=============================================================================
