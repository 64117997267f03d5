--------------------------- MODULE MCTokenRotation ---------------------------
(* Model-checking instance of TokenRotation. *)
EXTENDS TokenRotation, TLC

\* The tabs are interchangeable.
Symmetry == Permutations(Tabs)
=============================================================================
