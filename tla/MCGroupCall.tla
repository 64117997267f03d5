---------------------------- MODULE MCGroupCall ----------------------------
(* Model-checking instance of GroupCallSerial. *)
EXTENDS GroupCallSerial, TLC

\* Rows, slots and the users other than the creator are interchangeable.
Symmetry ==
    Permutations(Rows) \cup Permutations(Slots) \cup Permutations(Users \ {Creator})
=============================================================================
