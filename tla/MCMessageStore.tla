---------------------------- MODULE MCMessageStore ----------------------------
(* Model-checking instance of MessageStore. *)
EXTENDS MessageStore, TLC

\* Messages, users, contents and handler contexts are interchangeable.
Symmetry == Permutations(Messages) \cup Permutations(Users)
            \cup Permutations(Contents) \cup Permutations(Slots)
=============================================================================
