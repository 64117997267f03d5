---------------------------- MODULE MCMessageSend ----------------------------
(* Model-checking instance of MessageSend. *)
EXTENDS MessageSend, TLC

\* The attempts are interchangeable.
Symmetry == Permutations(Attempts)
=============================================================================
