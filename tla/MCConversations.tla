-------------------------- MODULE MCConversations --------------------------
(***************************************************************************)
(* Three users, two requests at once.                                      *)
(***************************************************************************)
EXTENDS Conversations, TLC

CONSTANTS u1, u2, u3, r1, r2

Symmetry == Permutations(Users) \cup Permutations(Requests)
=============================================================================
