----------------------------- MODULE MCPeerLink -----------------------------
(* Model-checking instance of PeerLink: candidates of one interface, alike *)
(* in their first characters.                                              *)
EXTENDS PeerLink, TLC
OnePrefix == [c \in Candidates |-> CHOOSE p \in Prefixes : TRUE]
Symmetry == Permutations(CalleeTabs)
=============================================================================
