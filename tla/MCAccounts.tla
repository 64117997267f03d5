----------------------------- MODULE MCAccounts -----------------------------
(* Model-checking instance of Accounts. *)
EXTENDS Accounts, TLC
Symmetry == Permutations(Devices) \cup Permutations(Admins)
=============================================================================
