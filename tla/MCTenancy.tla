----------------------------- MODULE MCTenancy -----------------------------
(* A small instance of Tenancy.  Handlers in flight are interchangeable. *)
EXTENDS Tenancy, TLC

Symmetry == Permutations(Slots)

=============================================================================
