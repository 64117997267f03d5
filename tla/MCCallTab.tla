------------------------------ MODULE MCCallTab ------------------------------
(* Model-checking instance of CallTab. *)
EXTENDS CallTab
=============================================================================
