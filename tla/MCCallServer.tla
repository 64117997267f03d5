--------------------------- MODULE MCCallServer ---------------------------
(* The instance of CallServer that is model-checked: two tabs of the called *)
(* user, two requests at once.  No symmetry: a liveness property is checked. *)
EXTENDS CallServer
=============================================================================
