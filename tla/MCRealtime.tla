----------------------------- MODULE MCRealtime -----------------------------
(***************************************************************************)
(* Two devices, two organizations: channels x and y of the first with a    *)
(* message in x, and channel z of the second, whose workspace is the one   *)
(* that every stream joins, with a message in it.                          *)
(***************************************************************************)
EXTENDS Realtime, TLC

CONSTANTS d1, d2, t1, t2, x, y, z, m, n

Symmetry == Permutations(Devices)

MCTenantOf == [c \in {x, y, z} |-> IF c = z THEN t2 ELSE t1]
MCChannelOf == [i \in {m, n} |-> IF i = n THEN z ELSE x]
=============================================================================
