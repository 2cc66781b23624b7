--------------------------- MODULE MCSharedStore ---------------------------
(* Two gateways, the first with two requests at a time. *)
EXTENDS SharedStore, TLC

CONSTANTS g1, g2, a1, a2, b1

MCHome == a1 :> g1 @@ a2 :> g1 @@ b1 :> g2

Interchangeable == Permutations({a1, a2})
=============================================================================
