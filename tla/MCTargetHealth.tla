--------------------------- MODULE MCTargetHealth ---------------------------
(* TargetHealth for TLC: interchangeable attempts. *)
EXTENDS TargetHealth, TLC

Interchangeable == Permutations(Attempts)
=============================================================================
