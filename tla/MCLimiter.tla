----------------------------- MODULE MCLimiter -----------------------------
EXTENDS Limiter, TLC

(* Keys are alike. *)
Interchangeable == Permutations(Keys)
=============================================================================
