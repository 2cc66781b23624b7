----------------------------- MODULE MCPickers -----------------------------
(* Three targets: equal, unequal, and one out of rotation. *)
EXTENDS Pickers, TLC

Weighing(a, b, c) == 0 :> a @@ 1 :> b @@ 2 :> c

MCWeights == {Weighing(1, 1, 1), Weighing(3, 1, 0)}

(* Up to three replicas per target, interleaved. *)
MCPlacement == << <<0, 0>>, <<1, 1>>, <<2, 0>>, <<0, 1>>, <<1, 0>>, <<0, 2>>, <<2, 1>> >>

MCKeys == {NoKey, 0, 2, 7}
=============================================================================
