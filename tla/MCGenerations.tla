--------------------------- MODULE MCGenerations ---------------------------
(* Generations for TLC: three good configurations, two of them with shared *)
(* stores, one that fails to build after its store was opened, and one     *)
(* that does not load.                                                     *)
EXTENDS Generations, TLC

CONSTANTS plain, storeA, storeB, unbuilt, broken, A, B

MCConfigs == {plain, storeA, storeB, unbuilt, broken}
MCLoadable == {plain, storeA, storeB, unbuilt}
MCBuildable == {plain, storeA, storeB}

MCStorePath ==
  plain :> NoPath @@ storeA :> A @@ storeB :> B @@ unbuilt :> A @@ broken :> NoPath

(* Enough for liveness: one that is applied and one that is rejected. *)
FewConfigs == {plain, unbuilt}
FewBuildable == {plain}

Interchangeable == Permutations(Requests)
=============================================================================
