------------------------------- MODULE MCAssets -------------------------------
(* The kinds of assets and the symmetry for checking Assets with TLC. *)
EXTENDS Assets, TLC

(* Each kind of asset, and two that may both be the agent's installer. *)
MCKinds ==
    {k \in [AssetIds -> AssetKinds] :
        {k[a] : a \in AssetIds} \in
            {{"iso", "global_app"}, {"global_iso", "app"}, {"global_app"}}}

(* Handlers are interchangeable, and so are assets: every way to give them  *)
(* these kinds is an initial state.                                        *)
Symmetry == Permutations(Reqs) \cup Permutations(AssetIds)

===============================================================================
