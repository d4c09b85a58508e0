---------------------------- MODULE MCAssetRegistry ----------------------------
(***************************************************************************)
(* Instances of AssetRegistry for TLC: a file that names one identifier    *)
(* twice, and one with a malformed row.                                    *)
(***************************************************************************)
EXTENDS AssetRegistry, TLC

CONSTANTS i1, a1, a2, c1, c2, k1, bad, noIdentifier, noAsset

TwoFiles == {<<i1, i1>>, <<bad, i1>>}

Symmetry == Permutations(Assets) \cup Permutations(Clients)
================================================================================
