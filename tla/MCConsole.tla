------------------------------- MODULE MCConsole -------------------------------
(***************************************************************************)
(* Instances of Console for TLC: one scope set.                            *)
(***************************************************************************)
EXTENDS Console, TLC

CONSTANTS a1, v1, v2, noVersion, k1, c1, c2

MCSetOf == [v \in Versions |-> 1]

Symmetry == {p @@ q : p \in Permutations(Clients), q \in Permutations(Versions)}
================================================================================
