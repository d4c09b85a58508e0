------------------------------- MODULE MCApiKeys -------------------------------
(***************************************************************************)
(* Instances of ApiKeys for TLC.                                           *)
(***************************************************************************)
EXTENDS ApiKeys, TLC

CONSTANTS k1, k2, k3, c1, c2

MCGrants == {{"read:scans", "read:waf"}}

Symmetry == {p @@ q : p \in Permutations(Clients), q \in Permutations(Keys)}
================================================================================
