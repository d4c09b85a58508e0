-------------------------------- MODULE MCKeyDesk --------------------------------
(***************************************************************************)
(* Instances of KeyDesk for TLC.                                           *)
(***************************************************************************)
EXTENDS KeyDesk, TLC

CONSTANTS k1, k2, k3, c1, c2, noKey

MCGrants == {WizardScopes}

Symmetry == {p @@ q : p \in Permutations(Clients), q \in Permutations(Keys)}
================================================================================
