----------------------------- MODULE MCOrganization -----------------------------
(***************************************************************************)
(* Instances of Organization for TLC: a founder, and two users who share   *)
(* one address.                                                            *)
(***************************************************************************)
EXTENDS Organization, TLC

CONSTANTS u1, u2, u3, t1, t2, t3, founders, shared, i1, c1, c2

MCUserOf == t1 :> u1 @@ t2 :> u2 @@ t3 :> u3
MCAddressOf == u1 :> founders @@ u2 :> shared @@ u3 :> shared

\* Clients are alike, and so are the two users of one address.
Swap == u2 :> u3 @@ u3 :> u2 @@ t2 :> t3 @@ t3 :> t2
Symmetry ==
    Permutations(Clients) \cup {p @@ Swap : p \in Permutations(Clients)}
================================================================================
