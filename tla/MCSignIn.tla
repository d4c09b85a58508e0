-------------------------------- MODULE MCSignIn --------------------------------
(***************************************************************************)
(* Instances of SignIn for TLC.                                            *)
(***************************************************************************)
EXTENDS SignIn, TLC

CONSTANTS b1, b2, l1, l2, o1, o2, r1, r2, none

Symmetry == {(p @@ q) @@ (s @@ t) : p \in Permutations(Browsers), q \in Permutations(Logins),
                                    s \in Permutations(Requests), t \in Permutations(Orgs)}
================================================================================
