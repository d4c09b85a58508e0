------------------------------- MODULE Inventory -------------------------------
(***************************************************************************)
(* What the asset registry promises its readers: every asset keeps the     *)
(* identifier it was entered with, and at any time at most one live asset  *)
(* has a given identifier.  An asset that has left may come back, since a  *)
(* verification that overlaps its retirement activates it again.           *)
(***************************************************************************)
CONSTANTS Assets, Identifiers, NoIdentifier

VARIABLES identifier, live

Init ==
    /\ identifier = [a \in Assets |-> NoIdentifier]
    /\ live = {}

Enter(a, i) ==
    /\ a \notin live
    /\ identifier[a] \in {NoIdentifier, i}
    /\ \A b \in live : identifier[b] # i
    /\ live' = live \cup {a}
    /\ identifier' = [identifier EXCEPT ![a] = i]

Leave(a) ==
    /\ live' = live \ {a}
    /\ UNCHANGED identifier

Next == \E a \in Assets : Leave(a) \/ \E i \in Identifiers : Enter(a, i)

Spec == Init /\ [][Next]_<<identifier, live>>
================================================================================
