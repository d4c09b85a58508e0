----------------------------- MODULE ReportPromise -----------------------------
(***************************************************************************)
(* What a report promises its readers: it is drafted, submitted and        *)
(* attested in this order and never goes back, the scope version it names  *)
(* is named once, and (when Gated) only a report that names one is         *)
(* attested.                                                               *)
(***************************************************************************)
CONSTANTS Scans, Versions, NoVersion, Gated

VARIABLES phase, link

Init ==
    /\ phase = [k \in Scans |-> "none"]
    /\ link = [k \in Scans |-> NoVersion]

Draft(k) ==
    /\ phase[k] = "none"
    /\ phase' = [phase EXCEPT ![k] = "draft"]
    /\ \E l \in Versions \cup {NoVersion} : link' = [link EXCEPT ![k] = l]

Name(k) ==
    /\ phase[k] # "none"
    /\ link[k] = NoVersion
    /\ \E l \in Versions : link' = [link EXCEPT ![k] = l]
    /\ UNCHANGED phase

Submit(k) ==
    /\ phase[k] = "draft"
    /\ phase' = [phase EXCEPT ![k] = "submitted"]
    /\ UNCHANGED link

Attest(k) ==
    /\ phase[k] = "submitted"
    /\ Gated => link[k] # NoVersion
    /\ phase' = [phase EXCEPT ![k] = "attested"]
    /\ UNCHANGED link

Next == \E k \in Scans : Draft(k) \/ Name(k) \/ Submit(k) \/ Attest(k)

Spec == Init /\ [][Next]_<<phase, link>>
================================================================================
