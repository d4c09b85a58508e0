------------------------------- MODULE ScanRow -------------------------------
(***************************************************************************)
(* What the portal promises about one Scan row, without the transactions,  *)
(* requests and executions behind it: the row starts with RUNNING and      *)
(* never returns to PENDING, a final status is always dated, and findings  *)
(* are never taken back.  A final status may be overwritten, since the     *)
(* transactions that write the row do not see each other.                  *)
(***************************************************************************)
CONSTANT Rows           \* the possible Finding rows

VARIABLES status, completedAt, findings

vars == <<status, completedAt, findings>>

Init ==
    /\ status = "PENDING"
    /\ completedAt = "null"
    /\ findings = {}

Start ==
    /\ status = "PENDING"
    /\ status' = "RUNNING"
    /\ UNCHANGED <<completedAt, findings>>

Ingest ==
    /\ findings' \in SUBSET Rows
    /\ findings \subseteq findings'
    /\ UNCHANGED <<status, completedAt>>

\* A final status follows RUNNING, or replaces another; a stale RUNNING
\* reopens the row, whose completedAt stays set.
Overwrite ==
    /\ status # "PENDING"
    /\ \/ status' = "RUNNING" /\ completedAt' = completedAt
       \/ status' \in {"COMPLETED", "FAILED"} /\ completedAt' = "set"
    /\ UNCHANGED findings

Next == Start \/ Overwrite \/ Ingest

Spec == Init /\ [][Next]_vars
=============================================================================
