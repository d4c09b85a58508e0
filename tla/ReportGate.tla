------------------------------ MODULE ReportGate ------------------------------
(***************************************************************************)
(* The report of each scan and its attestation, on top of ScopeControl: a  *)
(* report names the approved scope version that covers its scan, and in    *)
(* "prod" only a staff user attests it, and only when the version it names *)
(* is approved.  The summary of a report (counts over its findings) is     *)
(* left out: no gate reads it.                                             *)
(***************************************************************************)
EXTENDS ScopeControl

CONSTANTS Builders,   \* the clients that call buildReport
          Staff       \* the clients whose context has isStaff

ASSUME ReportAssumption == Builders \subseteq Clients /\ Staff \subseteq Clients

VARIABLES reportStatus,  \* Report.status of the report of a scan, or no report
          reportLink,    \* Report.scopeVersionId
          attestation    \* ReportAttestation.status, or no attestation

reportVars == <<reportStatus, reportLink, attestation>>
vars == <<scopeVars, reportVars>>
scopeRows == <<asset, version, approvals, scan>>

-----------------------------------------------------------------------------
ReportStates == {"none", "draft", "submitted", "attested"}
Links == Versions \cup {NoVersion}

ReportTxs ==
    [op : {"build"}, k : Scans, row : {"absent", "unlinked", "linked"},
     resolved : BOOLEAN, link : Links]
    \cup [op : {"submitReport"}, k : Scans]
    \cup [op : {"attestReport"}, k : Scans, link : Links, gated : BOOLEAN]

TypeOK ==
    /\ ScopeTypeOK
    /\ tx \in [Clients -> ScopeTxs \cup ReportTxs]
    /\ reportStatus \in [Scans -> ReportStates]
    /\ reportLink \in [Scans -> Links]
    /\ attestation \in [Scans -> {"none", "submitted", "attested"}]

Init ==
    /\ ScopeInit
    /\ reportStatus = [k \in Scans |-> "none"]
    /\ reportLink = [k \in Scans |-> NoVersion]
    /\ attestation = [k \in Scans |-> "none"]

-----------------------------------------------------------------------------
(* buildReport.                                                            *)

OpenBuild(c, k) ==
    /\ scan[k].status = "COMPLETED"
    /\ Open(c, [op |-> "build", k |-> k, resolved |-> FALSE, link |-> NoVersion,
                row |-> IF reportStatus[k] = "none" THEN "absent"
                        ELSE IF reportLink[k] = NoVersion THEN "unlinked"
                        ELSE "linked"])
    /\ UNCHANGED <<scopeRows, reportVars>>

\* resolveReportScopeVersionId, in a transaction of its own.
ResolveLink(c) ==
    /\ tx[c].op = "build"
    /\ ~ tx[c].resolved
    /\ \E link \in Resolved(scan[tx[c].k].targets) :
          tx' = [tx EXCEPT ![c] = [op |-> "build", k |-> @.k, row |-> @.row,
                                   resolved |-> TRUE, link |-> link]]
    /\ UNCHANGED <<scopeRows, reportVars>>

\* The insert of a first report; @@unique([scanId]) holds.
InsertReport(k, link) ==
    /\ reportStatus[k] = "none"
    /\ reportStatus' = [reportStatus EXCEPT ![k] = "draft"]
    /\ reportLink' = [reportLink EXCEPT ![k] = link]

\* Mutant: building again always records the version that covers the scan now.
RelinkAlways(k, row, link) ==
    /\ reportLink' = [reportLink EXCEPT ![k] = link]
    /\ UNCHANGED reportStatus

\* The update of an existing report names a version only where it read none.
Relink(k, row, link) ==
    /\ reportLink' = IF row = "unlinked" THEN [reportLink EXCEPT ![k] = link] ELSE reportLink
    /\ UNCHANGED reportStatus

CommitBuild(c) ==
    /\ tx[c].op = "build"
    /\ tx[c].resolved
    /\ IF tx[c].row = "absent" THEN InsertReport(tx[c].k, tx[c].link)
       ELSE Relink(tx[c].k, tx[c].row, tx[c].link)
    /\ Close(c)
    /\ UNCHANGED <<scopeRows, attestation>>

-----------------------------------------------------------------------------
(* submitReport and attestReport.                                          *)

OpenSubmitReport(c, k) ==
    /\ reportStatus[k] = "draft"
    /\ Open(c, [op |-> "submitReport", k |-> k])
    /\ UNCHANGED <<scopeRows, reportVars>>

\* The insert of the attestation, whose reportId is unique, and the update.
CommitSubmitReport(c) ==
    /\ tx[c].op = "submitReport"
    /\ attestation[tx[c].k] = "none"
    /\ attestation' = [attestation EXCEPT ![tx[c].k] = "submitted"]
    /\ reportStatus' = [reportStatus EXCEPT ![tx[c].k] = "submitted"]
    /\ Close(c)
    /\ UNCHANGED <<scopeRows, reportLink>>

\* Mutant: the gate on the scope version is not closed in prod.
OpenAttestUngated(c, k) ==
    /\ reportStatus[k] = "submitted"
    /\ Prod => c \in Staff
    /\ Open(c, [op |-> "attestReport", k |-> k, link |-> reportLink[k], gated |-> FALSE])
    /\ UNCHANGED <<scopeRows, reportVars>>

OpenAttest(c, k) ==
    /\ reportStatus[k] = "submitted"
    /\ Prod => c \in Staff
    /\ Open(c, [op |-> "attestReport", k |-> k, link |-> reportLink[k], gated |-> Prod])
    /\ UNCHANGED <<scopeRows, reportVars>>

\* getScopeVersion of the link that was read, in a transaction of its own.
GateAttest(c) ==
    /\ tx[c].op = "attestReport"
    /\ tx[c].gated
    /\ tx[c].link \in Approved
    /\ tx' = [tx EXCEPT ![c] = [op |-> "attestReport", k |-> @.k, link |-> @.link,
                                gated |-> FALSE]]
    /\ UNCHANGED <<scopeRows, reportVars>>

\* Mutant: the attestation row is not updated.
CommitAttestReportOnly(c) ==
    /\ tx[c].op = "attestReport"
    /\ ~ tx[c].gated
    /\ reportStatus' = [reportStatus EXCEPT ![tx[c].k] = "attested"]
    /\ Close(c)
    /\ UNCHANGED <<scopeRows, reportLink, attestation>>

CommitAttest(c) ==
    /\ tx[c].op = "attestReport"
    /\ ~ tx[c].gated
    /\ attestation' = [attestation EXCEPT ![tx[c].k] = "attested"]
    /\ reportStatus' = [reportStatus EXCEPT ![tx[c].k] = "attested"]
    /\ Close(c)
    /\ UNCHANGED <<scopeRows, reportLink>>

ReportCall(c) ==
    \/ \E k \in Scans :
          \/ c \in Builders /\ OpenBuild(c, k)
          \/ OpenSubmitReport(c, k)
          \/ OpenAttest(c, k)
    \/ ResolveLink(c) \/ CommitBuild(c)
    \/ CommitSubmitReport(c)
    \/ GateAttest(c) \/ CommitAttest(c)

Next ==
    \/ ScopeNext /\ UNCHANGED reportVars
    \/ \E c \in Clients : ReportCall(c)

Spec == Init /\ [][Next]_vars

-----------------------------------------------------------------------------
(* Properties.                                                             *)

\* A report that names a scope version names one that an audited approval
\* covers and that has a target of the report's scan among its items, however
\* versions were approved and superseded while the report was built.
LinkCovers ==
    \A k \in Scans : reportLink[k] # NoVersion =>
        /\ reportLink[k] \in approvals
        /\ version[reportLink[k]].items \cap scan[k].targets # {}

\* The two rows that record the review agree, whichever calls overlap: a draft
\* has no attestation, and a report is attested exactly when its attestation is.
AttestationAgrees ==
    \A k \in Scans :
        /\ reportStatus[k] \in {"none", "draft"} <=> attestation[k] = "none"
        /\ reportStatus[k] = "attested" <=> attestation[k] = "attested"

\* In prod an attested report names an approved scope version: a report
\* without approved scope authority is never finalized.
AttestedIsBacked ==
    Prod => \A k \in Scans : reportStatus[k] = "attested" => reportLink[k] \in approvals

Promise == INSTANCE ReportPromise WITH
    phase <- reportStatus, link <- reportLink, Gated <- Prod

\* The reports keep what ReportPromise states: nothing un-submits, un-attests
\* or re-points a report, as long as one client at a time builds reports.
KeepsPromise == Promise!Spec
===============================================================================
