--------------------------- MODULE ReportGateProofs ---------------------------
(***************************************************************************)
(* What ReportGate keeps for any number of assets, scope sets, versions,   *)
(* scans and clients, in dev and in prod.                                  *)
(*                                                                         *)
(* The invariant says what an open transaction may still rely on when it   *)
(* commits, although other transactions have committed since it read: rows *)
(* exist for good, items and targets never change, and an approval stays   *)
(* in the audit trail even when the version's status goes back.  At the    *)
(* end: it does not go back while decisions on a version do not overlap.   *)
(***************************************************************************)
EXTENDS ReportGate, FiniteSetTheorems, TLAPS

\* Rows that exist keep what they were created with, so the audited approvals
\* and the reports' links refer to frozen items and targets.
RowInv ==
    /\ Approved \subseteq approvals
    /\ \A v \in approvals : version[v].status # "none"
    /\ \A k \in Scans :
          /\ reportStatus[k] = "none" => reportLink[k] = NoVersion
          /\ reportStatus[k] # "none" => scan[k].status # "none"

Covers(l, k) == l \in approvals /\ version[l].items \cap scan[k].targets # {}

Backed(a) == \E v \in approvals : a \in version[v].items

\* What the open transaction of a client has read is still true.
TxOk(c) ==
    /\ tx[c].op \in {"submit", "approve"} => version[tx[c].v].status # "none"
    /\ tx[c].op = "scan" /\ Prod => \A a \in tx[c].targets \ tx[c].left : Backed(a)
    /\ tx[c].op = "build" =>
          /\ scan[tx[c].k].status # "none"
          /\ tx[c].row # "absent" => reportStatus[tx[c].k] # "none"
          /\ tx[c].link # NoVersion => Covers(tx[c].link, tx[c].k)
    /\ tx[c].op = "submitReport" => reportStatus[tx[c].k] # "none"
    /\ tx[c].op = "attestReport" => reportStatus[tx[c].k] \in {"submitted", "attested"}

TxInv == \A c \in Clients : TxOk(c)

Inv ==
    /\ TypeOK
    /\ RowInv
    /\ TxInv
    /\ BackedByApproval
    /\ LinkCovers
    /\ AttestationAgrees

-----------------------------------------------------------------------------
(* Types.                                                                  *)

LEMMA IdleTyped ==
    ASSUME TypeOK, NEW c \in Clients
    PROVE  [tx EXCEPT ![c] = Idle] \in [Clients -> ScopeTxs \cup ReportTxs]
BY DEF TypeOK, ScopeTxs

LEMMA TxTyped ==
    ASSUME TypeOK, NEW c \in Clients
    PROVE  /\ tx[c].op = "create" =>
                 /\ tx[c].v \in Versions
                 /\ tx[c].number \in Nat
                 /\ tx[c].items \in SUBSET Assets
           /\ tx[c].op \in {"submit", "approve"} => tx[c].v \in Versions
           /\ tx[c].op = "scan" =>
                 /\ tx[c].k \in Scans
                 /\ tx[c].targets \in SUBSET Assets
                 /\ tx[c].left \in SUBSET Assets
           /\ tx[c].op = "build" =>
                 /\ tx[c].k \in Scans
                 /\ tx[c].row \in {"absent", "unlinked", "linked"}
                 /\ tx[c].link \in Links
                 /\ tx[c].resolved \in BOOLEAN
           /\ tx[c].op = "submitReport" => tx[c].k \in Scans
           /\ tx[c].op = "attestReport" =>
                 /\ tx[c].k \in Scans
                 /\ tx[c].link \in Links
                 /\ tx[c].gated \in BOOLEAN
<1>1. tx[c] \in ScopeTxs \cup ReportTxs
  BY DEF TypeOK
<1> QED BY <1>1 DEF ScopeTxs, ReportTxs, Idle

LEMMA InitTyped == Init => TypeOK
BY ScopeAssumption DEF Init, ScopeInit, TypeOK, ScopeTypeOK, NoScopeVersion, NoScan, ScopeTxs,
   VersionStates, ScanStates, AssetStates, ReportStates, Links

LEMMA ScopeStepTyped ==
    ASSUME TypeOK, ScopeNext, UNCHANGED reportVars
    PROVE  TypeOK'
<1>0. /\ ScopeTypeOK
      /\ tx \in [Clients -> ScopeTxs \cup ReportTxs]
      /\ reportStatus' \in [Scans -> ReportStates]
      /\ reportLink' \in [Scans -> Links]
      /\ attestation' \in [Scans -> {"none", "submitted", "attested"}]
  BY DEF TypeOK, reportVars
<1>1. ASSUME NEW c \in Clients, Rollback(c) PROVE TypeOK'
  BY <1>0, <1>1, IdleTyped DEF Rollback, Close, TypeOK, ScopeTypeOK
<1>2. ASSUME NEW c \in Clients, NEW v \in Versions, NEW chosen \in SUBSET Assets,
             OpenCreate(c, v, chosen)
      PROVE  TypeOK'
  <2>1. PICK last \in LastNumber(SetOf[v]) :
            tx' = [tx EXCEPT ![c] = [op |-> "create", v |-> v, number |-> last + 1,
                                     items |-> {a \in chosen : asset[a] # "retired"}]]
    BY <1>2 DEF OpenCreate, Open
  <2>2. last \in Nat
    BY <1>0 DEF LastNumber, Rows, ScopeTypeOK
  <2>3. [op |-> "create", v |-> v, number |-> last + 1,
         items |-> {a \in chosen : asset[a] # "retired"}] \in ScopeTxs
    BY <2>2 DEF ScopeTxs
  <2> QED BY <1>0, <1>2, <2>1, <2>3 DEF OpenCreate, TypeOK, ScopeTypeOK
<1>3. ASSUME NEW c \in Clients, CommitCreate(c) PROVE TypeOK'
  <2>1. [status |-> "draft", number |-> tx[c].number, items |-> tx[c].items]
            \in [status : VersionStates, number : Nat, items : SUBSET Assets]
    BY <1>3, TxTyped DEF CommitCreate, VersionStates
  <2> QED BY <1>0, <1>3, <2>1, IdleTyped DEF CommitCreate, Close, TypeOK, ScopeTypeOK
<1>4. ASSUME NEW c \in Clients, NEW v \in Versions, OpenSubmit(c, v) PROVE TypeOK'
  BY <1>0, <1>4 DEF OpenSubmit, Open, TypeOK, ScopeTypeOK, ScopeTxs
<1>5. ASSUME NEW c \in Clients, CommitSubmit(c) PROVE TypeOK'
  BY <1>0, <1>5, IdleTyped, TxTyped DEF CommitSubmit, Close, TypeOK, ScopeTypeOK, VersionStates
<1>6. ASSUME NEW c \in Clients, NEW v \in Versions, OpenApprove(c, v) PROVE TypeOK'
  BY <1>0, <1>6 DEF OpenApprove, Open, TypeOK, ScopeTypeOK, ScopeTxs
<1>7. ASSUME NEW c \in Clients, CommitApprove(c) PROVE TypeOK'
  <2>1. tx[c].v \in Versions
    BY <1>7, TxTyped DEF CommitApprove
  <2>2. version' \in [Versions -> [status : VersionStates, number : Nat, items : SUBSET Assets]]
    BY <1>0, <1>7, <2>1 DEF CommitApprove, ScopeTypeOK, VersionStates
  <2>3. approvals' \subseteq Versions
    BY <1>0, <1>7, <2>1 DEF CommitApprove, ScopeTypeOK
  <2> QED BY <1>0, <1>7, <2>2, <2>3, IdleTyped DEF CommitApprove, Close, TypeOK, ScopeTypeOK
<1>8. ASSUME NEW c \in Clients, NEW k \in Scans, NEW targets \in SUBSET Assets,
             OpenScan(c, k, targets)
      PROVE  TypeOK'
  BY <1>0, <1>8 DEF OpenScan, Open, TypeOK, ScopeTypeOK, ScopeTxs
<1>9. ASSUME NEW c \in Clients, GateScan(c) PROVE TypeOK'
  <2>1. PICK a \in tx[c].left :
            tx' = [tx EXCEPT ![c] = [op |-> "scan", k |-> tx[c].k, targets |-> tx[c].targets,
                                     left |-> tx[c].left \ {a}]]
    BY <1>0, <1>9 DEF GateScan
  <2>2. [op |-> "scan", k |-> tx[c].k, targets |-> tx[c].targets,
         left |-> tx[c].left \ {a}] \in ScopeTxs
    BY <1>9, TxTyped DEF GateScan, ScopeTxs
  <2> QED BY <1>0, <1>9, <2>1, <2>2 DEF GateScan, TypeOK, ScopeTypeOK
<1>10. ASSUME NEW c \in Clients, CommitScan(c) PROVE TypeOK'
  BY <1>0, <1>10, IdleTyped, TxTyped DEF CommitScan, Close, TypeOK, ScopeTypeOK, ScanStates
<1>11. ASSUME NEW a \in Assets, NEW s \in AssetStates, AssetMoves(a, s) PROVE TypeOK'
  BY <1>0, <1>11 DEF AssetMoves, TypeOK, ScopeTypeOK
<1>12. ASSUME NEW k \in Scans, ScanCompletes(k) PROVE TypeOK'
  BY <1>0, <1>12 DEF ScanCompletes, TypeOK, ScopeTypeOK, ScanStates
<1> QED BY <1>1, <1>2, <1>3, <1>4, <1>5, <1>6, <1>7, <1>8, <1>9, <1>10, <1>11, <1>12
        DEF ScopeNext, ScopeCall

LEMMA ReportStepTyped ==
    ASSUME TypeOK, NEW c \in Clients, ReportCall(c)
    PROVE  TypeOK'
<1>0. /\ ScopeTypeOK
      /\ tx \in [Clients -> ScopeTxs \cup ReportTxs]
      /\ reportStatus \in [Scans -> ReportStates]
      /\ reportLink \in [Scans -> Links]
      /\ attestation \in [Scans -> {"none", "submitted", "attested"}]
  BY DEF TypeOK
<1>1. ASSUME NEW k \in Scans, OpenBuild(c, k) PROVE TypeOK'
  <2>1. [op |-> "build", k |-> k, resolved |-> FALSE, link |-> NoVersion,
         row |-> IF reportStatus[k] = "none" THEN "absent"
                 ELSE IF reportLink[k] = NoVersion THEN "unlinked" ELSE "linked"] \in ReportTxs
    BY DEF ReportTxs, Links
  <2> QED BY <1>0, <1>1, <2>1
          DEF OpenBuild, Open, scopeRows, reportVars, TypeOK, ScopeTypeOK
<1>2. ASSUME ResolveLink(c) PROVE TypeOK'
  <2>1. PICK link \in Resolved(scan[tx[c].k].targets) :
            tx' = [tx EXCEPT ![c] = [op |-> "build", k |-> tx[c].k, row |-> tx[c].row,
                                     resolved |-> TRUE, link |-> link]]
    BY <1>0, <1>2 DEF ResolveLink
  <2>2. link \in Links
    BY DEF Resolved, Covering, LatestApproved, Approved, Links
  <2>3. [op |-> "build", k |-> tx[c].k, row |-> tx[c].row, resolved |-> TRUE, link |-> link]
            \in ReportTxs
    BY <1>2, <2>2, TxTyped DEF ResolveLink, ReportTxs
  <2> QED BY <1>0, <1>2, <2>1, <2>3
          DEF ResolveLink, scopeRows, reportVars, TypeOK, ScopeTypeOK
<1>3. ASSUME CommitBuild(c) PROVE TypeOK'
  <2>1. /\ tx[c].k \in Scans
        /\ tx[c].link \in Links
    BY <1>3, TxTyped DEF CommitBuild
  <2>2. /\ reportStatus' \in [Scans -> ReportStates]
        /\ reportLink' \in [Scans -> Links]
    BY <1>0, <1>3, <2>1 DEF CommitBuild, InsertReport, Relink, ReportStates
  <2> QED BY <1>0, <1>3, <2>2, IdleTyped DEF CommitBuild, Close, scopeRows, TypeOK, ScopeTypeOK
<1>4. ASSUME NEW k \in Scans, OpenSubmitReport(c, k) PROVE TypeOK'
  BY <1>0, <1>4 DEF OpenSubmitReport, Open, scopeRows, reportVars, TypeOK, ScopeTypeOK, ReportTxs
<1>5. ASSUME CommitSubmitReport(c) PROVE TypeOK'
  BY <1>0, <1>5, IdleTyped, TxTyped
     DEF CommitSubmitReport, Close, scopeRows, TypeOK, ScopeTypeOK, ReportStates
<1>6. ASSUME NEW k \in Scans, OpenAttest(c, k) PROVE TypeOK'
  <2>1. [op |-> "attestReport", k |-> k, link |-> reportLink[k], gated |-> Prod] \in ReportTxs
    BY <1>0, ScopeAssumption DEF ReportTxs
  <2> QED BY <1>0, <1>6, <2>1 DEF OpenAttest, Open, scopeRows, reportVars, TypeOK, ScopeTypeOK
<1>7. ASSUME GateAttest(c) PROVE TypeOK'
  <2>1. [op |-> "attestReport", k |-> tx[c].k, link |-> tx[c].link, gated |-> FALSE] \in ReportTxs
    BY <1>7, TxTyped DEF GateAttest, ReportTxs
  <2> QED BY <1>0, <1>7, <2>1 DEF GateAttest, scopeRows, reportVars, TypeOK, ScopeTypeOK
<1>8. ASSUME CommitAttest(c) PROVE TypeOK'
  BY <1>0, <1>8, IdleTyped, TxTyped
     DEF CommitAttest, Close, scopeRows, TypeOK, ScopeTypeOK, ReportStates
<1> QED BY <1>1, <1>2, <1>3, <1>4, <1>5, <1>6, <1>7, <1>8 DEF ReportCall

\* Every variable keeps its type, open transactions included.
THEOREM TypeCorrect == Spec => []TypeOK
<1>1. ASSUME TypeOK, [Next]_vars PROVE TypeOK'
  <2>1. CASE UNCHANGED vars
    BY <1>1, <2>1 DEF vars, scopeVars, reportVars, TypeOK, ScopeTypeOK
  <2>2. CASE Next
    BY <1>1, <2>2, ScopeStepTyped, ReportStepTyped DEF Next
  <2> QED BY <1>1, <2>1, <2>2
<1> QED BY InitTyped, <1>1, PTL DEF Spec
-----------------------------------------------------------------------------
(* What no step takes back.                                                *)

\* Rows that exist go on existing with their items and targets, approvals
\* stay audited and a submitted report does not become a draft again.
Kept ==
    /\ approvals \subseteq approvals'
    /\ \A v \in Versions : version[v].status # "none" =>
          version'[v].status # "none" /\ version'[v].items = version[v].items
    /\ \A k \in Scans : scan[k].status # "none" =>
          scan'[k].status # "none" /\ scan'[k].targets = scan[k].targets
    /\ \A k \in Scans : reportStatus[k] # "none" => reportStatus'[k] # "none"
    /\ \A k \in Scans : reportStatus[k] \in {"submitted", "attested"} =>
          reportStatus'[k] \in {"submitted", "attested"}

LEMMA RowsKept == Inv /\ Next => Kept
<1> SUFFICES ASSUME Inv, Next PROVE Kept
  OBVIOUS
<1>0. /\ version \in [Versions -> [status : VersionStates, number : Nat, items : SUBSET Assets]]
      /\ scan \in [Scans -> [status : ScanStates, targets : SUBSET Assets]]
      /\ reportStatus \in [Scans -> ReportStates]
  BY DEF Inv, TypeOK, ScopeTypeOK
<1>1. ASSUME NEW c \in Clients, CommitCreate(c), UNCHANGED reportStatus PROVE Kept
  <2>1. tx[c].v \in Versions
    BY <1>1, TxTyped DEF CommitCreate, Inv
  <2> QED BY <1>0, <1>1, <2>1 DEF CommitCreate, Kept
<1>2. ASSUME NEW c \in Clients, CommitSubmit(c), UNCHANGED reportStatus PROVE Kept
  <2>1. tx[c].v \in Versions
    BY <1>2, TxTyped DEF CommitSubmit, Inv
  <2> QED BY <1>0, <1>2, <2>1 DEF CommitSubmit, Kept
<1>3. ASSUME NEW c \in Clients, CommitApprove(c), UNCHANGED reportStatus PROVE Kept
  <2>1. tx[c].v \in Versions
    BY <1>3, TxTyped DEF CommitApprove, Inv
  <2> QED BY <1>0, <1>3, <2>1 DEF CommitApprove, Kept
<1>4. ASSUME NEW c \in Clients, CommitScan(c), UNCHANGED reportStatus PROVE Kept
  <2>1. tx[c].k \in Scans
    BY <1>4, TxTyped DEF CommitScan, Inv
  <2> QED BY <1>0, <1>4, <2>1 DEF CommitScan, Kept
<1>5. ASSUME NEW k \in Scans, ScanCompletes(k), UNCHANGED reportStatus PROVE Kept
  BY <1>0, <1>5 DEF ScanCompletes, Kept
<1>6. ASSUME UNCHANGED <<version, approvals, scan>> PROVE
          /\ UNCHANGED reportStatus => Kept
          /\ (\E c \in Clients : CommitBuild(c)) => Kept
          /\ (\E c \in Clients : CommitSubmitReport(c)) => Kept
          /\ (\E c \in Clients : CommitAttest(c)) => Kept
  <2>1. UNCHANGED reportStatus => Kept
    BY <1>6 DEF Kept
  <2>2. ASSUME NEW c \in Clients, CommitBuild(c) PROVE Kept
    BY <1>0, <1>6, <2>2, TxTyped DEF CommitBuild, InsertReport, Relink, Kept, Inv
  <2>3. ASSUME NEW c \in Clients, CommitSubmitReport(c) PROVE Kept
    BY <1>0, <1>6, <2>3, TxTyped DEF CommitSubmitReport, Kept, Inv
  <2>4. ASSUME NEW c \in Clients, CommitAttest(c) PROVE Kept
    BY <1>0, <1>6, <2>4, TxTyped DEF CommitAttest, Kept, Inv
  <2> QED BY <2>1, <2>2, <2>3, <2>4
<1>7. CASE ScopeNext /\ UNCHANGED reportVars
  BY <1>1, <1>2, <1>3, <1>4, <1>5, <1>6, <1>7
     DEF ScopeNext, ScopeCall, reportVars, Rollback, OpenCreate, OpenSubmit, OpenApprove,
         OpenScan, GateScan, AssetMoves, CommitCreate, CommitSubmit, CommitApprove, CommitScan,
         ScanCompletes, Kept
<1>8. ASSUME NEW c \in Clients, ReportCall(c) PROVE Kept
  BY <1>6, <1>8 DEF ReportCall, OpenBuild, ResolveLink, CommitBuild, OpenSubmitReport,
     CommitSubmitReport, OpenAttest, GateAttest, CommitAttest, scopeRows, reportVars
<1> QED BY <1>7, <1>8 DEF Next

\* What a transaction has read stays true while others commit.
LEMMA OthersKept ==
    ASSUME Inv, Kept, NEW d \in Clients, tx'[d] = tx[d]
    PROVE  TxOk(d)'
<1>1. TxOk(d)
  BY DEF Inv, TxInv
<1>2. ASSUME NEW a \in Assets, Backed(a) PROVE Backed(a)'
  BY <1>2 DEF Backed, Kept, Inv, RowInv, TypeOK, ScopeTypeOK
<1>3. ASSUME NEW k \in Scans, NEW l \in Links, scan[k].status # "none", Covers(l, k)
      PROVE  Covers(l, k)'
  BY <1>3 DEF Covers, Kept, Inv, RowInv, TypeOK, ScopeTypeOK
<1>4. tx[d].op \in {"submit", "approve"} => version'[tx[d].v].status # "none"
  BY <1>1, TxTyped DEF TxOk, Kept, Inv
<1>5. tx[d].op = "scan" /\ Prod => \A a \in tx[d].targets \ tx[d].left : Backed(a)'
  <2> SUFFICES ASSUME tx[d].op = "scan", Prod, NEW a \in tx[d].targets \ tx[d].left
               PROVE  Backed(a)'
    OBVIOUS
  <2>1. a \in Assets
    BY TxTyped DEF Inv
  <2>2. Backed(a)
    BY <1>1 DEF TxOk
  <2> QED BY <1>2, <2>1, <2>2
<1>6. tx[d].op = "build" =>
          /\ scan'[tx[d].k].status # "none"
          /\ tx[d].row # "absent" => reportStatus'[tx[d].k] # "none"
          /\ tx[d].link # NoVersion => Covers(tx[d].link, tx[d].k)'
  <2> SUFFICES ASSUME tx[d].op = "build"
               PROVE  /\ scan'[tx[d].k].status # "none"
                      /\ tx[d].row # "absent" => reportStatus'[tx[d].k] # "none"
                      /\ tx[d].link # NoVersion => Covers(tx[d].link, tx[d].k)'
    OBVIOUS
  <2>1. tx[d].k \in Scans /\ tx[d].link \in Links
    BY TxTyped DEF Inv
  <2>2. /\ scan[tx[d].k].status # "none"
        /\ tx[d].row # "absent" => reportStatus[tx[d].k] # "none"
        /\ tx[d].link # NoVersion => Covers(tx[d].link, tx[d].k)
    BY <1>1 DEF TxOk
  <2>3. tx[d].link # NoVersion => Covers(tx[d].link, tx[d].k)'
    BY <1>3, <2>1, <2>2 DEF Covers
  <2> QED BY <2>1, <2>2, <2>3 DEF Kept
<1>7. /\ tx[d].op = "submitReport" => reportStatus'[tx[d].k] # "none"
      /\ tx[d].op = "attestReport" => reportStatus'[tx[d].k] \in {"submitted", "attested"}
  BY <1>1, TxTyped DEF TxOk, Kept, Inv
<1> QED BY <1>4, <1>5, <1>6, <1>7 DEF TxOk, Covers, Backed

LEMMA IdleOk ==
    ASSUME TypeOK, NEW c \in Clients, Close(c)
    PROVE  /\ TxOk(c)'
           /\ \A d \in Clients \ {c} : tx'[d] = tx[d]
<1>1. /\ tx'[c] = Idle
      /\ \A d \in Clients \ {c} : tx'[d] = tx[d]
  BY DEF Close, TypeOK
<1> QED BY <1>1 DEF Idle, TxOk

\* The transaction of the client that takes the step, and those of the others.
LEMMA TxStep == Inv /\ Next => TxInv'
<1> SUFFICES ASSUME Inv, Next PROVE TxInv'
  OBVIOUS
<1>0. /\ Kept
      /\ TypeOK
      /\ tx \in [Clients -> ScopeTxs \cup ReportTxs]
  BY RowsKept DEF Inv, TypeOK
<1>1. ASSUME NEW c \in Clients, TxOk(c)', \A d \in Clients \ {c} : tx'[d] = tx[d]
      PROVE  TxInv'
  <2>1. ASSUME NEW d \in Clients PROVE TxOk(d)'
    <3>1. CASE d = c
      BY <1>1, <3>1
    <3>2. CASE d # c
      BY <1>0, <1>1, <3>2, OthersKept
    <3> QED BY <3>1, <3>2
  <2> QED BY <2>1 DEF TxInv
<1>2. ASSUME UNCHANGED tx PROVE TxInv'
  <2>1. ASSUME NEW d \in Clients PROVE TxOk(d)'
    BY <1>0, <1>2, OthersKept
  <2> QED BY <2>1 DEF TxInv
<1>3. ASSUME NEW c \in Clients, Close(c) PROVE TxInv'
  BY <1>0, <1>1, <1>3, IdleOk
<1>4. ASSUME NEW c \in Clients, NEW v \in Versions, NEW chosen \in SUBSET Assets,
             OpenCreate(c, v, chosen)
      PROVE  TxInv'
  <2>1. /\ tx'[c].op = "create"
        /\ \A d \in Clients \ {c} : tx'[d] = tx[d]
    BY <1>0, <1>4 DEF OpenCreate, Open
  <2> QED BY <1>1, <2>1 DEF TxOk
<1>5. ASSUME NEW c \in Clients, NEW v \in Versions, OpenSubmit(c, v) \/ OpenApprove(c, v)
      PROVE  TxInv'
  <2>1. /\ tx'[c].op \in {"submit", "approve"} /\ tx'[c].v = v
        /\ version'[v].status # "none"
        /\ \A d \in Clients \ {c} : tx'[d] = tx[d]
    BY <1>0, <1>5 DEF OpenSubmit, OpenApprove, Open
  <2> QED BY <1>1, <2>1 DEF TxOk
<1>6. ASSUME NEW c \in Clients, NEW k \in Scans, NEW targets \in SUBSET Assets,
             OpenScan(c, k, targets)
      PROVE  TxInv'
  <2>1. /\ tx'[c].op = "scan" /\ tx'[c].targets = targets
        /\ Prod => tx'[c].left = targets
        /\ \A d \in Clients \ {c} : tx'[d] = tx[d]
    BY <1>0, <1>6 DEF OpenScan, Open
  <2> QED BY <1>1, <2>1 DEF TxOk
<1>7. ASSUME NEW c \in Clients, GateScan(c) PROVE TxInv'
  <2>1. PICK a \in tx[c].left :
            /\ InApprovedScope(a)
            /\ tx' = [tx EXCEPT ![c] = [op |-> "scan", k |-> tx[c].k, targets |-> tx[c].targets,
                                        left |-> tx[c].left \ {a}]]
    BY <1>0, <1>7 DEF GateScan
  <2>2. /\ tx'[c].op = "scan" /\ tx'[c].targets = tx[c].targets
        /\ tx'[c].left = tx[c].left \ {a}
        /\ \A d \in Clients \ {c} : tx'[d] = tx[d]
    BY <1>0, <2>1
  <2>3. UNCHANGED <<version, approvals>>
    BY <1>7 DEF GateScan
  <2>4. Backed(a)
    BY <2>1 DEF Inv, RowInv, InApprovedScope, LatestApproved, Backed
  <2>5. Prod => \A b \in tx[c].targets \ tx[c].left : Backed(b)
    BY <1>7 DEF GateScan, Inv, TxInv, TxOk
  <2>6. Prod => \A b \in tx[c].targets \ (tx[c].left \ {a}) : Backed(b)'
    BY <2>3, <2>4, <2>5 DEF Backed
  <2> QED BY <1>1, <2>2, <2>6 DEF TxOk
<1>8. ASSUME NEW c \in Clients, NEW k \in Scans, OpenBuild(c, k) PROVE TxInv'
  <2>1. /\ tx'[c].op = "build" /\ tx'[c].k = k /\ tx'[c].link = NoVersion
        /\ tx'[c].row # "absent" => reportStatus[k] # "none"
        /\ \A d \in Clients \ {c} : tx'[d] = tx[d]
    BY <1>0, <1>8 DEF OpenBuild, Open
  <2>2. /\ scan'[k].status # "none"
        /\ UNCHANGED reportStatus
    BY <1>8 DEF OpenBuild, scopeRows, reportVars
  <2> QED BY <1>1, <2>1, <2>2 DEF TxOk
<1>9. ASSUME NEW c \in Clients, ResolveLink(c) PROVE TxInv'
  <2>1. PICK link \in Resolved(scan[tx[c].k].targets) :
            tx' = [tx EXCEPT ![c] = [op |-> "build", k |-> tx[c].k, row |-> tx[c].row,
                                     resolved |-> TRUE, link |-> link]]
    BY <1>0, <1>9 DEF ResolveLink
  <2>2. /\ tx'[c].op = "build" /\ tx'[c].k = tx[c].k /\ tx'[c].link = link
        /\ tx'[c].row = tx[c].row
        /\ \A d \in Clients \ {c} : tx'[d] = tx[d]
    BY <1>0, <2>1
  <2>3. UNCHANGED <<version, approvals, scan, reportStatus>>
    BY <1>9 DEF ResolveLink, scopeRows, reportVars
  <2>4. link # NoVersion => Covers(link, tx[c].k)
    BY <2>1 DEF Resolved, Covering, LatestApproved, Covers, Inv, RowInv
  <2>5. /\ scan[tx[c].k].status # "none"
        /\ tx[c].row # "absent" => reportStatus[tx[c].k] # "none"
    BY <1>9 DEF ResolveLink, Inv, TxInv, TxOk
  <2> QED BY <1>1, <2>2, <2>3, <2>4, <2>5 DEF TxOk, Covers
<1>10. ASSUME NEW c \in Clients, NEW k \in Scans, OpenSubmitReport(c, k) \/ OpenAttest(c, k)
       PROVE  TxInv'
  <2>1. /\ tx'[c].op \in {"submitReport", "attestReport"} /\ tx'[c].k = k
        /\ tx'[c].op = "submitReport" => reportStatus[k] # "none"
        /\ tx'[c].op = "attestReport" => reportStatus[k] = "submitted"
        /\ \A d \in Clients \ {c} : tx'[d] = tx[d]
    BY <1>0, <1>10 DEF OpenSubmitReport, OpenAttest, Open
  <2>2. UNCHANGED reportStatus
    BY <1>10 DEF OpenSubmitReport, OpenAttest, reportVars
  <2> QED BY <1>1, <2>1, <2>2 DEF TxOk
<1>11. ASSUME NEW c \in Clients, GateAttest(c) PROVE TxInv'
  <2>1. /\ tx'[c].op = "attestReport" /\ tx'[c].k = tx[c].k
        /\ \A d \in Clients \ {c} : tx'[d] = tx[d]
    BY <1>0, <1>11 DEF GateAttest
  <2>2. /\ UNCHANGED reportStatus
        /\ reportStatus[tx[c].k] \in {"submitted", "attested"}
    BY <1>11 DEF GateAttest, reportVars, Inv, TxInv, TxOk
  <2> QED BY <1>1, <2>1, <2>2 DEF TxOk
<1>12. ASSUME NEW c \in Clients, ScopeCall(c) PROVE TxInv'
  BY <1>3, <1>4, <1>5, <1>6, <1>7, <1>12
     DEF ScopeCall, Rollback, CommitCreate, CommitSubmit, CommitApprove, CommitScan
<1>13. ASSUME NEW c \in Clients, ReportCall(c) PROVE TxInv'
  BY <1>3, <1>8, <1>9, <1>10, <1>11, <1>13
     DEF ReportCall, CommitBuild, CommitSubmitReport, CommitAttest
<1> QED BY <1>2, <1>12, <1>13 DEF Next, ScopeNext, AssetMoves, ScanCompletes

-----------------------------------------------------------------------------
(* The rows.                                                               *)

\* The steps that change a row the invariant speaks of.
LEMMA RowChanges ==
    ASSUME Next
    PROVE  \/ UNCHANGED <<version, approvals, scan, reportVars>>
           \/ /\ UNCHANGED reportVars
              /\ \/ \E c \in Clients : CommitCreate(c) \/ CommitSubmit(c)
                                       \/ CommitApprove(c) \/ CommitScan(c)
                 \/ \E k \in Scans : ScanCompletes(k)
           \/ \E c \in Clients : CommitBuild(c) \/ CommitSubmitReport(c) \/ CommitAttest(c)
<1>1. ASSUME NEW c \in Clients, ScopeCall(c)
      PROVE  \/ UNCHANGED <<version, approvals, scan>>
             \/ CommitCreate(c) \/ CommitSubmit(c) \/ CommitApprove(c) \/ CommitScan(c)
  BY <1>1 DEF ScopeCall, Rollback, OpenCreate, OpenSubmit, OpenApprove, OpenScan, GateScan
<1>2. ASSUME NEW c \in Clients, ReportCall(c)
      PROVE  \/ UNCHANGED <<version, approvals, scan, reportVars>>
             \/ CommitBuild(c) \/ CommitSubmitReport(c) \/ CommitAttest(c)
  BY <1>2 DEF ReportCall, OpenBuild, ResolveLink, OpenSubmitReport, OpenAttest, GateAttest,
              scopeRows, reportVars
<1> QED BY <1>1, <1>2 DEF Next, ScopeNext, AssetMoves

LEMMA RowStep == Inv /\ Next => RowInv'
<1> SUFFICES ASSUME Inv, Next PROVE RowInv'
  OBVIOUS
<1>0. /\ version \in [Versions -> [status : VersionStates, number : Nat, items : SUBSET Assets]]
      /\ scan \in [Scans -> [status : ScanStates, targets : SUBSET Assets]]
      /\ reportStatus \in [Scans -> ReportStates]
      /\ reportLink \in [Scans -> Links]
      /\ TypeOK
      /\ RowInv
      /\ Kept
  BY RowsKept DEF Inv, TypeOK, ScopeTypeOK
<1>1. CASE UNCHANGED <<version, approvals, scan, reportVars>>
  BY <1>0, <1>1 DEF RowInv, Approved, reportVars
<1>2. ASSUME UNCHANGED reportVars, Approved' \subseteq approvals',
             \A v \in approvals' : version'[v].status # "none"
      PROVE  RowInv'
  BY <1>0, <1>2 DEF RowInv, Kept, reportVars
<1>3. ASSUME UNCHANGED reportVars, NEW c \in Clients, CommitCreate(c) PROVE RowInv'
  <2>1. tx[c].v \in Versions
    BY <1>0, <1>3, TxTyped DEF CommitCreate
  <2>2. /\ UNCHANGED approvals
        /\ \A v \in Versions : version'[v].status = "approved" => version[v].status = "approved"
        /\ \A v \in Versions : version[v].status # "none" => version'[v].status # "none"
    BY <1>0, <1>3, <2>1 DEF CommitCreate
  <2> QED BY <1>0, <1>2, <1>3, <2>2 DEF RowInv, Approved, TypeOK, ScopeTypeOK
<1>4. ASSUME UNCHANGED reportVars, NEW c \in Clients, CommitSubmit(c) PROVE RowInv'
  <2>1. tx[c].v \in Versions
    BY <1>0, <1>4, TxTyped DEF CommitSubmit
  <2>2. /\ UNCHANGED approvals
        /\ \A v \in Versions : version'[v].status = "approved" => version[v].status = "approved"
        /\ \A v \in Versions : version[v].status # "none" => version'[v].status # "none"
    BY <1>0, <1>4, <2>1 DEF CommitSubmit
  <2> QED BY <1>0, <1>2, <1>4, <2>2 DEF RowInv, Approved, TypeOK, ScopeTypeOK
<1>5. ASSUME UNCHANGED reportVars, NEW c \in Clients, CommitApprove(c) PROVE RowInv'
  <2>1. tx[c].v \in Versions
    BY <1>0, <1>5, TxTyped DEF CommitApprove
  <2>2. /\ approvals' = approvals \cup {tx[c].v}
        /\ version'[tx[c].v].status = "approved"
        /\ \A v \in Versions \ {tx[c].v} : version'[v] = version[v]
    BY <1>0, <1>5, <2>1 DEF CommitApprove
  <2> QED BY <1>0, <1>2, <1>5, <2>1, <2>2 DEF RowInv, Approved, TypeOK, ScopeTypeOK
<1>6. ASSUME UNCHANGED reportVars, UNCHANGED <<version, approvals>> PROVE RowInv'
  BY <1>0, <1>2, <1>6 DEF RowInv, Approved
<1>7. ASSUME UNCHANGED <<version, approvals, scan>>,
             \A k \in Scans :
                 /\ reportStatus'[k] = "none" =>
                        reportStatus[k] = "none" /\ reportLink'[k] = reportLink[k]
                 /\ reportStatus'[k] # "none" => scan[k].status # "none"
      PROVE  RowInv'
  BY <1>0, <1>7 DEF RowInv, Approved
<1>8. ASSUME NEW c \in Clients, CommitBuild(c) PROVE RowInv'
  <2>1. /\ tx[c].k \in Scans
        /\ scan[tx[c].k].status # "none"
        /\ tx[c].row # "absent" => reportStatus[tx[c].k] # "none"
    BY <1>0, <1>8, TxTyped DEF CommitBuild, Inv, TxInv, TxOk
  <2>2. /\ UNCHANGED <<version, approvals, scan>>
        /\ reportStatus'[tx[c].k] # "none"
        /\ \A k \in Scans \ {tx[c].k} :
              reportStatus'[k] = reportStatus[k] /\ reportLink'[k] = reportLink[k]
    BY <1>0, <1>8, <2>1 DEF CommitBuild, InsertReport, Relink, scopeRows
  <2> QED BY <1>0, <1>7, <2>1, <2>2 DEF RowInv
<1>9. ASSUME NEW c \in Clients, CommitSubmitReport(c) \/ CommitAttest(c) PROVE RowInv'
  <2>1. /\ tx[c].k \in Scans
        /\ reportStatus[tx[c].k] # "none"
    BY <1>0, <1>9, TxTyped DEF CommitSubmitReport, CommitAttest, Inv, TxInv, TxOk
  <2>2. /\ UNCHANGED <<version, approvals, scan, reportLink>>
        /\ reportStatus'[tx[c].k] # "none"
        /\ \A k \in Scans \ {tx[c].k} : reportStatus'[k] = reportStatus[k]
    BY <1>0, <1>9, <2>1 DEF CommitSubmitReport, CommitAttest, scopeRows
  <2> QED BY <1>0, <1>7, <2>1, <2>2 DEF RowInv
<1> QED BY <1>1, <1>3, <1>4, <1>5, <1>6, <1>8, <1>9, RowChanges DEF CommitScan, ScanCompletes

-----------------------------------------------------------------------------
(* The properties that hold however many clients build reports.            *)

LEMMA BackedStep == Inv /\ Next => BackedByApproval'
<1> SUFFICES ASSUME Inv, Next, Prod, NEW k \in Scans, NEW a \in scan'[k].targets
             PROVE  Backed(a)'
  BY DEF BackedByApproval, Backed
<1>0. /\ scan \in [Scans -> [status : ScanStates, targets : SUBSET Assets]]
      /\ TypeOK
      /\ Kept
  BY RowsKept DEF Inv, TypeOK, ScopeTypeOK
<1>1. ASSUME NEW b, Backed(b) PROVE Backed(b)'
  BY <1>0, <1>1 DEF Backed, Kept, Inv, RowInv, TypeOK, ScopeTypeOK
<1>2. CASE scan'[k].targets = scan[k].targets
  BY <1>1, <1>2 DEF Inv, BackedByApproval, Backed
<1>3. ASSUME NEW c \in Clients, CommitScan(c) PROVE Backed(a)'
  <2>1. tx[c].k \in Scans
    BY <1>0, <1>3, TxTyped DEF CommitScan
  <2>2. \/ scan'[k].targets = scan[k].targets
        \/ scan'[k].targets = tx[c].targets
    BY <1>0, <1>3, <2>1 DEF CommitScan
  <2>3. \A b \in tx[c].targets : Backed(b)
    BY <1>3 DEF CommitScan, Inv, TxInv, TxOk
  <2> QED BY <1>1, <1>2, <2>2, <2>3
<1>4. ASSUME NEW j \in Scans, ScanCompletes(j) PROVE scan'[k].targets = scan[k].targets
  BY <1>0, <1>4 DEF ScanCompletes
<1>5. ASSUME UNCHANGED scan PROVE scan'[k].targets = scan[k].targets
  BY <1>5
<1> QED BY <1>2, <1>3, <1>4, <1>5, RowChanges
        DEF CommitCreate, CommitSubmit, CommitApprove, CommitBuild, CommitSubmitReport,
            CommitAttest, scopeRows

LEMMA LinkStep == Inv /\ Next => LinkCovers'
<1> SUFFICES ASSUME Inv, Next, NEW k \in Scans, reportLink'[k] # NoVersion
             PROVE  Covers(reportLink[k], k)'
  BY DEF LinkCovers, Covers
<1>0. /\ reportLink \in [Scans -> Links]
      /\ TypeOK
      /\ Kept
  BY RowsKept DEF Inv, TypeOK
<1>1. ASSUME NEW l \in Links, Covers(l, k), scan[k].status # "none" PROVE Covers(l, k)'
  BY <1>0, <1>1 DEF Covers, Kept, Inv, RowInv, TypeOK, ScopeTypeOK
<1>2. CASE reportLink'[k] = reportLink[k]
  <2>1. Covers(reportLink[k], k) /\ scan[k].status # "none"
    BY <1>2 DEF Inv, LinkCovers, Covers, RowInv
  <2>2. Covers(reportLink[k], k)'
    BY <1>0, <1>1, <1>2, <2>1 DEF Covers
  <2> QED BY <1>2, <2>2 DEF Covers
<1>3. ASSUME NEW c \in Clients, CommitBuild(c), reportLink'[k] # reportLink[k]
      PROVE  Covers(reportLink[k], k)'
  <2>1. tx[c].k \in Scans /\ tx[c].link \in Links
    BY <1>0, <1>3, TxTyped DEF CommitBuild
  <2>2. PICK l \in Links : l = tx[c].link
    BY <2>1
  <2>3. tx[c].k = k /\ reportLink'[k] = l
    BY <1>0, <1>3, <2>1, <2>2 DEF CommitBuild, InsertReport, Relink
  <2>4. Covers(l, k) /\ scan[k].status # "none"
    BY <1>3, <2>2, <2>3 DEF CommitBuild, Inv, TxInv, TxOk
  <2>5. Covers(l, k)'
    BY <1>1, <2>4
  <2> QED BY <2>3, <2>5 DEF Covers
<1>4. ASSUME UNCHANGED reportLink PROVE reportLink'[k] = reportLink[k]
  BY <1>4
<1> QED BY <1>2, <1>3, <1>4, RowChanges DEF reportVars, CommitSubmitReport, CommitAttest

LEMMA AttestationStep == Inv /\ Next => AttestationAgrees'
<1> SUFFICES ASSUME Inv, Next PROVE AttestationAgrees'
  OBVIOUS
<1>0. /\ reportStatus \in [Scans -> ReportStates]
      /\ attestation \in [Scans -> {"none", "submitted", "attested"}]
      /\ TypeOK
      /\ AttestationAgrees
  BY DEF Inv, TypeOK
<1>1. CASE UNCHANGED reportVars
  BY <1>0, <1>1 DEF AttestationAgrees, reportVars
<1>2. ASSUME NEW c \in Clients, CommitBuild(c) PROVE AttestationAgrees'
  <2>1. tx[c].k \in Scans
    BY <1>0, <1>2, TxTyped DEF CommitBuild
  <2> QED BY <1>0, <1>2, <2>1 DEF CommitBuild, InsertReport, Relink, AttestationAgrees
<1>3. ASSUME NEW c \in Clients, CommitSubmitReport(c) PROVE AttestationAgrees'
  <2>1. tx[c].k \in Scans
    BY <1>0, <1>3, TxTyped DEF CommitSubmitReport
  <2> QED BY <1>0, <1>3, <2>1 DEF CommitSubmitReport, AttestationAgrees
<1>4. ASSUME NEW c \in Clients, CommitAttest(c) PROVE AttestationAgrees'
  <2>1. tx[c].k \in Scans
    BY <1>0, <1>4, TxTyped DEF CommitAttest
  <2> QED BY <1>0, <1>4, <2>1 DEF CommitAttest, AttestationAgrees
<1> QED BY <1>1, <1>2, <1>3, <1>4, RowChanges

\* The invariant holds in every state.
THEOREM Invariance == Spec => []Inv
<1>1. Init => Inv
  BY InitTyped DEF Init, ScopeInit, Inv, RowInv, TxInv, TxOk, Idle, BackedByApproval, LinkCovers,
     AttestationAgrees, Approved, NoScopeVersion, NoScan
<1>2. ASSUME Inv, [Next]_vars PROVE Inv'
  <2>1. CASE UNCHANGED vars
    BY <1>2, <2>1 DEF vars, scopeVars, reportVars, Inv, TypeOK, ScopeTypeOK, RowInv, TxInv, TxOk,
       Backed, Covers, BackedByApproval, LinkCovers, AttestationAgrees, Approved
  <2>2. CASE Next
    <3>1. TypeOK'
      BY <1>2, <2>2, ScopeStepTyped, ReportStepTyped DEF Next, Inv
    <3> QED BY <1>2, <2>2, <3>1, RowStep, TxStep, BackedStep, LinkStep, AttestationStep DEF Inv
  <2> QED BY <1>2, <2>1, <2>2
<1> QED BY <1>1, <1>2, PTL DEF Spec

\* In prod every target of a scan is an item of an approved version.
THEOREM BackedByApprovalHolds == Spec => []BackedByApproval
<1>1. Inv => BackedByApproval
  BY DEF Inv
<1> QED BY <1>1, Invariance, PTL

\* A report's link names an approved version that covers a target of its scan.
THEOREM LinkCoversHolds == Spec => []LinkCovers
<1>1. Inv => LinkCovers
  BY DEF Inv
<1> QED BY <1>1, Invariance, PTL

\* A report and its attestation agree.
THEOREM AttestationAgreesHolds == Spec => []AttestationAgrees
<1>1. Inv => AttestationAgrees
  BY DEF Inv
<1> QED BY <1>1, Invariance, PTL

-----------------------------------------------------------------------------
(* What holds when at most one client builds reports: the link that a      *)
(* build or an attestation has read is still the report's link when it     *)
(* commits.                                                                *)

OneBuilder == \A b, c \in Builders : b = c

SoleOk(c) ==
    /\ tx[c].op = "build" =>
          /\ c \in Builders
          /\ tx[c].row = "unlinked" => reportLink[tx[c].k] = NoVersion
    /\ tx[c].op = "attestReport" =>
          /\ tx[c].link # NoVersion => reportLink[tx[c].k] = tx[c].link
          /\ Prod /\ ~ tx[c].gated => tx[c].link \in approvals

SoleInv == \A c \in Clients : SoleOk(c)

GateInv == Inv /\ SoleInv /\ AttestedIsBacked

LEMMA LinkKept ==
    ASSUME Inv, SoleInv, Next, NEW k \in Scans, reportLink[k] # NoVersion
    PROVE  reportLink'[k] = reportLink[k]
<1>1. ASSUME NEW c \in Clients, CommitBuild(c) PROVE reportLink'[k] = reportLink[k]
  <2>1. /\ tx[c].k \in Scans
        /\ tx[c].row = "unlinked" => reportLink[tx[c].k] = NoVersion
        /\ reportStatus[k] # "none"
        /\ reportLink \in [Scans -> Links]
    BY <1>1, TxTyped DEF CommitBuild, SoleInv, SoleOk, Inv, RowInv, TypeOK
  <2> QED BY <1>1, <2>1 DEF CommitBuild, InsertReport, Relink
<1>2. ASSUME UNCHANGED reportLink PROVE reportLink'[k] = reportLink[k]
  BY <1>2
<1> QED BY <1>1, <1>2, RowChanges DEF reportVars, CommitSubmitReport, CommitAttest

LEMMA SoleOthersKept ==
    ASSUME OneBuilder, Inv, SoleInv, Next, Kept,
           NEW d \in Clients, tx'[d] = tx[d],
           \A c \in Clients : CommitBuild(c) => c # d
    PROVE  SoleOk(d)'
<1>0. TypeOK /\ SoleOk(d)
  BY DEF Inv, SoleInv
<1>1. ASSUME tx[d].op = "build", tx[d].row = "unlinked"
      PROVE  reportLink'[tx[d].k] = NoVersion
  <2>1. reportLink[tx[d].k] = NoVersion /\ d \in Builders
    BY <1>0, <1>1 DEF SoleOk
  <2>2. ASSUME NEW c \in Clients, CommitBuild(c) PROVE FALSE
    <3>1. c \in Builders
      BY <2>2 DEF CommitBuild, SoleInv, SoleOk
    <3> QED BY <2>1, <2>2, <3>1 DEF OneBuilder
  <2>3. UNCHANGED reportLink
    BY <2>2, RowChanges DEF reportVars, CommitSubmitReport, CommitAttest
  <2> QED BY <2>1, <2>3
<1>2. ASSUME tx[d].op = "attestReport", tx[d].link # NoVersion
      PROVE  reportLink'[tx[d].k] = tx[d].link
  <2>1. tx[d].k \in Scans /\ reportLink[tx[d].k] = tx[d].link
    BY <1>0, <1>2, TxTyped DEF SoleOk
  <2> QED BY <1>2, <2>1, LinkKept
<1> QED BY <1>0, <1>1, <1>2 DEF SoleOk, Kept

LEMMA SoleStep ==
    ASSUME OneBuilder, Inv, SoleInv, Next
    PROVE  SoleInv'
<1>0. /\ Kept
      /\ TypeOK
      /\ tx \in [Clients -> ScopeTxs \cup ReportTxs]
  BY RowsKept DEF Inv, TypeOK
<1>1. ASSUME NEW c \in Clients, SoleOk(c)', \A d \in Clients \ {c} : tx'[d] = tx[d],
             \A d \in Clients : CommitBuild(d) => d = c
      PROVE  SoleInv'
  <2>1. ASSUME NEW d \in Clients PROVE SoleOk(d)'
    <3>1. CASE d = c
      BY <1>1, <3>1
    <3>2. CASE d # c
      BY <1>0, <1>1, <3>2, SoleOthersKept
    <3> QED BY <3>1, <3>2
  <2> QED BY <2>1 DEF SoleInv
<1>2. ASSUME NEW c \in Clients, CommitBuild(c), NEW d \in Clients, UNCHANGED tx PROVE FALSE
  BY <1>0, <1>2 DEF CommitBuild, Close, Idle
<1>3. ASSUME UNCHANGED tx PROVE SoleInv'
  <2>1. ASSUME NEW d \in Clients PROVE SoleOk(d)'
    BY <1>0, <1>2, <1>3, SoleOthersKept
  <2> QED BY <2>1 DEF SoleInv
<1>4. ASSUME NEW c \in Clients, NEW d \in Clients, CommitBuild(d),
             \A e \in Clients \ {c} : tx'[e] = tx[e]
      PROVE  d = c
  <2>1. tx[d].op = "build" /\ tx'[d] = Idle
    BY <1>0, <1>4 DEF CommitBuild, Close
  <2> QED BY <1>4, <2>1 DEF Idle
<1>5. ASSUME NEW c \in Clients, SoleOk(c)', \A d \in Clients \ {c} : tx'[d] = tx[d]
      PROVE  SoleInv'
  BY <1>1, <1>4, <1>5
<1>6. ASSUME NEW c \in Clients, \A d \in Clients \ {c} : tx'[d] = tx[d],
             tx'[c].op \notin {"build", "attestReport"}
      PROVE  SoleInv'
  BY <1>5, <1>6 DEF SoleOk
<1>7. ASSUME NEW c \in Clients, ScopeCall(c) PROVE SoleInv'
  <2>1. /\ \A d \in Clients \ {c} : tx'[d] = tx[d]
        /\ tx'[c].op \notin {"build", "attestReport"}
    BY <1>0, <1>7 DEF ScopeCall, Rollback, OpenCreate, CommitCreate, OpenSubmit, CommitSubmit,
       OpenApprove, CommitApprove, OpenScan, GateScan, CommitScan, Open, Close, Idle
  <2> QED BY <1>6, <2>1
<1>8. ASSUME NEW c \in Clients, Close(c) PROVE SoleInv'
  <2>1. /\ \A d \in Clients \ {c} : tx'[d] = tx[d]
        /\ tx'[c].op \notin {"build", "attestReport"}
    BY <1>0, <1>8 DEF Close, Idle
  <2> QED BY <1>6, <2>1
<1>9. ASSUME NEW c \in Builders, NEW k \in Scans, OpenBuild(c, k) PROVE SoleInv'
  <2>1. c \in Clients
    BY ReportAssumption
  <2>2. /\ tx'[c].op = "build" /\ tx'[c].k = k
        /\ tx'[c].row = "unlinked" => reportLink[k] = NoVersion
        /\ \A d \in Clients \ {c} : tx'[d] = tx[d]
    BY <1>0, <1>9, <2>1 DEF OpenBuild, Open
  <2>3. UNCHANGED reportLink
    BY <1>9 DEF OpenBuild, reportVars
  <2> QED BY <1>5, <2>1, <2>2, <2>3 DEF SoleOk
<1>10. ASSUME NEW c \in Clients, ResolveLink(c) PROVE SoleInv'
  <2>1. /\ tx'[c].op = "build" /\ tx'[c].k = tx[c].k /\ tx'[c].row = tx[c].row
        /\ \A d \in Clients \ {c} : tx'[d] = tx[d]
    BY <1>0, <1>10 DEF ResolveLink
  <2>2. /\ UNCHANGED reportLink
        /\ c \in Builders
        /\ tx[c].row = "unlinked" => reportLink[tx[c].k] = NoVersion
    BY <1>10 DEF ResolveLink, reportVars, SoleInv, SoleOk
  <2> QED BY <1>5, <2>1, <2>2 DEF SoleOk
<1>11. ASSUME NEW c \in Clients, NEW k \in Scans, OpenSubmitReport(c, k) PROVE SoleInv'
  <2>1. /\ \A d \in Clients \ {c} : tx'[d] = tx[d]
        /\ tx'[c].op \notin {"build", "attestReport"}
    BY <1>0, <1>11 DEF OpenSubmitReport, Open
  <2> QED BY <1>6, <2>1
<1>12. ASSUME NEW c \in Clients, NEW k \in Scans, OpenAttest(c, k) PROVE SoleInv'
  <2>1. /\ tx'[c].op = "attestReport" /\ tx'[c].k = k /\ tx'[c].link = reportLink[k]
        /\ tx'[c].gated = Prod
        /\ \A d \in Clients \ {c} : tx'[d] = tx[d]
    BY <1>0, <1>12 DEF OpenAttest, Open
  <2>2. UNCHANGED reportLink
    BY <1>12 DEF OpenAttest, reportVars
  <2> QED BY <1>5, <2>1, <2>2 DEF SoleOk
<1>13. ASSUME NEW c \in Clients, GateAttest(c) PROVE SoleInv'
  <2>1. /\ tx'[c].op = "attestReport" /\ tx'[c].k = tx[c].k /\ tx'[c].link = tx[c].link
        /\ \A d \in Clients \ {c} : tx'[d] = tx[d]
    BY <1>0, <1>13 DEF GateAttest
  <2>2. /\ UNCHANGED <<reportLink, approvals>>
        /\ tx[c].link # NoVersion => reportLink[tx[c].k] = tx[c].link
        /\ tx[c].link \in approvals
    BY <1>13 DEF GateAttest, scopeRows, reportVars, SoleInv, SoleOk, Inv, RowInv
  <2> QED BY <1>5, <2>1, <2>2 DEF SoleOk
<1>14. ASSUME NEW c \in Clients, ReportCall(c) PROVE SoleInv'
  BY <1>8, <1>9, <1>10, <1>11, <1>12, <1>13, <1>14
     DEF ReportCall, CommitBuild, CommitSubmitReport, CommitAttest
<1> QED BY <1>3, <1>7, <1>14 DEF Next, ScopeNext, AssetMoves, ScanCompletes

LEMMA GateStep ==
    ASSUME Inv, SoleInv, AttestedIsBacked, Next
    PROVE  AttestedIsBacked'
<1> SUFFICES ASSUME Prod, NEW k \in Scans, reportStatus'[k] = "attested"
             PROVE  reportLink'[k] \in approvals'
  BY DEF AttestedIsBacked
<1>0. /\ TypeOK
      /\ approvals \subseteq approvals'
      /\ NoVersion \notin approvals
      /\ reportStatus \in [Scans -> ReportStates]
  BY RowsKept, ScopeAssumption DEF Inv, Kept, TypeOK, ScopeTypeOK
<1>1. CASE reportStatus[k] = "attested"
  <2>1. reportLink[k] \in approvals
    BY <1>1 DEF AttestedIsBacked
  <2>2. reportLink'[k] = reportLink[k]
    BY <1>0, <2>1, LinkKept
  <2> QED BY <1>0, <2>1, <2>2
<1>2. ASSUME NEW c \in Clients, CommitAttest(c), reportStatus[k] # "attested"
      PROVE  reportLink'[k] \in approvals'
  <2>1. tx[c].k \in Scans
    BY <1>0, <1>2, TxTyped DEF CommitAttest
  <2>2. tx[c].k = k /\ reportLink' = reportLink
    BY <1>0, <1>2, <2>1 DEF CommitAttest
  <2>3. tx[c].link \in approvals /\ reportLink[k] = tx[c].link
    BY <1>0, <1>2, <2>2 DEF CommitAttest, SoleInv, SoleOk
  <2> QED BY <1>0, <2>2, <2>3
<1>3. ASSUME NEW c \in Clients, CommitBuild(c) \/ CommitSubmitReport(c)
      PROVE  reportStatus[k] = "attested"
  <2>1. tx[c].k \in Scans
    BY <1>0, <1>3, TxTyped DEF CommitBuild, CommitSubmitReport
  <2> QED BY <1>0, <1>3, <2>1 DEF CommitBuild, CommitSubmitReport, InsertReport, Relink
<1>4. ASSUME UNCHANGED reportStatus PROVE reportStatus[k] = "attested"
  BY <1>4
<1> QED BY <1>1, <1>2, <1>3, <1>4, RowChanges DEF reportVars

THEOREM GateInvariance ==
    ASSUME OneBuilder
    PROVE  Spec => []GateInv
<1>1. Init => SoleInv /\ AttestedIsBacked
  BY DEF Init, ScopeInit, SoleInv, SoleOk, AttestedIsBacked, Idle
<1>2. ASSUME Inv, SoleInv, AttestedIsBacked, [Next]_vars PROVE SoleInv' /\ AttestedIsBacked'
  <2>1. CASE UNCHANGED vars
    BY <1>2, <2>1 DEF vars, scopeVars, reportVars, SoleInv, SoleOk, AttestedIsBacked
  <2>2. CASE Next
    BY <1>2, <2>2, SoleStep, GateStep
  <2> QED BY <1>2, <2>1, <2>2
<1> QED BY <1>1, <1>2, Invariance, PTL DEF Spec, GateInv

\* In prod an attested report names an approved scope version.
THEOREM AttestedIsBackedHolds ==
    ASSUME OneBuilder
    PROVE  Spec => []AttestedIsBacked
<1>1. GateInv => AttestedIsBacked
  BY DEF GateInv
<1> QED BY <1>1, GateInvariance, PTL

LEMMA PromiseStep ==
    ASSUME GateInv, Next
    PROVE  [Promise!Next]_<<reportStatus, reportLink>>
<1>0. /\ TypeOK /\ Inv /\ SoleInv /\ AttestationAgrees /\ AttestedIsBacked'
      /\ reportStatus \in [Scans -> ReportStates]
      /\ reportLink \in [Scans -> Links]
  BY GateStep DEF GateInv, Inv, TypeOK
<1>1. ASSUME NEW c \in Clients, CommitBuild(c)
      PROVE  [Promise!Next]_<<reportStatus, reportLink>>
  <2>1. PICK k \in Scans, l \in Links : k = tx[c].k /\ l = tx[c].link
    BY <1>0, <1>1, TxTyped DEF CommitBuild
  <2>2. CASE tx[c].row = "absent"
    <3>1. Promise!Draft(k)
      BY <1>1, <2>1, <2>2 DEF CommitBuild, InsertReport, Links, Promise!Draft
    <3> QED BY <3>1 DEF Promise!Next
  <2>3. CASE tx[c].row = "unlinked"
    <3>1. /\ reportLink[k] = NoVersion /\ reportStatus[k] # "none"
          /\ reportLink' = [reportLink EXCEPT ![k] = l] /\ UNCHANGED reportStatus
      BY <1>0, <1>1, <2>1, <2>3
         DEF CommitBuild, Relink, SoleInv, SoleOk, Inv, TxInv, TxOk
    <3>2. CASE l = NoVersion
      BY <1>0, <3>1, <3>2
    <3>3. CASE l # NoVersion
      <4>1. Promise!Name(k)
        BY <2>1, <3>1, <3>3 DEF Links, Promise!Name
      <4> QED BY <4>1 DEF Promise!Next
    <3> QED BY <3>2, <3>3
  <2>4. CASE tx[c].row = "linked"
    BY <1>1, <2>4 DEF CommitBuild, Relink
  <2> QED BY <1>0, <1>1, <2>2, <2>3, <2>4, TxTyped DEF CommitBuild
<1>2. ASSUME NEW c \in Clients, CommitSubmitReport(c)
      PROVE  [Promise!Next]_<<reportStatus, reportLink>>
  <2>1. PICK k \in Scans : k = tx[c].k
    BY <1>0, <1>2, TxTyped DEF CommitSubmitReport
  <2>2. reportStatus[k] = "draft"
    BY <1>0, <1>2, <2>1
       DEF CommitSubmitReport, AttestationAgrees, Inv, TxInv, TxOk, ReportStates
  <2>3. Promise!Submit(k)
    BY <1>2, <2>1, <2>2 DEF CommitSubmitReport, Promise!Submit
  <2> QED BY <2>3 DEF Promise!Next
<1>3. ASSUME NEW c \in Clients, CommitAttest(c)
      PROVE  [Promise!Next]_<<reportStatus, reportLink>>
  <2>1. PICK k \in Scans : k = tx[c].k
    BY <1>0, <1>3, TxTyped DEF CommitAttest
  <2>2. /\ reportStatus[k] \in {"submitted", "attested"}
        /\ reportStatus' = [reportStatus EXCEPT ![k] = "attested"] /\ UNCHANGED reportLink
    BY <1>3, <2>1 DEF CommitAttest, Inv, TxInv, TxOk, GateInv
  <2>3. CASE reportStatus[k] = "attested"
    BY <1>0, <2>2, <2>3
  <2>4. CASE reportStatus[k] = "submitted"
    <3>1. Prod => reportLink[k] # NoVersion
      <4>1. reportStatus'[k] = "attested"
        BY <1>0, <2>2
      <4>2. Prod => reportLink[k] \in approvals
        BY <1>0, <1>3, <2>2, <4>1 DEF AttestedIsBacked, CommitAttest, scopeRows
      <4> QED BY <1>0, <4>2, ScopeAssumption DEF TypeOK, ScopeTypeOK
    <3>2. Promise!Attest(k)
      BY <2>2, <2>4, <3>1 DEF Promise!Attest
    <3> QED BY <3>2 DEF Promise!Next
  <2> QED BY <2>2, <2>3, <2>4
<1> QED BY <1>1, <1>2, <1>3, RowChanges DEF reportVars

\* Reports implement ReportPromise: they are drafted, submitted and attested
\* in this order, their link is set once, and in prod only a report that has
\* a link is attested.
THEOREM KeepsPromiseHolds ==
    ASSUME OneBuilder
    PROVE  Spec => KeepsPromise
<1>1. Init => Promise!Init
  BY DEF Init, Promise!Init
<1>2. ASSUME GateInv, [Next]_vars PROVE [Promise!Next]_<<reportStatus, reportLink>>
  <2>1. CASE UNCHANGED vars
    BY <2>1 DEF vars, reportVars
  <2>2. CASE Next
    BY <1>2, <2>2, PromiseStep
  <2> QED BY <1>2, <2>1, <2>2
<1> QED BY <1>1, <1>2, GateInvariance, PTL DEF Spec, KeepsPromise, Promise!Spec
-----------------------------------------------------------------------------
(* The numbers of a set's versions.  A call computes the number after the  *)
(* last one of the rows it sees; by the time it inserts, others may have   *)
(* taken that number, and then the unique index refuses it, or larger      *)
(* ones.  What it can rely on is that its predecessor stays: a number that *)
(* is not taken, and whose predecessor is, comes right after the last.     *)

\* The numbers of the set's versions are those from 1 to n.
Filled(s, n) ==
    /\ \A v \in Rows(s) : version[v].number \in 1 .. n
    /\ \A i \in 1 .. n : \E v \in Rows(s) : version[v].number = i

Follows(i, s) == i = 1 \/ \E w \in Rows(s) : version[w].number + 1 = i

CreateOk(c) == tx[c].op = "create" => Follows(tx[c].number, SetOf[tx[c].v])

NumberInv ==
    /\ \A s \in Sets : \E n \in Nat : Filled(s, n)
    /\ \A s \in Sets : \A v, w \in Rows(s) : version[v].number = version[w].number => v = w
    /\ \A c \in Clients : CreateOk(c)

\* Rows and their numbers stay; only an insert adds one.
SameNumbers ==
    \A v \in Versions :
        /\ version'[v].status # "none" <=> version[v].status # "none"
        /\ version'[v].number = version[v].number

LEMMA NumbersStay ==
    ASSUME Inv, Next
    PROVE  SameNumbers \/ \E c \in Clients : CommitCreate(c)
<1>0. /\ version \in [Versions -> [status : VersionStates, number : Nat, items : SUBSET Assets]]
      /\ TypeOK
  BY DEF Inv, TypeOK, ScopeTypeOK
<1>1. ASSUME UNCHANGED version PROVE SameNumbers
  BY <1>1 DEF SameNumbers
<1>2. ASSUME NEW c \in Clients, CommitSubmit(c) \/ CommitApprove(c) PROVE SameNumbers
  <2>1. /\ tx[c].v \in Versions
        /\ version[tx[c].v].status # "none"
    BY <1>0, <1>2, TxTyped DEF CommitSubmit, CommitApprove, Inv, TxInv, TxOk
  <2> QED BY <1>0, <1>2, <2>1 DEF CommitSubmit, CommitApprove, SameNumbers
<1> QED BY <1>1, <1>2, RowChanges
        DEF CommitScan, ScanCompletes, CommitBuild, CommitSubmitReport, CommitAttest, scopeRows

\* A predecessor stays one.
LEMMA FollowsStays ==
    ASSUME NEW s \in Sets, NEW i, Follows(i, s),
           \A v \in Versions : version[v].status # "none" =>
               version'[v].status # "none" /\ version'[v].number = version[v].number
    PROVE  Follows(i, s)'
BY DEF Follows, Rows

\* The transaction of a client: opened now, or kept.
LEMMA CreateStep ==
    ASSUME Inv, NumberInv, Next, NEW c \in Clients,
           \A v \in Versions : version[v].status # "none" =>
               version'[v].status # "none" /\ version'[v].number = version[v].number
    PROVE  CreateOk(c)'
<1>0. TypeOK /\ tx \in [Clients -> ScopeTxs \cup ReportTxs]
  BY DEF Inv, TypeOK
<1>1. CASE tx'[c] = tx[c]
  <2> SUFFICES ASSUME tx[c].op = "create" PROVE Follows(tx[c].number, SetOf[tx[c].v])'
    BY <1>1 DEF CreateOk, Follows, Rows
  <2>1. SetOf[tx[c].v] \in Sets
    BY <1>0, TxTyped, ScopeAssumption
  <2>2. Follows(tx[c].number, SetOf[tx[c].v])
    BY DEF NumberInv, CreateOk
  <2>3. PICK s \in Sets, i \in {tx[c].number} : s = SetOf[tx[c].v]
    BY <2>1
  <2>4. Follows(i, s)'
    BY <2>2, <2>3, FollowsStays
  <2> QED BY <1>1, <2>3, <2>4 DEF Follows, Rows
<1>2. ASSUME NEW v \in Versions, NEW chosen \in SUBSET Assets, OpenCreate(c, v, chosen)
      PROVE  CreateOk(c)'
  <2>1. PICK last \in LastNumber(SetOf[v]) :
            tx' = [tx EXCEPT ![c] = [op |-> "create", v |-> v, number |-> last + 1,
                                     items |-> {a \in chosen : asset[a] # "retired"}]]
    BY <1>2 DEF OpenCreate, Open
  <2>2. tx'[c].v = v /\ tx'[c].number = last + 1
    BY <1>0, <2>1
  <2>3. last = 0 \/ \E w \in Rows(SetOf[v]) : version[w].number = last
    BY DEF LastNumber
  <2>4. UNCHANGED version
    BY <1>2 DEF OpenCreate
  <2>5. last + 1 = 1 \/ \E w \in Rows(SetOf[v])' : version'[w].number + 1 = last + 1
    BY <2>3, <2>4 DEF Rows
  <2> QED BY <2>2, <2>5 DEF CreateOk, Follows, Rows
<1>3. tx'[c] = tx[c] \/ tx'[c].op # "create"
          \/ \E v \in Versions, chosen \in SUBSET Assets : OpenCreate(c, v, chosen)
  <2>1. ASSUME NEW d \in Clients, ScopeCall(d)
        PROVE  tx'[c] = tx[c] \/ tx'[c].op # "create"
                   \/ \E v \in Versions, chosen \in SUBSET Assets : OpenCreate(c, v, chosen)
    BY <1>0, <2>1 DEF ScopeCall, Rollback, OpenCreate, CommitCreate, OpenSubmit, CommitSubmit,
       OpenApprove, CommitApprove, OpenScan, GateScan, CommitScan, Open, Close, Idle
  <2>2. ASSUME NEW d \in Clients, ReportCall(d)
        PROVE  tx'[c] = tx[c] \/ tx'[c].op # "create"
    BY <1>0, <2>2 DEF ReportCall, OpenBuild, ResolveLink, CommitBuild, OpenSubmitReport,
       CommitSubmitReport, OpenAttest, GateAttest, CommitAttest, Open, Close, Idle
  <2>3. ASSUME UNCHANGED tx PROVE tx'[c] = tx[c]
    BY <2>3
  <2> QED BY <2>1, <2>2, <2>3 DEF Next, ScopeNext, AssetMoves, ScanCompletes
<1> QED BY <1>1, <1>2, <1>3 DEF CreateOk

\* The insert takes the number after the last.
LEMMA InsertFills ==
    ASSUME Inv, NumberInv, NEW c \in Clients, CommitCreate(c)
    PROVE  /\ \A v \in Versions : version[v].status # "none" =>
                  version'[v].status # "none" /\ version'[v].number = version[v].number
           /\ \A s \in Sets : \E n \in Nat : Filled(s, n)'
           /\ \A s \in Sets : \A v, w \in Rows(s)' :
                  version'[v].number = version'[w].number => v = w
<1>0. /\ version \in [Versions -> [status : VersionStates, number : Nat, items : SUBSET Assets]]
      /\ TypeOK
  BY DEF Inv, TypeOK, ScopeTypeOK
<1>1. PICK new \in Versions, i \in Nat :
          /\ new = tx[c].v /\ i = tx[c].number
          /\ Follows(i, SetOf[new])
  BY <1>0, TxTyped DEF CommitCreate, NumberInv, CreateOk
<1>2. /\ version[new].status = "none"
      /\ version'[new].status = "draft" /\ version'[new].number = i
      /\ \A v \in Versions \ {new} : version'[v] = version[v]
      /\ \A w \in Rows(SetOf[new]) : version[w].number # i
  BY <1>0, <1>1 DEF CommitCreate
<1>3. \A v \in Versions : version[v].status # "none" =>
          version'[v].status # "none" /\ version'[v].number = version[v].number
  BY <1>2
<1>4. /\ SetOf[new] \in Sets
      /\ Rows(SetOf[new])' = Rows(SetOf[new]) \cup {new}
      /\ \A s \in Sets \ {SetOf[new]} : Rows(s)' = Rows(s)
  BY <1>0, <1>2, ScopeAssumption DEF Rows
<1>5. ASSUME NEW s \in Sets PROVE \E n \in Nat : Filled(s, n)'
  <2>1. PICK n \in Nat : Filled(s, n)
    BY DEF NumberInv
  <2>2. CASE s # SetOf[new]
    <3>1. /\ Rows(s)' = Rows(s)
          /\ \A v \in Rows(s) : version'[v].number = version[v].number
      BY <1>3, <1>4, <2>2 DEF Rows
    <3>2. Filled(s, n)'
      BY <2>1, <3>1 DEF Filled
    <3> QED BY <3>2
  <2>3. CASE s = SetOf[new]
    <3>1. i \notin 1 .. n
      BY <1>2, <2>1, <2>3 DEF Filled
    <3>2. i = n + 1
      <4>1. CASE i = 1
        BY <3>1, <4>1
      <4>2. CASE \E w \in Rows(s) : version[w].number + 1 = i
        <5>1. PICK w \in Rows(s) : version[w].number + 1 = i
          BY <4>2
        <5>2. version[w].number \in 1 .. n
          BY <2>1 DEF Filled
        <5> QED BY <3>1, <5>1, <5>2
      <4> QED BY <1>1, <2>3, <4>1, <4>2 DEF Follows
    <3>3. \A v \in Rows(s) : version'[v].number = version[v].number
      BY <1>3 DEF Rows
    <3>4. \A v \in Rows(s)' : version'[v].number \in 1 .. n + 1
      <4>1. \A v \in Rows(s) : version'[v].number \in 1 .. n
        BY <2>1, <3>3 DEF Filled
      <4> QED BY <1>2, <1>4, <2>3, <3>2, <4>1
    <3>5. ASSUME NEW j \in 1 .. n + 1 PROVE \E v \in Rows(s)' : version'[v].number = j
      <4>1. CASE j \in 1 .. n
        BY <1>4, <2>1, <2>3, <3>3, <4>1 DEF Filled
      <4>2. CASE j = n + 1
        BY <1>2, <1>4, <2>3, <3>2, <4>2
      <4> QED BY <4>1, <4>2
    <3>6. Filled(s, n + 1)'
      BY <3>4, <3>5 DEF Filled
    <3> QED BY <3>6
  <2> QED BY <2>2, <2>3
<1>6. ASSUME NEW s \in Sets, NEW v \in Rows(s)', NEW w \in Rows(s)',
             version'[v].number = version'[w].number
      PROVE  v = w
  <2>1. \A u \in Rows(s) : version'[u].number = version[u].number
    BY <1>3 DEF Rows
  <2>2. \A x, y \in Rows(s) : version[x].number = version[y].number => x = y
    BY DEF NumberInv
  <2>3. \A u \in Rows(SetOf[new]) : version'[u].number # i
    BY <1>2, <1>3 DEF Rows
  <2> QED BY <1>2, <1>4, <1>6, <2>1, <2>2, <2>3
<1> QED BY <1>3, <1>5, <1>6

LEMMA NumberStep == Inv /\ NumberInv /\ Next => NumberInv'
<1> SUFFICES ASSUME Inv, NumberInv, Next PROVE NumberInv'
  OBVIOUS
<1>1. CASE SameNumbers
  <2>1. /\ \A s \in Sets : Rows(s)' = Rows(s)
        /\ \A s \in Sets : \A v \in Rows(s) : version'[v].number = version[v].number
    BY <1>1 DEF SameNumbers, Rows
  <2>2. ASSUME NEW s \in Sets PROVE \E n \in Nat : Filled(s, n)'
    <3>1. PICK n \in Nat : Filled(s, n)
      BY DEF NumberInv
    <3>2. Filled(s, n)'
      BY <2>1, <3>1 DEF Filled
    <3> QED BY <3>2
  <2>3. \A s \in Sets : \A v, w \in Rows(s)' : version'[v].number = version'[w].number => v = w
    BY <2>1 DEF NumberInv
  <2>4. \A c \in Clients : CreateOk(c)'
    BY <1>1, CreateStep DEF SameNumbers
  <2> QED BY <2>2, <2>3, <2>4 DEF NumberInv
<1>2. ASSUME NEW c \in Clients, CommitCreate(c) PROVE NumberInv'
  <2>1. \A d \in Clients : CreateOk(d)'
    BY <1>2, CreateStep, InsertFills
  <2> QED BY <1>2, <2>1, InsertFills DEF NumberInv
<1> QED BY <1>1, <1>2, NumbersStay

\* A set whose numbers are those from 1 to n, each once, has n versions.
LEMMA DenseWhenFilled ==
    ASSUME NEW s \in Sets, NEW n \in Nat, Filled(s, n),
           \A v, w \in Rows(s) : version[v].number = version[w].number => v = w
    PROVE  {version[v].number : v \in Rows(s)} = 1 .. Cardinality(Rows(s))
<1> DEFINE owner == [i \in 1 .. n |-> CHOOSE v \in Rows(s) : version[v].number = i]
<1>1. \A i \in 1 .. n : owner[i] \in Rows(s) /\ version[owner[i]].number = i
  BY DEF Filled
<1>2. owner \in Bijection(1 .. n, Rows(s))
  <2>1. owner \in [1 .. n -> Rows(s)]
    BY <1>1
  <2>2. \A i, j \in 1 .. n : owner[i] = owner[j] => i = j
    BY <1>1
  <2>3. \A v \in Rows(s) : \E i \in 1 .. n : owner[i] = v
    BY <1>1 DEF Filled
  <2> HIDE DEF owner
  <2> QED BY <2>1, <2>2, <2>3 DEF Bijection, Injection, Surjection, IsInjective
<1>3. Cardinality(Rows(s)) = n
  BY <1>2, FS_CountingElements DEF ExistsBijection
<1> QED BY <1>3 DEF Filled

\* The numbers of the versions are dense, and the numbers that calls have
\* computed follow one of them.
THEOREM NumberInvariance == Spec => []NumberInv
<1>1. Init => NumberInv
  <2> SUFFICES ASSUME Init PROVE NumberInv
    OBVIOUS
  <2>1. \A s \in Sets : Rows(s) = {}
    BY DEF Init, ScopeInit, NoScopeVersion, Rows
  <2>2. \A s \in Sets : Filled(s, 0)
    BY <2>1 DEF Filled
  <2>3. \A c \in Clients : CreateOk(c)
    BY DEF Init, ScopeInit, CreateOk, Idle
  <2> QED BY <2>1, <2>2, <2>3 DEF NumberInv
<1>2. ASSUME Inv, NumberInv, [Next]_vars PROVE NumberInv'
  <2>1. CASE UNCHANGED vars
    BY <1>2, <2>1 DEF vars, scopeVars, NumberInv, Filled, CreateOk, Follows, Rows
  <2>2. CASE Next
    BY <1>2, <2>2, NumberStep
  <2> QED BY <1>2, <2>1, <2>2
<1> QED BY <1>1, <1>2, Invariance, PTL DEF Spec

\* The versions of a scope set are numbered without gap or repetition.
THEOREM NumbersDenseHolds == Spec => []NumbersDense
<1>1. NumberInv => NumbersDense
  BY DenseWhenFilled DEF NumberInv, NumbersDense
<1> QED BY <1>1, NumberInvariance, PTL

-----------------------------------------------------------------------------
(* Versions whose decisions do not overlap.                                *)

Decisions == {"submit", "approve"}

\* At most one call is about to decide on a version.
OneDecision ==
    \A c, d \in Clients :
        tx[c].op \in Decisions /\ tx[d].op \in Decisions /\ tx[c].v = tx[d].v => c = d

\* What the gates read, the current status, is what the audit trail says: a
\* version is approved exactly when its approval is on record, and in prod the
\* targets of a scan are items of versions that are approved now.
AuditIsCurrent ==
    /\ approvals = Approved
    /\ Prod => \A k \in Scans : \A a \in scan[k].targets :
                  \E v \in Approved : a \in version[v].items

\* A version goes from draft to submitted to approved, and no other way.
VersionsForward ==
    [][\A v \in Versions : version'[v].status # version[v].status =>
          <<version[v].status, version'[v].status>>
             \in {<<"none", "draft">>, <<"draft", "submitted">>, <<"submitted", "approved">>}]_vars

\* What a decision has read is still so.
DecisionsFit ==
    /\ \A c \in Clients :
          /\ tx[c].op = "submit" => version[tx[c].v].status = "draft"
          /\ tx[c].op = "approve" => version[tx[c].v].status = "submitted"
    /\ approvals = Approved

\* A decision that is open after a step was so before, or the step opens it.
LEMMA DecisionSteps ==
    ASSUME TypeOK, Next, NEW d \in Clients, tx'[d].op \in Decisions
    PROVE  \/ tx'[d] = tx[d]
           \/ /\ UNCHANGED <<version, approvals>>
              /\ tx'[d].op = "submit" => version[tx'[d].v].status = "draft"
              /\ tx'[d].op = "approve" => version[tx'[d].v].status = "submitted"
<1> DEFINE Goal == \/ tx'[d] = tx[d]
                   \/ /\ UNCHANGED <<version, approvals>>
                      /\ tx'[d].op = "submit" => version[tx'[d].v].status = "draft"
                      /\ tx'[d].op = "approve" => version[tx'[d].v].status = "submitted"
<1>1. ASSUME NEW c \in Clients, NEW q, tx' = [tx EXCEPT ![c] = q], q.op \notin Decisions
      PROVE  Goal
  BY <1>1 DEF TypeOK
<1>2. ASSUME NEW c \in Clients, Close(c)
      PROVE  Goal
  BY <1>1, <1>2 DEF Close, Idle, Decisions
<1>3. ASSUME NEW c \in Clients, NEW v \in Versions, NEW chosen, OpenCreate(c, v, chosen)
      PROVE  Goal
  <2>1. PICK last : Open(c, [op |-> "create", v |-> v, number |-> last + 1,
                             items |-> {a \in chosen : asset[a] # "retired"}])
    BY <1>3 DEF OpenCreate
  <2> DEFINE q == [op |-> "create", v |-> v, number |-> last + 1,
                   items |-> {a \in chosen : asset[a] # "retired"}]
  <2>2. tx' = [tx EXCEPT ![c] = q] /\ q.op \notin Decisions
    BY <2>1 DEF Open, Decisions
  <2> HIDE DEF q
  <2> QED BY <1>1, <2>2
<1>4. ASSUME NEW c \in Clients, NEW v \in Versions, OpenSubmit(c, v)
      PROVE  Goal
  <2> DEFINE q == [op |-> "submit", v |-> v]
  <2>1. q.op = "submit" /\ q.v = v
    OBVIOUS
  <2>2. /\ tx' = [tx EXCEPT ![c] = q]
        /\ version[v].status = "draft"
        /\ UNCHANGED <<version, approvals>>
    BY <1>4 DEF OpenSubmit, Open
  <2> HIDE DEF q
  <2> QED BY <2>1, <2>2 DEF TypeOK
<1>5. ASSUME NEW c \in Clients, NEW v \in Versions, OpenApprove(c, v)
      PROVE  Goal
  <2> DEFINE q == [op |-> "approve", v |-> v]
  <2>1. q.op = "approve" /\ q.v = v
    OBVIOUS
  <2>2. /\ tx' = [tx EXCEPT ![c] = q]
        /\ version[v].status = "submitted"
        /\ UNCHANGED <<version, approvals>>
    BY <1>5 DEF OpenApprove, Open
  <2> HIDE DEF q
  <2> QED BY <2>1, <2>2 DEF TypeOK
<1>6. ASSUME NEW c \in Clients, NEW k \in Scans, NEW targets, OpenScan(c, k, targets)
      PROVE  Goal
  <2> DEFINE q == [op |-> "scan", k |-> k, targets |-> targets,
                   left |-> IF Prod THEN targets ELSE {}]
  <2>1. tx' = [tx EXCEPT ![c] = q] /\ q.op \notin Decisions
    BY <1>6 DEF OpenScan, Open, Decisions
  <2> HIDE DEF q
  <2> QED BY <1>1, <2>1
<1>7. ASSUME NEW c \in Clients, GateScan(c)
      PROVE  Goal
  <2>1. PICK a : tx' = [tx EXCEPT ![c] = [op |-> "scan", k |-> @.k, targets |-> @.targets,
                                          left |-> @.left \ {a}]]
    BY <1>7 DEF GateScan
  <2> DEFINE q == [op |-> "scan", k |-> tx[c].k, targets |-> tx[c].targets,
                   left |-> tx[c].left \ {a}]
  <2>2. tx' = [tx EXCEPT ![c] = q] /\ q.op \notin Decisions
    BY <2>1 DEF Decisions
  <2> HIDE DEF q
  <2> QED BY <1>1, <2>2
<1>8. ASSUME NEW c \in Clients, ScopeCall(c)
      PROVE  Goal
  BY <1>2, <1>3, <1>4, <1>5, <1>6, <1>7, <1>8
     DEF ScopeCall, Rollback, CommitCreate, CommitSubmit, CommitApprove, CommitScan
<1>9. ASSUME NEW c \in Clients, ReportCall(c)
      PROVE  Goal
  <2>1. ASSUME NEW k \in Scans, OpenBuild(c, k)
        PROVE  Goal
    <3> DEFINE q == [op |-> "build", k |-> k, resolved |-> FALSE, link |-> NoVersion,
                     row |-> IF reportStatus[k] = "none" THEN "absent"
                             ELSE IF reportLink[k] = NoVersion THEN "unlinked"
                             ELSE "linked"]
    <3>1. tx' = [tx EXCEPT ![c] = q] /\ q.op \notin Decisions
      BY <2>1 DEF OpenBuild, Open, Decisions
    <3> HIDE DEF q
    <3> QED BY <1>1, <3>1
  <2>2. ASSUME NEW k \in Scans, OpenSubmitReport(c, k)
        PROVE  Goal
    <3> DEFINE q == [op |-> "submitReport", k |-> k]
    <3>1. tx' = [tx EXCEPT ![c] = q] /\ q.op \notin Decisions
      BY <2>2 DEF OpenSubmitReport, Open, Decisions
    <3> HIDE DEF q
    <3> QED BY <1>1, <3>1
  <2>3. ASSUME NEW k \in Scans, OpenAttest(c, k)
        PROVE  Goal
    <3> DEFINE q == [op |-> "attestReport", k |-> k, link |-> reportLink[k], gated |-> Prod]
    <3>1. tx' = [tx EXCEPT ![c] = q] /\ q.op \notin Decisions
      BY <2>3 DEF OpenAttest, Open, Decisions
    <3> HIDE DEF q
    <3> QED BY <1>1, <3>1
  <2>4. CASE ResolveLink(c)
    <3>1. PICK l : tx' = [tx EXCEPT ![c] = [op |-> "build", k |-> @.k, row |-> @.row,
                                            resolved |-> TRUE, link |-> l]]
      BY <2>4 DEF ResolveLink
    <3> DEFINE q == [op |-> "build", k |-> tx[c].k, row |-> tx[c].row,
                     resolved |-> TRUE, link |-> l]
    <3>2. tx' = [tx EXCEPT ![c] = q] /\ q.op \notin Decisions
      BY <3>1 DEF Decisions
    <3> HIDE DEF q
    <3> QED BY <1>1, <3>2
  <2>5. CASE GateAttest(c)
    <3> DEFINE q == [op |-> "attestReport", k |-> tx[c].k, link |-> tx[c].link, gated |-> FALSE]
    <3>1. tx' = [tx EXCEPT ![c] = q] /\ q.op \notin Decisions
      BY <2>5 DEF GateAttest, Decisions
    <3> HIDE DEF q
    <3> QED BY <1>1, <3>1
  <2>6. CASE CommitBuild(c) \/ CommitSubmitReport(c) \/ CommitAttest(c)
    BY <1>2, <2>6 DEF CommitBuild, CommitSubmitReport, CommitAttest
  <2> QED BY <1>9, <2>1, <2>2, <2>3, <2>4, <2>5, <2>6 DEF ReportCall
<1>10. (\E a \in Assets, s \in AssetStates : AssetMoves(a, s))
          \/ (\E k \in Scans : ScanCompletes(k)) => tx' = tx
  BY DEF AssetMoves, ScanCompletes
<1>11. Goal
  BY <1>8, <1>9, <1>10 DEF Next, ScopeNext
<1> QED BY <1>11

\* The commit of c moves its version, and no other, from one status to the next.
Moved(c, from, to) ==
    /\ tx[c].v \in Versions
    /\ version[tx[c].v].status = from
    /\ version'[tx[c].v].status = to
    /\ \A w \in Versions \ {tx[c].v} : version'[w] = version[w]
    /\ tx'[c] = Idle

\* How a step changes the versions, when what decisions have read is still so.
LEMMA VersionSteps ==
    ASSUME TypeOK, DecisionsFit, Next
    PROVE  \/ UNCHANGED <<version, approvals>>
           \/ \E c \in Clients :
                 \/ Moved(c, "none", "draft") /\ UNCHANGED approvals
                 \/ tx[c].op \in Decisions /\ Moved(c, "draft", "submitted") /\ UNCHANGED approvals
                 \/ /\ tx[c].op \in Decisions
                    /\ Moved(c, "submitted", "approved")
                    /\ approvals' = approvals \cup {tx[c].v}
<1>0. /\ version \in [Versions -> [status : VersionStates, number : Nat, items : SUBSET Assets]]
      /\ tx \in [Clients -> ScopeTxs \cup ReportTxs]
  BY DEF TypeOK, ScopeTypeOK
<1>1. ASSUME NEW c \in Clients, CommitCreate(c)
      PROVE  Moved(c, "none", "draft") /\ UNCHANGED approvals
  <2>1. tx[c].v \in Versions
    BY <1>1, TxTyped DEF CommitCreate
  <2> QED BY <1>0, <1>1, <2>1 DEF CommitCreate, Close, Moved
<1>2. ASSUME NEW c \in Clients, CommitSubmit(c)
      PROVE  tx[c].op \in Decisions /\ Moved(c, "draft", "submitted") /\ UNCHANGED approvals
  <2>1. tx[c].v \in Versions /\ version[tx[c].v].status = "draft"
    BY <1>2, TxTyped DEF CommitSubmit, DecisionsFit
  <2> QED BY <1>0, <1>2, <2>1 DEF CommitSubmit, Close, Moved, Decisions
<1>3. ASSUME NEW c \in Clients, CommitApprove(c)
      PROVE  /\ tx[c].op \in Decisions
             /\ Moved(c, "submitted", "approved")
             /\ approvals' = approvals \cup {tx[c].v}
  <2>1. tx[c].v \in Versions /\ version[tx[c].v].status = "submitted"
    BY <1>3, TxTyped DEF CommitApprove, DecisionsFit
  <2> QED BY <1>0, <1>3, <2>1 DEF CommitApprove, Close, Moved, Decisions
<1>4. ASSUME NEW c \in Clients,
             CommitScan(c) \/ CommitBuild(c) \/ CommitSubmitReport(c) \/ CommitAttest(c)
      PROVE  UNCHANGED <<version, approvals>>
  BY <1>4 DEF CommitScan, CommitBuild, CommitSubmitReport, CommitAttest, scopeRows
<1>5. ASSUME NEW k \in Scans, ScanCompletes(k)
      PROVE  UNCHANGED <<version, approvals>>
  BY <1>5 DEF ScanCompletes
<1> QED BY <1>1, <1>2, <1>3, <1>4, <1>5, RowChanges

LEMMA DecisionsFitStep ==
    ASSUME TypeOK, OneDecision, DecisionsFit, Next
    PROVE  DecisionsFit'
<1>1. ASSUME NEW d \in Clients, tx'[d] = tx[d], tx[d].op \in Decisions
      PROVE  version'[tx[d].v].status = version[tx[d].v].status
  <2>1. /\ tx[d].v \in Versions
        /\ version[tx[d].v].status \in {"draft", "submitted"}
    BY <1>1, TxTyped DEF Decisions, DecisionsFit
  <2>2. CASE UNCHANGED <<version, approvals>>
    BY <2>2
  <2>3. ASSUME NEW c \in Clients, Moved(c, "none", "draft")
        PROVE  version'[tx[d].v] = version[tx[d].v]
    BY <2>1, <2>3 DEF Moved
  <2>4. ASSUME NEW c \in Clients, tx[c].op \in Decisions,
               Moved(c, "draft", "submitted") \/ Moved(c, "submitted", "approved")
        PROVE  version'[tx[d].v] = version[tx[d].v]
    <3>1. CASE tx[c].v = tx[d].v
      <4>1. c = d
        BY <1>1, <2>4, <3>1 DEF OneDecision
      <4>2. tx[d] = Idle
        BY <1>1, <2>4, <4>1 DEF Moved
      <4> QED BY <1>1, <4>2 DEF Idle, Decisions
    <3>2. CASE tx[c].v # tx[d].v
      BY <2>1, <2>4, <3>2 DEF Moved
    <3> QED BY <3>1, <3>2
  <2> QED BY <2>2, <2>3, <2>4, VersionSteps
<1>2. ASSUME NEW d \in Clients
      PROVE  /\ tx'[d].op = "submit" => version'[tx'[d].v].status = "draft"
             /\ tx'[d].op = "approve" => version'[tx'[d].v].status = "submitted"
  <2>1. CASE tx'[d].op \notin Decisions
    BY <2>1 DEF Decisions
  <2>2. CASE tx'[d].op \in Decisions /\ tx'[d] = tx[d]
    BY <1>1, <2>2 DEF DecisionsFit
  <2>3. CASE tx'[d].op \in Decisions /\ tx'[d] # tx[d]
    BY <2>3, DecisionSteps
  <2> QED BY <2>1, <2>2, <2>3
<1>3. approvals' = Approved'
  <2>1. approvals = {v \in Versions : version[v].status = "approved"}
    BY DEF DecisionsFit, Approved
  <2>2. CASE UNCHANGED <<version, approvals>>
    BY <2>1, <2>2 DEF Approved
  <2>3. ASSUME NEW c \in Clients,
               Moved(c, "none", "draft") \/ Moved(c, "draft", "submitted"), UNCHANGED approvals
        PROVE  approvals' = Approved'
    BY <2>1, <2>3 DEF Approved, Moved
  <2>4. ASSUME NEW c \in Clients, Moved(c, "submitted", "approved"),
               approvals' = approvals \cup {tx[c].v}
        PROVE  approvals' = Approved'
    BY <2>1, <2>4 DEF Approved, Moved
  <2> QED BY <2>2, <2>3, <2>4, VersionSteps
<1> QED BY <1>2, <1>3 DEF DecisionsFit

LEMMA DecisionsHold == Spec /\ []OneDecision => []DecisionsFit
<1>1. Init => DecisionsFit
  BY DEF Init, ScopeInit, DecisionsFit, Idle, Approved, NoScopeVersion
<1>2. ASSUME TypeOK, OneDecision, DecisionsFit, [Next]_vars PROVE DecisionsFit'
  <2>1. CASE UNCHANGED vars
    BY <1>2, <2>1 DEF vars, scopeVars, DecisionsFit, Approved
  <2> QED BY <1>2, <2>1, DecisionsFitStep
<1> QED BY <1>1, <1>2, TypeCorrect, PTL DEF Spec

\* When the decisions on a version do not overlap, a gate that reads the status
\* of versions admits what an auditor finds approved, and a scan of prod keeps
\* the approved scope it was created with (submitScopeVersion,
\* approveScopeVersion, assetInApprovedScope).
THEOREM AuditIsCurrentHolds == Spec /\ []OneDecision => []AuditIsCurrent
<1>1. BackedByApproval /\ DecisionsFit => AuditIsCurrent
  BY DEF BackedByApproval, DecisionsFit, AuditIsCurrent
<1> QED BY <1>1, BackedByApprovalHolds, DecisionsHold, PTL

\* Nor does an approved version go back: it takes a submission that overlaps
\* with the approval (submitScopeVersion).
THEOREM VersionsForwardHolds == Spec /\ []OneDecision => VersionsForward
<1>1. ASSUME TypeOK, DecisionsFit, [Next]_vars
      PROVE  [\A v \in Versions : version'[v].status # version[v].status =>
                <<version[v].status, version'[v].status>>
                   \in {<<"none", "draft">>, <<"draft", "submitted">>,
                        <<"submitted", "approved">>}]_vars
  <2> SUFFICES ASSUME Next, NEW v \in Versions, version'[v].status # version[v].status
               PROVE  <<version[v].status, version'[v].status>>
                         \in {<<"none", "draft">>, <<"draft", "submitted">>,
                              <<"submitted", "approved">>}
    BY <1>1
  <2>1. PICK c \in Clients : \/ Moved(c, "none", "draft")
                             \/ Moved(c, "draft", "submitted")
                             \/ Moved(c, "submitted", "approved")
    BY <1>1, VersionSteps
  <2>2. tx[c].v = v
    BY <2>1 DEF Moved
  <2> QED BY <2>1, <2>2 DEF Moved
<1> QED BY <1>1, TypeCorrect, DecisionsHold, PTL DEF Spec, VersionsForward
===============================================================================
