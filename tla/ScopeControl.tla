----------------------------- MODULE ScopeControl -----------------------------
(***************************************************************************)
(* The scope of one organization: versions of its scope sets, their        *)
(* approval, and the gate a scan has to pass to be created in "prod" mode. *)
(*                                                                         *)
(* Every service call is one interactive transaction of a client at READ   *)
(* COMMITTED: it reads, checks what it read, and later commits a blind     *)
(* "update where id".  A helper called with ctx instead of tx              *)
(* (assetInApprovedScope, getScopeVersion) reads in a transaction of its   *)
(* own, hence at a moment of its own.                                      *)
(***************************************************************************)
EXTENDS Integers, FiniteSets

CONSTANTS Assets,     \* the Asset rows
          Sets,       \* the ScopeSet ids, which order "scopeSetId asc"
          Versions,   \* the names of the ScopeVersion rows that may be created
          SetOf,      \* the scope set each of these is created in
          NoVersion,  \* null
          Scans,      \* the names of the Scan rows that may be created
          Clients,    \* the users with the permissions of the calls they make;
                      \* each has at most one call in progress
          Prod        \* getAppMode() = "prod"

ASSUME ScopeAssumption ==
    /\ Sets \subseteq Nat
    /\ SetOf \in [Versions -> Sets]
    /\ NoVersion \notin Versions
    /\ Prod \in BOOLEAN

VARIABLES asset,          \* what a gate reads of each Asset
          version,        \* the ScopeVersion rows with their ScopeItems
          approvals,      \* the "scope.version.approved" audit events
          scan,           \* the Scan rows with their ScanTargets
          tx              \* what the open transaction of a client has read

scopeVars == <<asset, version, approvals, scan, tx>>

-----------------------------------------------------------------------------
AssetStates == {"unverified", "verified", "retired"}
VersionStates == {"none", "draft", "submitted", "approved"}
ScanStates == {"none", "PENDING", "COMPLETED"}

\* No row has this name yet.
NoScopeVersion == [status |-> "none", number |-> 0, items |-> {}]
NoScan == [status |-> "none", targets |-> {}]

Idle == [op |-> "idle"]

ScopeTxs ==
    {Idle}
    \cup [op : {"create"}, v : Versions, number : Nat \ {0}, items : SUBSET Assets]
    \cup [op : {"submit", "approve"}, v : Versions]
    \cup [op : {"scan"}, k : Scans, targets : SUBSET Assets, left : SUBSET Assets]

ScopeTypeOK ==
    /\ asset \in [Assets -> AssetStates]
    /\ version \in [Versions -> [status : VersionStates, number : Nat, items : SUBSET Assets]]
    /\ approvals \subseteq Versions
    /\ scan \in [Scans -> [status : ScanStates, targets : SUBSET Assets]]

ScopeInit ==
    /\ asset = [a \in Assets |-> "unverified"]
    /\ version = [v \in Versions |-> NoScopeVersion]
    /\ approvals = {}
    /\ scan = [k \in Scans |-> NoScan]
    /\ tx = [c \in Clients |-> Idle]

-----------------------------------------------------------------------------
(* The transaction of a client.                                            *)

Open(c, read) ==
    /\ tx[c] = Idle
    /\ tx' = [tx EXCEPT ![c] = read]

Close(c) == tx' = [tx EXCEPT ![c] = Idle]

\* A guard throws, a unique index refuses the insert, the connection is lost
\* or the transaction times out: nothing it wrote is kept.
Rollback(c) ==
    /\ tx[c] # Idle
    /\ Close(c)
    /\ UNCHANGED <<asset, version, approvals, scan>>

-----------------------------------------------------------------------------
(* What the queries return.                                                *)

Rows(s) == {v \in Versions : SetOf[v] = s /\ version[v].status # "none"}

\* Mutant: a version that waits for its approval counts as well.
ApprovedOrSubmitted == {v \in Versions : version[v].status \in {"submitted", "approved"}}

Approved == {v \in Versions : version[v].status = "approved"}

\* The first approved version of each set, by descending versionNumber.
LatestApproved ==
    {v \in Approved : \A w \in Approved :
        SetOf[w] = SetOf[v] => version[w].number <= version[v].number}

InApprovedScope(a) == \E v \in LatestApproved : a \in version[v].items

\* Mutant: the items are not filtered by the targets.
CoveringAny(targets) == LatestApproved

\* The latest approved versions with an item among the targets.
Covering(targets) == {v \in LatestApproved : version[v].items \cap targets # {}}

\* resolveReportScopeVersionId: the covering version of the first set, by id,
\* that has one, or null.
Resolved(targets) ==
    IF Covering(targets) = {} THEN {NoVersion}
    ELSE {v \in Covering(targets) : \A w \in Covering(targets) : SetOf[v] <= SetOf[w]}

\* The largest versionNumber of a set, 0 when it has no version.
LastNumber(s) ==
    {n \in {0} \cup {version[v].number : v \in Rows(s)} :
        \A v \in Rows(s) : version[v].number <= n}

-----------------------------------------------------------------------------
(* createScopeVersion, submitScopeVersion, approveScopeVersion.            *)

\* Mutant: the new version takes the number of the last one.
OpenCreateSameNumber(c, v, chosen) ==
    /\ chosen # {}
    /\ version[v].status = "none"
    /\ \E last \in LastNumber(SetOf[v]) :
          Open(c, [op |-> "create", v |-> v, number |-> last,
                   items |-> {a \in chosen : asset[a] # "retired"}])
    /\ UNCHANGED <<asset, version, approvals, scan>>

\* The items are the non-retired assets of the request; there may be none.
OpenCreate(c, v, chosen) ==
    /\ chosen # {}
    /\ version[v].status = "none"
    /\ \E last \in LastNumber(SetOf[v]) :
          Open(c, [op |-> "create", v |-> v, number |-> last + 1,
                   items |-> {a \in chosen : asset[a] # "retired"}])
    /\ UNCHANGED <<asset, version, approvals, scan>>

\* Mutant: the index @@unique([scopeSetId, versionNumber]) is missing.
CommitCreateNoIndex(c) ==
    /\ tx[c].op = "create"
    /\ version[tx[c].v].status = "none"
    /\ version' = [version EXCEPT ![tx[c].v] =
           [status |-> "draft", number |-> tx[c].number, items |-> tx[c].items]]
    /\ Close(c)
    /\ UNCHANGED <<asset, approvals, scan>>

\* The insert; @@unique([scopeSetId, versionNumber]) holds.
CommitCreate(c) ==
    /\ tx[c].op = "create"
    /\ version[tx[c].v].status = "none"
    /\ \A w \in Rows(SetOf[tx[c].v]) : version[w].number # tx[c].number
    /\ version' = [version EXCEPT ![tx[c].v] =
           [status |-> "draft", number |-> tx[c].number, items |-> tx[c].items]]
    /\ Close(c)
    /\ UNCHANGED <<asset, approvals, scan>>

OpenSubmit(c, v) ==
    /\ version[v].status = "draft"
    /\ Open(c, [op |-> "submit", v |-> v])
    /\ UNCHANGED <<asset, version, approvals, scan>>

CommitSubmit(c) ==
    /\ tx[c].op = "submit"
    /\ version' = [version EXCEPT ![tx[c].v].status = "submitted"]
    /\ Close(c)
    /\ UNCHANGED <<asset, approvals, scan>>

OpenApprove(c, v) ==
    /\ version[v].status = "submitted"
    /\ Open(c, [op |-> "approve", v |-> v])
    /\ UNCHANGED <<asset, version, approvals, scan>>

CommitApprove(c) ==
    /\ tx[c].op = "approve"
    /\ version' = [version EXCEPT ![tx[c].v].status = "approved"]
    /\ approvals' = approvals \cup {tx[c].v}
    /\ Close(c)
    /\ UNCHANGED <<asset, scan>>

-----------------------------------------------------------------------------
(* createScanFromAssets.                                                   *)

\* The assets are read once; in prod each of them has still to be looked up
\* in the approved scope.
OpenScan(c, k, targets) ==
    /\ targets # {}
    /\ scan[k].status = "none"
    /\ \A a \in targets : asset[a] # "retired" /\ (Prod => asset[a] = "verified")
    /\ Open(c, [op |-> "scan", k |-> k, targets |-> targets,
                left |-> IF Prod THEN targets ELSE {}])
    /\ UNCHANGED <<asset, version, approvals, scan>>

\* One call of assetInApprovedScope that returns true.
GateScan(c) ==
    /\ tx[c].op = "scan"
    /\ \E a \in tx[c].left :
          /\ InApprovedScope(a)
          /\ tx' = [tx EXCEPT ![c] = [op |-> "scan", k |-> @.k, targets |-> @.targets,
                                      left |-> @.left \ {a}]]
    /\ UNCHANGED <<asset, version, approvals, scan>>

CommitScan(c) ==
    /\ tx[c].op = "scan"
    /\ tx[c].left = {}
    /\ scan[tx[c].k].status = "none"
    /\ scan' = [scan EXCEPT ![tx[c].k] = [status |-> "PENDING", targets |-> tx[c].targets]]
    /\ Close(c)
    /\ UNCHANGED <<asset, version, approvals>>

-----------------------------------------------------------------------------
(* The rest of the system, as far as the gates read it.                    *)

\* The asset registry verifies, challenges again and retires assets; since
\* verifyAssetToken may race retireAsset, any change is allowed here.
AssetMoves(a, s) ==
    /\ asset[a] # s
    /\ asset' = [asset EXCEPT ![a] = s]
    /\ UNCHANGED <<version, approvals, scan, tx>>

\* The scan runs to its end (module ScanLifecycle).
ScanCompletes(k) ==
    /\ scan[k].status = "PENDING"
    /\ scan' = [scan EXCEPT ![k].status = "COMPLETED"]
    /\ UNCHANGED <<asset, version, approvals, tx>>

ScopeCall(c) ==
    \/ Rollback(c)
    \/ \E v \in Versions :
          \/ \E chosen \in SUBSET Assets : OpenCreate(c, v, chosen)
          \/ OpenSubmit(c, v)
          \/ OpenApprove(c, v)
    \/ CommitCreate(c) \/ CommitSubmit(c) \/ CommitApprove(c)
    \/ \E k \in Scans, targets \in SUBSET Assets : OpenScan(c, k, targets)
    \/ GateScan(c)
    \/ CommitScan(c)

ScopeNext ==
    \/ \E c \in Clients : ScopeCall(c)
    \/ \E a \in Assets, s \in AssetStates : AssetMoves(a, s)
    \/ \E k \in Scans : ScanCompletes(k)

-----------------------------------------------------------------------------
(* Properties.                                                             *)

\* The versions of a set are numbered 1, 2, 3, ... without gap or repetition,
\* although two calls may compute the same number, so "the latest approved
\* version" that every gate relies on is one version.
NumbersDense ==
    \A s \in Sets :
        /\ {version[v].number : v \in Rows(s)} = 1 .. Cardinality(Rows(s))
        /\ \A v, w \in Rows(s) : version[v].number = version[w].number => v = w

\* Each target of a scan created in prod is an item of a version that an
\* audited approval names, even though approvals, submissions and gates of
\* other calls interleave with the scan's creation.
BackedByApproval ==
    Prod => \A k \in Scans : \A a \in scan[k].targets :
        \E v \in approvals : a \in version[v].items
===============================================================================
