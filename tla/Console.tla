-------------------------------- MODULE Console --------------------------------
(***************************************************************************)
(* A browser tab on the two pages that govern scans: the scope page, where *)
(* versions are created, submitted and approved, and the scanners page,    *)
(* which runs a scan of an approved version.  Behind them are the services *)
(* of ScopeControl and the one that issues authorizations.                 *)
(*                                                                         *)
(* A page shows the versions as of its last refresh.  It offers what that  *)
(* list allows and disables a button while the call of that button is in   *)
(* flight.  An answer may be lost: the page reports a failure and enables  *)
(* the button again, while the call goes on.  Calls of other tabs and      *)
(* users are calls nobody on this tab waits for.                           *)
(***************************************************************************)
EXTENDS ScopeControl

CONSTANT MaxOthers \* a bound for TLC: with that many calls in progress that this tab
                   \* does not wait for, others do not make one more

VARIABLES authorized, \* the versions that have an Authorization row
          page,       \* the page the tab is on
          call,       \* the request each client carries
          listed,     \* what the page shows of each version
          refreshing, \* router.refresh() was called
          selected,   \* the version chosen on the scanners page
          \* History.
          forsaken    \* versions with a submission that this tab did not wait for

desk == <<page, listed, refreshing, selected>>
vars == <<scopeVars, authorized, call, desk, forsaken>>

-----------------------------------------------------------------------------
Pages == {"scope", "scanners"}
NoCall == [from |-> "nobody", op |-> "none", stage |-> "none"]

Requests ==
    [op : {"version"}, set : Sets, chosen : SUBSET Assets]
    \cup [op : {"submit", "approve", "authorize"}, v : Versions]
    \cup [op : {"scan"}, targets : SUBSET Assets]

Calls == {NoCall} \cup [from : {"desk", "nobody"}, stage : {"sent", "done"},
                        request : Requests]

DeskTxs == ScopeTxs \cup [op : {"authorize"}, v : Versions, existing : {"yes", "no"}]

TypeOK ==
    /\ ScopeTypeOK
    /\ tx \in [Clients -> DeskTxs]
    /\ authorized \subseteq Versions
    /\ page \in Pages
    /\ call \in [Clients -> Calls]
    /\ listed \in [Versions -> VersionStates]
    /\ refreshing \in {"no", "yes"}
    /\ selected \in Versions \cup {NoVersion}
    /\ forsaken \subseteq Versions

Init ==
    /\ ScopeInit
    /\ authorized = {}
    /\ page = "scope"
    /\ call = [c \in Clients |-> NoCall]
    /\ listed = [v \in Versions |-> "none"]
    /\ refreshing = "no"
    /\ selected = NoVersion
    /\ forsaken = {}

-----------------------------------------------------------------------------
(* issueAuthorization.                                                     *)

\* The version is read in a transaction of its own, and then the row it may
\* have already, which is signed anew.
OpenAuthorize(c, v) ==
    /\ version[v].status = "approved"
    /\ Open(c, [op |-> "authorize", v |-> v,
                existing |-> IF v \in authorized THEN "yes" ELSE "no"])
    /\ UNCHANGED <<asset, version, approvals, scan, authorized>>

\* scopeVersionId is unique: of two calls that found no row, one inserts it.
CommitAuthorize(c) ==
    /\ tx[c].op = "authorize"
    /\ tx[c].existing = "no" => tx[c].v \notin authorized
    /\ authorized' = authorized \cup {tx[c].v}
    /\ Close(c)
    /\ UNCHANGED <<asset, version, approvals, scan>>

-----------------------------------------------------------------------------
(* Calls.                                                                  *)

Send(c, from, request) ==
    /\ call[c] = NoCall /\ tx[c] = Idle
    /\ call' = [call EXCEPT ![c] = [from |-> from, stage |-> "sent", request |-> request]]

Awaited == {call[c].request : c \in {d \in Clients : call[d] # NoCall /\ call[d].from = "desk"}}

Sent(c, op) == call[c].stage = "sent" /\ call[c].request.op = op

Reply(c) ==
    call' = [call EXCEPT ![c] = IF call[c].from = "nobody" THEN NoCall
                                ELSE [call[c] EXCEPT !.stage = "done"]]

\* What becomes of a call when nobody waits for it any more.
Forsaken(r) == IF r.stage = "sent" THEN [r EXCEPT !.from = "nobody"] ELSE NoCall

SubmissionsOf(cs) ==
    {v \in Versions : \E c \in cs : Sent(c, "submit") /\ call[c].request.v = v}

\* The service reads; a scan is gated once for each of its targets.
Serve(c) ==
    /\ call[c].stage = "sent"
    /\ LET r == call[c].request IN
       \/ /\ \/ /\ r.op = "version"
                /\ \E v \in Versions : SetOf[v] = r.set /\ OpenCreate(c, v, r.chosen)
             \/ r.op = "submit" /\ OpenSubmit(c, r.v)
             \/ r.op = "approve" /\ OpenApprove(c, r.v)
             \/ r.op = "scan" /\ \E k \in Scans : OpenScan(c, k, r.targets)
             \/ GateScan(c)
          /\ UNCHANGED authorized
       \/ r.op = "authorize" /\ OpenAuthorize(c, r.v)
    /\ UNCHANGED <<call, desk, forsaken>>

\* The service commits and answers.
Finish(c) ==
    /\ \/ /\ CommitCreate(c) \/ CommitSubmit(c) \/ CommitApprove(c) \/ CommitScan(c)
          /\ UNCHANGED authorized
       \/ CommitAuthorize(c)
    /\ Reply(c)
    /\ UNCHANGED <<desk, forsaken>>

\* A guard, an index, the database or the network refuses the call, and the
\* page reports it.
Refuse(c) ==
    /\ call[c].stage = "sent"
    /\ \/ Rollback(c)
       \/ tx[c] = Idle /\ UNCHANGED scopeVars
    /\ call' = [call EXCEPT ![c] = NoCall]
    /\ UNCHANGED <<authorized, desk, forsaken>>

\* What other tabs and users ask for, at these pages as well: their scanners page
\* has listed the version of a scan as approved, however long ago.
OthersRequests ==
    [op : {"version"}, set : Sets, chosen : SUBSET Assets \ {{}}]
    \cup [op : {"submit", "approve", "authorize"}, v : Versions]
    \cup [op : {"scan"}, targets : {version[v].items : v \in approvals} \ {{}}]

\* Of another tab or user.
Elsewhere(c) ==
    /\ Cardinality({d \in Clients : call[d] # NoCall /\ call[d].from = "nobody"}) < MaxOthers
    /\ \E r \in OthersRequests :
          /\ Send(c, "nobody", r)
          /\ forsaken' = IF r.op = "submit" THEN forsaken \cup {r.v} ELSE forsaken
    /\ UNCHANGED <<scopeVars, authorized, desk>>

-----------------------------------------------------------------------------
(* The pages.                                                              *)

\* Mutant: the page does not look whether a version is approved.
ShownAll(p) == [v \in Versions |-> version[v].status]

\* What the server renders: the scanners page lists the approved versions only.
Shown(p) ==
    [v \in Versions |-> IF p = "scope" \/ version[v].status = "approved"
                        THEN version[v].status ELSE "none"]

\* The chosen assets may have been retired since they were ticked; one
\* creation at a time for each set.
ClickCreateVersion(c, s, chosen) ==
    /\ page = "scope"
    /\ chosen # {}
    /\ ~ \E r \in Awaited : r.op = "version" /\ r.set = s
    /\ Send(c, "desk", [op |-> "version", set |-> s, chosen |-> chosen])

\* The button that goes with the status shown.
Offers(v, route) ==
    \/ listed[v] = "draft" /\ route = "submit"
    \/ listed[v] = "submitted" /\ route = "approve"

\* Mutant: the buttons stay enabled while their call is in flight.
ClickTransitionAgain(c, v, route) ==
    /\ page = "scope"
    /\ Offers(v, route)
    /\ Send(c, "desk", [op |-> route, v |-> v])

\* transition.
ClickTransition(c, v, route) ==
    /\ page = "scope"
    /\ Offers(v, route)
    /\ ~ \E r \in Awaited : r.op \in {"submit", "approve"} /\ r.v = v
    /\ Send(c, "desk", [op |-> route, v |-> v])

\* A version that is no longer listed stays selected, but cannot be run.
ClickRun(c) ==
    /\ page = "scanners"
    /\ selected # NoVersion /\ listed[selected] # "none"
    /\ version[selected].items # {}
    /\ ~ \E r \in Awaited : r.op = "scan"
    /\ Send(c, "desk", [op |-> "scan", targets |-> version[selected].items])

Click(c) ==
    /\ \/ \E s \in Sets, chosen \in SUBSET Assets : ClickCreateVersion(c, s, chosen)
       \/ \E v \in Versions, route \in {"submit", "approve"} : ClickTransition(c, v, route)
       \/ ClickRun(c)
    /\ UNCHANGED <<scopeVars, authorized, desk, forsaken>>

Select(v) ==
    /\ page = "scanners" /\ listed[v] # "none"
    /\ selected' = v
    /\ UNCHANGED <<scopeVars, authorized, call, page, listed, refreshing, forsaken>>

\* The page that waits hears of its success.
Answer(c) ==
    /\ call[c].stage = "done"
    /\ refreshing' = "yes"
    /\ call' = [call EXCEPT ![c] = NoCall]
    /\ UNCHANGED <<scopeVars, authorized, page, listed, selected, forsaken>>

\* The connection breaks; the page reports a failure and does not refresh.
Lose(c) ==
    /\ call[c] # NoCall /\ call[c].from = "desk"
    /\ call' = [call EXCEPT ![c] = Forsaken(call[c])]
    /\ forsaken' = forsaken \cup SubmissionsOf({c})
    /\ UNCHANGED <<scopeVars, authorized, desk>>

Refresh ==
    /\ refreshing = "yes"
    /\ listed' = Shown(page)
    /\ refreshing' = "no"
    /\ UNCHANGED <<scopeVars, authorized, call, page, selected, forsaken>>

\* The approved version that was created last, of whichever set; "" if none is.
Newest(shown) ==
    LET approved == {v \in Versions : shown[v] # "none"} IN
    IF approved = {} THEN {NoVersion}
    ELSE {v \in approved : \A w \in approved :
             SetOf[w] = SetOf[v] => version[w].number <= version[v].number}

\* A page is opened, or loaded anew.
Visit(p) ==
    /\ page' = p
    /\ listed' = Shown(p)
    /\ refreshing' = "no"
    /\ selected' \in IF p = "scanners" THEN Newest(Shown(p)) ELSE {NoVersion}
    /\ call' = [c \in Clients |-> Forsaken(call[c])]
    /\ forsaken' = forsaken \cup SubmissionsOf({c \in Clients : call[c].stage = "sent"})
    /\ UNCHANGED <<scopeVars, authorized>>

-----------------------------------------------------------------------------
\* The asset registry goes on (module AssetRegistry); without the gate only the
\* retirement of an asset is looked at.
Registry ==
    /\ \E a \in Assets, s \in IF Prod THEN AssetStates ELSE {"retired"} : AssetMoves(a, s)
    /\ UNCHANGED <<authorized, call, desk, forsaken>>

Next ==
    \/ \E c \in Clients :
          \/ Click(c) \/ Serve(c) \/ Finish(c) \/ Refuse(c)
          \/ Answer(c) \/ Lose(c) \/ Elsewhere(c)
    \/ \E v \in Versions : Select(v)
    \/ Refresh
    \/ \E p \in Pages : Visit(p)
    \/ Registry

Spec == Init /\ [][Next]_vars

-----------------------------------------------------------------------------
(* What was approved stays approved, and what was authorized was approved, *)
(* if every submission was waited for on this tab.  submitScopeVersion     *)
(* updates by id whatever the version has become, so it is the buttons,    *)
(* disabled one version at a time, that keep submissions from overlapping. *)
ApprovalStands ==
    /\ authorized \subseteq approvals
    /\ \A v \in approvals \ forsaken : version[v].status = "approved"

(* A scan that is run from the scanners page has all targets of a version  *)
(* with an audited approval, and no other, also where the service has no   *)
(* gate: "Scans can only run against approved scope versions."  The page   *)
(* goes by a list that may be behind, but approvals are not taken back.    *)
RunsApprovedScope ==
    \A k \in Scans : scan[k].status # "none" =>
        \E v \in approvals : scan[k].targets = version[v].items
================================================================================
