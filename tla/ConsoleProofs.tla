----------------------------- MODULE ConsoleProofs -----------------------------
(***************************************************************************)
(* What the two pages keep for any number of assets, scope sets, versions, *)
(* scans and calls, with the gate of prod and without it.                  *)
(*                                                                         *)
(* The invariant follows a call from the button to the commit.  A version  *)
(* whose submissions were all waited for has at most one on the way, which *)
(* finds it a draft; so its status only goes forward.  A scan carries the  *)
(* items of a version that was listed as approved, and the items of a      *)
(* version do not change.                                                  *)
(*                                                                         *)
(* In the end the tab is shown to be a user of the service that ReportGate *)
(* models.                                                                 *)
(***************************************************************************)
EXTENDS Console, TLAPS

\* The sets of targets that an audited approval names.
ApprovedItems == {version[v].items : v \in approvals}

RowInv ==
    /\ Approved \subseteq approvals
    /\ \A v \in approvals : version[v].status # "none"
    /\ ApprovalStands
    /\ RunsApprovedScope

PageInv == page = "scanners" => {v \in Versions : listed[v] # "none"} \subseteq approvals

Submits(c, v) == Sent(c, "submit") /\ call[c].request.v = v

\* One submission at a time, and it is waited for.
Sole == \A v \in Versions \ forsaken : \A c, d \in Clients :
            Submits(c, v) /\ Submits(d, v) => c = d /\ call[c].from = "desk"

CallOk(c) == Sent(c, "scan") => call[c].request.targets \in ApprovedItems

TxOk(c) ==
    /\ tx[c] # Idle => call[c].stage = "sent"
    /\ tx[c].op = "submit" =>
          /\ Submits(c, tx[c].v)
          /\ tx[c].v \notin forsaken => version[tx[c].v].status = "draft"
    /\ tx[c].op = "approve" =>
          (tx[c].v \notin forsaken => version[tx[c].v].status \in {"submitted", "approved"})
    /\ tx[c].op = "authorize" => tx[c].v \in approvals
    /\ tx[c].op = "scan" => tx[c].targets \in ApprovedItems

Inv ==
    /\ TypeOK
    /\ RowInv
    /\ PageInv
    /\ Sole
    /\ \A c \in Clients : CallOk(c) /\ TxOk(c)

-----------------------------------------------------------------------------
(* Types.                                                                  *)

LEMMA CallTyped ==
    ASSUME TypeOK, NEW c \in Clients, call[c].stage \in {"sent", "done"} \/ call[c] # NoCall
    PROVE  /\ call[c] # NoCall
           /\ call[c] \in [from : {"desk", "nobody"}, stage : {"sent", "done"},
                           request : Requests]
BY DEF TypeOK, Calls, NoCall

LEMMA RequestTyped ==
    ASSUME NEW r \in Requests
    PROVE  /\ r.op = "version" => r.set \in Sets /\ r.chosen \in SUBSET Assets
           /\ r.op \in {"submit", "approve", "authorize"} => r.v \in Versions
           /\ r.op = "scan" => r.targets \in SUBSET Assets
BY DEF Requests

LEMMA TxTyped ==
    ASSUME TypeOK, NEW c \in Clients
    PROVE  /\ tx[c].op = "create" =>
                 /\ tx[c].v \in Versions
                 /\ tx[c].number \in Nat
                 /\ tx[c].items \in SUBSET Assets
           /\ tx[c].op \in {"submit", "approve", "authorize"} => tx[c].v \in Versions
           /\ tx[c].op = "scan" =>
                 /\ tx[c].k \in Scans
                 /\ tx[c].targets \in SUBSET Assets
                 /\ tx[c].left \in SUBSET Assets
<1>1. tx[c] \in DeskTxs
  BY DEF TypeOK
<1> QED BY <1>1 DEF DeskTxs, ScopeTxs, Idle

LEMMA InitTyped == Init => TypeOK
BY DEF Init, ScopeInit, TypeOK, ScopeTypeOK, NoScopeVersion, NoScan, DeskTxs, ScopeTxs,
   VersionStates, ScanStates, AssetStates, Pages, Calls

LEMMA IdleTyped ==
    ASSUME TypeOK, NEW c \in Clients
    PROVE  [tx EXCEPT ![c] = Idle] \in [Clients -> DeskTxs]
BY DEF TypeOK, DeskTxs, ScopeTxs

\* What the services write.
LEMMA ServeTyped ==
    ASSUME TypeOK, NEW c \in Clients, Serve(c)
    PROVE  ScopeTypeOK' /\ tx' \in [Clients -> DeskTxs]
<1>0. /\ ScopeTypeOK
      /\ tx \in [Clients -> DeskTxs]
      /\ call[c].request \in Requests
  BY CallTyped DEF TypeOK, Serve
<1>1. ASSUME NEW v \in Versions, NEW chosen \in SUBSET Assets, OpenCreate(c, v, chosen)
      PROVE  ScopeTypeOK' /\ tx' \in [Clients -> DeskTxs]
  <2>1. PICK last \in LastNumber(SetOf[v]) :
            tx' = [tx EXCEPT ![c] = [op |-> "create", v |-> v, number |-> last + 1,
                                     items |-> {a \in chosen : asset[a] # "retired"}]]
    BY <1>1 DEF OpenCreate, Open
  <2>2. last \in Nat
    BY <1>0 DEF LastNumber, Rows, ScopeTypeOK
  <2>3. [op |-> "create", v |-> v, number |-> last + 1,
         items |-> {a \in chosen : asset[a] # "retired"}] \in DeskTxs
    BY <2>2 DEF ScopeTxs, DeskTxs
  <2> QED BY <1>0, <1>1, <2>1, <2>3 DEF OpenCreate, ScopeTypeOK
<1>2. ASSUME NEW v \in Versions, OpenSubmit(c, v) \/ OpenApprove(c, v)
      PROVE  ScopeTypeOK' /\ tx' \in [Clients -> DeskTxs]
  BY <1>0, <1>2 DEF OpenSubmit, OpenApprove, Open, ScopeTypeOK, ScopeTxs, DeskTxs
<1>3. ASSUME NEW k \in Scans, NEW targets \in SUBSET Assets, OpenScan(c, k, targets)
      PROVE  ScopeTypeOK' /\ tx' \in [Clients -> DeskTxs]
  BY <1>0, <1>3 DEF OpenScan, Open, ScopeTypeOK, ScopeTxs, DeskTxs
<1>4. ASSUME GateScan(c) PROVE ScopeTypeOK' /\ tx' \in [Clients -> DeskTxs]
  <2>1. PICK a \in tx[c].left :
            tx' = [tx EXCEPT ![c] = [op |-> "scan", k |-> tx[c].k, targets |-> tx[c].targets,
                                     left |-> tx[c].left \ {a}]]
    BY <1>0, <1>4 DEF GateScan
  <2>2. [op |-> "scan", k |-> tx[c].k, targets |-> tx[c].targets,
         left |-> tx[c].left \ {a}] \in DeskTxs
    BY <1>4, TxTyped DEF GateScan, ScopeTxs, DeskTxs
  <2> QED BY <1>0, <1>4, <2>1, <2>2 DEF GateScan, ScopeTypeOK
<1>5. ASSUME NEW v \in Versions, OpenAuthorize(c, v)
      PROVE  ScopeTypeOK' /\ tx' \in [Clients -> DeskTxs]
  BY <1>0, <1>5 DEF OpenAuthorize, Open, ScopeTypeOK, DeskTxs
<1> QED BY <1>0, <1>1, <1>2, <1>3, <1>4, <1>5, RequestTyped DEF Serve

LEMMA CommitTyped ==
    ASSUME TypeOK, NEW c \in Clients,
           CommitCreate(c) \/ CommitSubmit(c) \/ CommitApprove(c) \/ CommitScan(c)
    PROVE  ScopeTypeOK' /\ tx' \in [Clients -> DeskTxs]
<1>0. ScopeTypeOK
  BY DEF TypeOK
<1>1. CASE CommitCreate(c)
  <2>1. [status |-> "draft", number |-> tx[c].number, items |-> tx[c].items]
            \in [status : VersionStates, number : Nat, items : SUBSET Assets]
    BY <1>1, TxTyped DEF CommitCreate, VersionStates
  <2> QED BY <1>0, <1>1, <2>1, IdleTyped DEF CommitCreate, Close, ScopeTypeOK
<1>2. CASE CommitSubmit(c) \/ CommitApprove(c)
  <2>1. tx[c].v \in Versions
    BY <1>2, TxTyped DEF CommitSubmit, CommitApprove
  <2>2. version' \in [Versions -> [status : VersionStates, number : Nat, items : SUBSET Assets]]
    BY <1>0, <1>2, <2>1 DEF CommitSubmit, CommitApprove, ScopeTypeOK, VersionStates
  <2>3. approvals' \subseteq Versions
    BY <1>0, <1>2, <2>1 DEF CommitSubmit, CommitApprove, ScopeTypeOK
  <2> QED BY <1>0, <1>2, <2>2, <2>3, IdleTyped DEF CommitSubmit, CommitApprove, Close, ScopeTypeOK
<1>3. CASE CommitScan(c)
  BY <1>0, <1>3, IdleTyped, TxTyped DEF CommitScan, Close, ScopeTypeOK, ScanStates
<1> QED BY <1>1, <1>2, <1>3

\* What becomes of a call.
LEMMA ReplyTyped ==
    ASSUME TypeOK, NEW c \in Clients, call[c].stage = "sent", Reply(c)
    PROVE  call' \in [Clients -> Calls]
BY CallTyped DEF TypeOK, Reply, Calls

LEMMA ForsakenTyped ==
    ASSUME TypeOK, NEW c \in Clients
    PROVE  /\ Forsaken(call[c]) \in Calls
           /\ call[c].stage = "sent" <=> Forsaken(call[c]).stage = "sent"
           /\ call[c].stage = "sent" => Forsaken(call[c]).request = call[c].request
<1>1. CASE call[c].stage = "sent"
  <2>1. call[c] \in [from : {"desk", "nobody"}, stage : {"sent", "done"}, request : Requests]
    BY <1>1, CallTyped
  <2> QED BY <1>1, <2>1 DEF Forsaken, Calls
<1>2. CASE call[c].stage # "sent"
  BY <1>2 DEF Forsaken, Calls, NoCall
<1> QED BY <1>1, <1>2

LEMMA SendTyped ==
    ASSUME TypeOK, NEW c \in Clients, NEW from \in {"desk", "nobody"}, NEW r \in Requests,
           Send(c, from, r)
    PROVE  call' \in [Clients -> Calls]
BY DEF TypeOK, Send, Calls

\* What comes from elsewhere are requests like the tab's own.
LEMMA OthersTyped ==
    ASSUME TypeOK, NEW r \in OthersRequests
    PROVE  r \in Requests
<1>1. \A v \in approvals : version[v].items \in SUBSET Assets
  BY DEF TypeOK, ScopeTypeOK
<1> QED BY <1>1 DEF OthersRequests, Requests

\* Only a call that is under way is answered.
LEMMA FinishesOwn ==
    ASSUME NEW c \in Clients, TxOk(c), Finish(c)
    PROVE  call[c].stage = "sent"
<1>1. tx[c].op # "idle"
  BY DEF Finish, CommitCreate, CommitSubmit, CommitApprove, CommitScan, CommitAuthorize
<1> QED BY <1>1 DEF TxOk, Idle

LEMMA StepTyped == Inv /\ Next => TypeOK'
<1> SUFFICES ASSUME Inv, Next PROVE TypeOK'
  OBVIOUS
<1>0. /\ ScopeTypeOK /\ tx \in [Clients -> DeskTxs] /\ call \in [Clients -> Calls]
      /\ authorized \subseteq Versions /\ forsaken \subseteq Versions
      /\ page \in Pages /\ refreshing \in {"no", "yes"}
      /\ listed \in [Versions -> VersionStates] /\ selected \in Versions \cup {NoVersion}
      /\ version \in [Versions -> [status : VersionStates, number : Nat, items : SUBSET Assets]]
      /\ TypeOK
  BY DEF Inv, TypeOK, ScopeTypeOK
<1>1. \A p : Shown(p) \in [Versions -> VersionStates]
  BY <1>0 DEF Shown, VersionStates
<1>2. ASSUME UNCHANGED scopeVars PROVE ScopeTypeOK' /\ tx' \in [Clients -> DeskTxs]
  BY <1>0, <1>2 DEF scopeVars, ScopeTypeOK
<1>3. ASSUME NEW c \in Clients, Click(c) PROVE TypeOK'
  <2>1. \E r \in Requests : Send(c, "desk", r)
    <3>1. ASSUME NEW s \in Sets, NEW chosen \in SUBSET Assets, ClickCreateVersion(c, s, chosen)
          PROVE  \E r \in Requests : Send(c, "desk", r)
      BY <3>1 DEF ClickCreateVersion, Requests
    <3>2. ASSUME NEW v \in Versions, NEW route \in {"submit", "approve"},
                 ClickTransition(c, v, route)
          PROVE  \E r \in Requests : Send(c, "desk", r)
      <4>1. [op |-> route, v |-> v] \in Requests
        BY DEF Requests
      <4> QED BY <3>2, <4>1 DEF ClickTransition
    <3>3. ASSUME ClickRun(c) PROVE \E r \in Requests : Send(c, "desk", r)
      <4>1. version[selected].items \in SUBSET Assets
        BY <1>0, <3>3 DEF ClickRun
      <4> QED BY <3>3, <4>1 DEF ClickRun, Requests
    <3> QED BY <1>3, <3>1, <3>2, <3>3 DEF Click
  <2>2. call' \in [Clients -> Calls]
    BY <1>0, <2>1, SendTyped
  <2> QED BY <1>0, <1>2, <1>3, <2>2 DEF Click, desk, TypeOK
<1>4. ASSUME NEW c \in Clients, Serve(c) PROVE TypeOK'
  BY <1>0, <1>4, ServeTyped DEF Serve, OpenAuthorize, desk, TypeOK
<1>5. ASSUME NEW c \in Clients, Finish(c) PROVE TypeOK'
  <2>1. call' \in [Clients -> Calls]
    BY <1>0, <1>5, ReplyTyped, FinishesOwn DEF Finish, Inv
  <2>2. CASE CommitAuthorize(c)
    <3>1. tx[c].v \in Versions
      BY <1>0, <2>2, TxTyped DEF CommitAuthorize
    <3>2. ScopeTypeOK' /\ tx' \in [Clients -> DeskTxs] /\ authorized' \subseteq Versions
      BY <1>0, <2>2, <3>1, IdleTyped DEF CommitAuthorize, Close, ScopeTypeOK
    <3> QED BY <1>0, <1>5, <2>1, <3>2 DEF Finish, desk, TypeOK
  <2>3. CASE CommitCreate(c) \/ CommitSubmit(c) \/ CommitApprove(c) \/ CommitScan(c)
    BY <1>0, <1>5, <2>1, <2>2, <2>3, CommitTyped DEF Finish, desk, TypeOK
  <2> QED BY <1>5, <2>2, <2>3 DEF Finish
<1>6. ASSUME NEW c \in Clients, Refuse(c) PROVE TypeOK'
  <2>1. call' \in [Clients -> Calls]
    BY <1>0, <1>6 DEF Refuse, Calls
  <2>2. ScopeTypeOK' /\ tx' \in [Clients -> DeskTxs]
    BY <1>0, <1>2, <1>6, IdleTyped DEF Refuse, Rollback, Close, ScopeTypeOK
  <2> QED BY <1>0, <1>6, <2>1, <2>2 DEF Refuse, desk, TypeOK
<1>7. ASSUME NEW c \in Clients, Answer(c) PROVE TypeOK'
  BY <1>0, <1>2, <1>7 DEF Answer, Calls, TypeOK
<1>8. ASSUME NEW c \in Clients, Lose(c) PROVE TypeOK'
  <2>1. call' \in [Clients -> Calls]
    BY <1>0, <1>8, ForsakenTyped DEF Lose
  <2> QED BY <1>0, <1>2, <1>8, <2>1 DEF Lose, SubmissionsOf, desk, TypeOK
<1>9. ASSUME NEW c \in Clients, Elsewhere(c) PROVE TypeOK'
  <2>1. PICK r \in OthersRequests :
            /\ Send(c, "nobody", r)
            /\ forsaken' = IF r.op = "submit" THEN forsaken \cup {r.v} ELSE forsaken
    BY <1>9 DEF Elsewhere
  <2>2. r \in Requests /\ (r.op = "submit" => r.v \in Versions)
    BY <1>0, OthersTyped, RequestTyped
  <2>3. call' \in [Clients -> Calls]
    BY <1>0, <2>1, <2>2, SendTyped
  <2> QED BY <1>0, <1>2, <1>9, <2>1, <2>2, <2>3 DEF Elsewhere, desk, TypeOK
<1>10. ASSUME NEW v \in Versions, Select(v) PROVE TypeOK'
  BY <1>0, <1>2, <1>10 DEF Select, TypeOK
<1>11. ASSUME Refresh PROVE TypeOK'
  BY <1>0, <1>1, <1>2, <1>11 DEF Refresh, TypeOK
<1>12. ASSUME NEW p \in Pages, Visit(p) PROVE TypeOK'
  <2>1. call' \in [Clients -> Calls]
    BY <1>0, <1>12, ForsakenTyped DEF Visit
  <2>2. selected' \in Versions \cup {NoVersion}
    BY <1>12 DEF Visit, Newest
  <2> QED BY <1>0, <1>1, <1>2, <1>12, <2>1, <2>2 DEF Visit, SubmissionsOf, TypeOK
<1>13. ASSUME Registry PROVE TypeOK'
  <2>1. PICK a \in Assets, s \in AssetStates : AssetMoves(a, s)
    BY <1>13 DEF Registry, AssetStates
  <2>2. ScopeTypeOK' /\ tx' \in [Clients -> DeskTxs]
    BY <1>0, <2>1 DEF AssetMoves, ScopeTypeOK
  <2> QED BY <1>0, <1>13, <2>2 DEF Registry, desk, TypeOK
<1> QED BY <1>3, <1>4, <1>5, <1>6, <1>7, <1>8, <1>9, <1>10, <1>11, <1>12, <1>13 DEF Next
-----------------------------------------------------------------------------
(* What no step takes back.                                                *)

\* Approvals stay audited, the items of an approved version are frozen, and
\* a submission that was not waited for is not forgotten.
Kept ==
    /\ approvals \subseteq approvals'
    /\ forsaken \subseteq forsaken'
    /\ \A v \in approvals : version'[v].items = version[v].items

\* The steps that change a row.
Commits(c) == CommitCreate(c) \/ CommitSubmit(c) \/ CommitApprove(c) \/ CommitScan(c)

LEMMA RowChanges ==
    ASSUME Next
    PROVE  \/ UNCHANGED <<version, approvals, scan, authorized>>
           \/ \E c \in Clients : /\ Finish(c)
                                 /\ UNCHANGED forsaken
                                 /\ \/ Commits(c) /\ UNCHANGED authorized
                                    \/ CommitAuthorize(c)
<1>1. ASSUME NEW c \in Clients, Serve(c)
      PROVE  UNCHANGED <<version, approvals, scan, authorized>>
  BY <1>1 DEF Serve, OpenCreate, OpenSubmit, OpenApprove, OpenScan, GateScan, OpenAuthorize
<1>2. ASSUME NEW c \in Clients, Finish(c)
      PROVE  /\ UNCHANGED forsaken
             /\ (Commits(c) /\ UNCHANGED authorized) \/ CommitAuthorize(c)
  BY <1>2 DEF Finish, Commits
<1>3. ASSUME NEW c \in Clients, Refuse(c)
      PROVE  UNCHANGED <<version, approvals, scan, authorized>>
  BY <1>3 DEF Refuse, Rollback, scopeVars
<1> QED BY <1>1, <1>2, <1>3
        DEF Next, Click, Answer, Lose, Elsewhere, Select, Refresh, Visit, Registry, AssetMoves,
            scopeVars

LEMMA StepKeeps == Inv /\ Next => Kept
<1> SUFFICES ASSUME Inv, Next PROVE Kept
  OBVIOUS
<1>0. /\ version \in [Versions -> [status : VersionStates, number : Nat, items : SUBSET Assets]]
      /\ approvals \subseteq Versions
      /\ \A v \in approvals : version[v].status # "none"
      /\ TypeOK
  BY DEF Inv, RowInv, TypeOK, ScopeTypeOK
<1>1. forsaken \subseteq forsaken'
  BY DEF Next, Click, Serve, Finish, Refuse, Answer, Lose, Elsewhere, Select, Refresh, Visit,
         Registry
<1>2. ASSUME NEW c \in Clients, Commits(c)
      PROVE  /\ approvals \subseteq approvals'
             /\ \A v \in approvals : version'[v].items = version[v].items
  <2>1. CASE CommitCreate(c)
    <3>1. tx[c].v \in Versions
      BY <1>0, <2>1, TxTyped DEF CommitCreate
    <3> QED BY <1>0, <2>1, <3>1 DEF CommitCreate
  <2>2. CASE CommitSubmit(c) \/ CommitApprove(c)
    <3>1. tx[c].v \in Versions
      BY <1>0, <2>2, TxTyped DEF CommitSubmit, CommitApprove
    <3> QED BY <1>0, <2>2, <3>1 DEF CommitSubmit, CommitApprove
  <2>3. CASE CommitScan(c)
    BY <2>3 DEF CommitScan
  <2> QED BY <1>2, <2>1, <2>2, <2>3 DEF Commits
<1>3. ASSUME NEW c \in Clients, CommitAuthorize(c) PROVE UNCHANGED <<version, approvals>>
  BY <1>3 DEF CommitAuthorize
<1> QED BY <1>1, <1>2, <1>3, RowChanges DEF Kept

LEMMA ItemsKept ==
    ASSUME Kept
    PROVE  ApprovedItems \subseteq ApprovedItems'
BY DEF Kept, ApprovedItems

-----------------------------------------------------------------------------
(* The calls.                                                              *)

\* A call that is under way stays as it is, goes on without this tab, is
\* answered or refused; or it has just been sent.
LEMMA CallChanges ==
    ASSUME Inv, Next, NEW c \in Clients
    PROVE  \/ call'[c] = call[c]
           \/ call'[c].stage # "sent" /\ tx'[c] = Idle
           \/ call'[c] = Forsaken(call[c]) /\ SubmissionsOf({c}) \subseteq forsaken'
           \/ call[c] = NoCall /\ tx'[c] = Idle /\ (Click(c) \/ Elsewhere(c))
<1>0. TypeOK /\ TxOk(c) /\ tx \in [Clients -> DeskTxs] /\ call \in [Clients -> Calls]
  BY DEF Inv, TypeOK
<1>1. ASSUME NEW d \in Clients, Click(d) \/ Elsewhere(d)
      PROVE  call'[c] = call[c] \/ (c = d /\ call[c] = NoCall /\ tx'[c] = Idle)
  BY <1>0, <1>1 DEF Click, Elsewhere, ClickCreateVersion, ClickTransition, ClickRun, Send, scopeVars
<1>2. ASSUME NEW d \in Clients, Serve(d) PROVE call'[c] = call[c]
  BY <1>2 DEF Serve
<1>3. ASSUME NEW d \in Clients, Finish(d)
      PROVE  call'[c] = call[c] \/ (call'[c].stage # "sent" /\ tx'[c] = Idle)
  <2>1. d = c => call[c].stage = "sent"
    BY <1>0, <1>3, FinishesOwn
  <2>2. tx' = [tx EXCEPT ![d] = Idle]
    BY <1>3 DEF Finish, CommitCreate, CommitSubmit, CommitApprove, CommitScan, CommitAuthorize,
                Close
  <2>3. CASE d # c
    BY <1>0, <1>3, <2>3 DEF Finish, Reply
  <2>4. CASE d = c
    <3>1. call[c] \in [from : {"desk", "nobody"}, stage : {"sent", "done"}, request : Requests]
      BY <1>0, <2>1, <2>4, CallTyped
    <3> QED BY <1>0, <1>3, <2>2, <2>4, <3>1 DEF Finish, Reply, NoCall
  <2> QED BY <2>3, <2>4
<1>4. ASSUME NEW d \in Clients, Refuse(d)
      PROVE  call'[c] = call[c] \/ (call'[c].stage # "sent" /\ tx'[c] = Idle)
  BY <1>0, <1>4 DEF Refuse, Rollback, Close, NoCall, scopeVars
<1>5. ASSUME NEW d \in Clients, Answer(d)
      PROVE  call'[c] = call[c] \/ (call'[c].stage # "sent" /\ tx'[c] = Idle)
  <2>1. call[d].stage = "done"
    BY <1>5 DEF Answer
  <2> QED BY <1>0, <1>5, <2>1 DEF Answer, NoCall, TxOk, scopeVars
<1>6. ASSUME NEW d \in Clients, Lose(d)
      PROVE  \/ call'[c] = call[c]
             \/ call'[c] = Forsaken(call[c]) /\ SubmissionsOf({c}) \subseteq forsaken'
  BY <1>0, <1>6 DEF Lose
<1>7. ASSUME NEW p \in Pages, Visit(p)
      PROVE  call'[c] = Forsaken(call[c]) /\ SubmissionsOf({c}) \subseteq forsaken'
  <2>1. SubmissionsOf({c}) \subseteq SubmissionsOf({d \in Clients : call[d].stage = "sent"})
    BY DEF SubmissionsOf, Sent
  <2> QED BY <1>7, <2>1 DEF Visit
<1> QED BY <1>1, <1>2, <1>3, <1>4, <1>5, <1>6, <1>7 DEF Next, Select, Refresh, Registry

LEMMA CallStep ==
    ASSUME Inv, Next, Kept, NEW c \in Clients
    PROVE  CallOk(c)'
<1>0. TypeOK /\ CallOk(c) /\ ApprovedItems \subseteq ApprovedItems'
  BY ItemsKept DEF Inv
<1>1. CASE call'[c] = call[c]
  BY <1>0, <1>1 DEF CallOk, Sent
<1>2. CASE call'[c].stage # "sent"
  BY <1>2 DEF CallOk, Sent
<1>3. CASE call'[c] = Forsaken(call[c])
  BY <1>0, <1>3, ForsakenTyped DEF CallOk, Sent
<1>4. ASSUME call[c] = NoCall, Click(c) \/ Elsewhere(c) PROVE CallOk(c)'
  <2>0. call \in [Clients -> Calls]
    BY <1>0 DEF TypeOK
  <2>1. ASSUME NEW s \in Sets, NEW chosen \in SUBSET Assets, ClickCreateVersion(c, s, chosen)
        PROVE  CallOk(c)'
    <3>1. call'[c].request.op = "version"
      BY <2>0, <2>1 DEF ClickCreateVersion, Send
    <3> QED BY <3>1 DEF CallOk, Sent
  <2>2. ASSUME NEW v \in Versions, NEW op \in {"submit", "approve", "authorize"},
               NEW from \in {"desk", "nobody"}, Send(c, from, [op |-> op, v |-> v])
        PROVE  CallOk(c)'
    <3>1. call'[c].request.op = op
      BY <2>0, <2>2 DEF Send
    <3> QED BY <3>1 DEF CallOk, Sent
  <2>3. ASSUME ClickRun(c), UNCHANGED scopeVars PROVE CallOk(c)'
    <3>1. selected \in approvals
      BY <1>0, <2>3 DEF ClickRun, Inv, PageInv, TypeOK
    <3>2. call'[c].request.targets = version[selected].items
      BY <2>0, <2>3 DEF ClickRun, Send
    <3> QED BY <1>0, <3>1, <3>2 DEF CallOk, ApprovedItems
  <2>4. ASSUME NEW r \in OthersRequests, Send(c, "nobody", r), UNCHANGED scopeVars
        PROVE  CallOk(c)'
    <3>1. call'[c].request = r
      BY <2>0, <2>4 DEF Send
    <3>2. r.op = "scan" => r.targets \in ApprovedItems
      BY DEF OthersRequests, ApprovedItems
    <3>3. UNCHANGED <<version, approvals>>
      BY <2>4 DEF scopeVars
    <3> QED BY <3>1, <3>2, <3>3 DEF CallOk, Sent, ApprovedItems
  <2> QED BY <1>4, <2>1, <2>2, <2>3, <2>4 DEF Click, Elsewhere, ClickTransition
<1> QED BY <1>1, <1>2, <1>3, <1>4, CallChanges

\* A submission of a version whose submissions are all waited for has been on
\* the way before, or is one click of this tab.
LEMMA SubmissionSteps ==
    ASSUME Inv, Next, NEW c \in Clients, NEW v \in Versions \ forsaken', Submits(c, v)'
    PROVE  \/ call'[c] = call[c] /\ Submits(c, v)
           \/ call[c] = NoCall /\ ClickTransition(c, v, "submit")
<1>0. TypeOK /\ call \in [Clients -> Calls]
  BY DEF Inv, TypeOK
<1>1. CASE call'[c] = call[c]
  BY <1>1 DEF Submits, Sent
<1>2. ASSUME call'[c] = Forsaken(call[c]), SubmissionsOf({c}) \subseteq forsaken' PROVE FALSE
  <2>1. Submits(c, v)
    BY <1>0, <1>2, ForsakenTyped DEF Submits, Sent
  <2> QED BY <1>2, <2>1 DEF SubmissionsOf, Submits
<1>3. ASSUME Elsewhere(c) PROVE FALSE
  <2>1. PICK r \in OthersRequests :
            /\ Send(c, "nobody", r)
            /\ forsaken' = IF r.op = "submit" THEN forsaken \cup {r.v} ELSE forsaken
    BY <1>3 DEF Elsewhere
  <2>2. call'[c].request = r
    BY <1>0, <2>1 DEF Send
  <2> QED BY <2>1, <2>2 DEF Submits, Sent
<1>4. ASSUME Click(c) PROVE ClickTransition(c, v, "submit")
  <2>1. ASSUME NEW s \in Sets, NEW chosen \in SUBSET Assets, ClickCreateVersion(c, s, chosen)
        PROVE  FALSE
    <3>1. call'[c].request.op = "version"
      BY <1>0, <2>1 DEF ClickCreateVersion, Send
    <3> QED BY <3>1 DEF Submits, Sent
  <2>2. ASSUME NEW w \in Versions, NEW route \in {"submit", "approve"},
               ClickTransition(c, w, route)
        PROVE  w = v /\ route = "submit"
    <3>1. call'[c].request.op = route /\ call'[c].request.v = w
      BY <1>0, <2>2 DEF ClickTransition, Send
    <3> QED BY <3>1 DEF Submits, Sent
  <2>3. ASSUME ClickRun(c) PROVE FALSE
    <3>1. call'[c].request.op = "scan"
      BY <1>0, <2>3 DEF ClickRun, Send
    <3> QED BY <3>1 DEF Submits, Sent
  <2> QED BY <1>4, <2>1, <2>2, <2>3 DEF Click
<1>5. call'[c].stage = "sent"
  BY DEF Submits, Sent
<1> QED BY <1>1, <1>2, <1>3, <1>4, <1>5, CallChanges

LEMMA SoleStep == Inv /\ Next => Sole'
<1> SUFFICES ASSUME Inv, Next, NEW v \in Versions \ forsaken', NEW c \in Clients,
                    NEW d \in Clients, Submits(c, v)', Submits(d, v)'
             PROVE  c = d /\ call'[c].from = "desk"
  BY DEF Sole
<1>0. /\ call \in [Clients -> Calls]
      /\ \A e, f \in Clients : Submits(e, v) /\ Submits(f, v) => e = f /\ call[e].from = "desk"
      /\ \A e \in Clients : call[e] = NoCall => ~ Submits(e, v)
  BY StepKeeps DEF Inv, TypeOK, Sole, Kept, Submits, Sent, NoCall
<1>1. ASSUME NEW e \in Clients, ClickTransition(e, v, "submit")
      PROVE  /\ call'[e].from = "desk"
             /\ \A f \in Clients \ {e} : call'[f] = call[f]
             /\ \A f \in Clients : ~ Submits(f, v)
  <2>1. /\ call'[e].from = "desk"
        /\ \A f \in Clients \ {e} : call'[f] = call[f]
    BY <1>0, <1>1 DEF ClickTransition, Send
  <2>2. ASSUME NEW f \in Clients, Submits(f, v) PROVE FALSE
    <3>1. call[f].from = "desk" /\ call[f] # NoCall
      BY <1>0, <2>2
    <3>2. call[f].request \in Awaited
      BY <3>1 DEF Awaited
    <3>3. call[f].request.op = "submit" /\ call[f].request.v = v
      BY <2>2 DEF Submits, Sent
    <3> QED BY <1>1, <3>2, <3>3 DEF ClickTransition
  <2> QED BY <2>1, <2>2
<1>2. ASSUME NEW e \in Clients, Submits(e, v)'
      PROVE  (call'[e] = call[e] /\ Submits(e, v)) \/ ClickTransition(e, v, "submit")
  BY <1>2, SubmissionSteps
<1>3. ASSUME NEW e \in Clients, NEW f \in Clients \ {e},
             ClickTransition(e, v, "submit"), Submits(f, v)'
      PROVE  FALSE
  <2>1. call'[f] = call[f] /\ ~ Submits(f, v)
    BY <1>1, <1>3
  <2> QED BY <1>3, <2>1 DEF Submits, Sent
<1>4. c = d
  BY <1>0, <1>2, <1>3
<1> QED BY <1>0, <1>1, <1>2, <1>4

-----------------------------------------------------------------------------
(* The versions and the transactions.                                      *)

\* How a version moves that has no forsaken submission: forward.
LEMMA StatusSteps ==
    ASSUME Inv, Next, NEW v \in Versions \ forsaken'
    PROVE  \/ version'[v].status = version[v].status
           \/ version[v].status = "none" /\ version'[v].status = "draft"
           \/ /\ version[v].status = "draft" /\ version'[v].status = "submitted"
              /\ \E c \in Clients : tx[c].op = "submit" /\ tx[c].v = v /\ tx'[c] = Idle
           \/ version[v].status \in {"submitted", "approved"} /\ version'[v].status = "approved"
<1>0. /\ version \in [Versions -> [status : VersionStates, number : Nat, items : SUBSET Assets]]
      /\ tx \in [Clients -> DeskTxs]
      /\ TypeOK
  BY DEF Inv, TypeOK, ScopeTypeOK
<1>1. ASSUME NEW c \in Clients, CommitCreate(c)
      PROVE  \/ version'[v].status = version[v].status
             \/ version[v].status = "none" /\ version'[v].status = "draft"
  BY <1>0, <1>1, TxTyped DEF CommitCreate
<1>2. ASSUME NEW c \in Clients, CommitSubmit(c) \/ CommitApprove(c), UNCHANGED forsaken
      PROVE  \/ version'[v].status = version[v].status
             \/ /\ version[v].status = "draft" /\ version'[v].status = "submitted"
                /\ tx[c].op = "submit" /\ tx[c].v = v /\ tx'[c] = Idle
             \/ version[v].status \in {"submitted", "approved"} /\ version'[v].status = "approved"
  <2>1. tx[c].v \in Versions /\ TxOk(c)
    BY <1>0, <1>2, TxTyped DEF CommitSubmit, CommitApprove, Inv
  <2>2. CASE tx[c].v # v
    BY <1>0, <1>2, <2>1, <2>2 DEF CommitSubmit, CommitApprove
  <2>3. CASE tx[c].v = v /\ CommitSubmit(c)
    BY <1>0, <1>2, <2>1, <2>3 DEF CommitSubmit, Close, TxOk
  <2>4. CASE tx[c].v = v /\ CommitApprove(c)
    BY <1>0, <1>2, <2>1, <2>4 DEF CommitApprove, TxOk
  <2> QED BY <1>2, <2>2, <2>3, <2>4
<1> QED BY <1>1, <1>2, RowChanges DEF Commits, CommitScan, CommitAuthorize

\* A transaction goes on, is over, or the service takes a step for its call.
LEMMA TxChanges ==
    ASSUME Inv, Next, NEW c \in Clients
    PROVE  tx'[c] = tx[c] \/ tx'[c] = Idle \/ Serve(c)
<1>0. tx \in [Clients -> DeskTxs]
  BY DEF Inv, TypeOK
<1>1. ASSUME NEW d \in Clients, Serve(d) PROVE tx'[c] = tx[c] \/ Serve(c)
  <2>1. d # c => tx'[c] = tx[c]
    BY <1>0, <1>1 DEF Serve, OpenCreate, OpenSubmit, OpenApprove, OpenScan, GateScan,
                      OpenAuthorize, Open
  <2> QED BY <1>1, <2>1
<1>2. ASSUME NEW d \in Clients, Finish(d) \/ Refuse(d) PROVE tx'[c] = tx[c] \/ tx'[c] = Idle
  BY <1>0, <1>2 DEF Finish, Refuse, Rollback, CommitCreate, CommitSubmit, CommitApprove,
                    CommitScan, CommitAuthorize, Close, scopeVars
<1> QED BY <1>1, <1>2
        DEF Next, Click, Answer, Lose, Elsewhere, Select, Refresh, Visit, Registry, AssetMoves,
            scopeVars

\* The call of a transaction that goes on is still under way.
LEMMA CallGoesOn ==
    ASSUME Inv, Next, NEW c \in Clients, call[c].stage = "sent", tx'[c] # Idle
    PROVE  call'[c].stage = "sent" /\ call'[c].request = call[c].request
<1>1. call[c] # NoCall /\ TypeOK
  BY DEF NoCall, Inv
<1> QED BY <1>1, CallChanges, ForsakenTyped

LEMMA ServeStep ==
    ASSUME Inv, Next, Kept, NEW c \in Clients, Serve(c)
    PROVE  TxOk(c)'
<1>0. /\ TypeOK /\ TxOk(c) /\ CallOk(c) /\ tx \in [Clients -> DeskTxs]
      /\ ApprovedItems \subseteq ApprovedItems'
      /\ call[c].stage = "sent" /\ UNCHANGED <<call, forsaken, version, approvals>>
      /\ call[c].request \in Requests
  BY ItemsKept, CallTyped
     DEF Inv, TypeOK, Serve, OpenCreate, OpenSubmit, OpenApprove, OpenScan, GateScan, OpenAuthorize
<1>1. ASSUME NEW v \in Versions, NEW chosen \in SUBSET Assets, OpenCreate(c, v, chosen)
      PROVE  TxOk(c)'
  <2>1. tx'[c].op = "create"
    BY <1>0, <1>1 DEF OpenCreate, Open
  <2> QED BY <1>0, <2>1 DEF TxOk
<1>2. ASSUME call[c].request.op = "submit", OpenSubmit(c, call[c].request.v) PROVE TxOk(c)'
  <2>1. /\ tx'[c].op = "submit" /\ tx'[c].v = call[c].request.v
        /\ version[call[c].request.v].status = "draft"
    BY <1>0, <1>2 DEF OpenSubmit, Open
  <2> QED BY <1>0, <1>2, <2>1 DEF TxOk, Submits, Sent
<1>3. ASSUME OpenApprove(c, call[c].request.v) PROVE TxOk(c)'
  <2>1. /\ tx'[c].op = "approve" /\ tx'[c].v = call[c].request.v
        /\ version[call[c].request.v].status = "submitted"
    BY <1>0, <1>3 DEF OpenApprove, Open
  <2> QED BY <1>0, <2>1 DEF TxOk
<1>4. ASSUME call[c].request.op = "scan", NEW k \in Scans, OpenScan(c, k, call[c].request.targets)
      PROVE  TxOk(c)'
  <2>1. tx'[c].op = "scan" /\ tx'[c].targets = call[c].request.targets
    BY <1>0, <1>4 DEF OpenScan, Open
  <2>2. tx'[c].targets \in ApprovedItems'
    BY <1>0, <1>4, <2>1 DEF CallOk, Sent
  <2> QED BY <1>0, <2>1, <2>2 DEF TxOk, ApprovedItems
<1>5. ASSUME GateScan(c) PROVE TxOk(c)'
  <2>1. tx'[c].op = "scan" /\ tx'[c].targets = tx[c].targets
    BY <1>0, <1>5 DEF GateScan
  <2>2. tx'[c].targets \in ApprovedItems'
    BY <1>0, <1>5, <2>1 DEF TxOk, GateScan
  <2> QED BY <1>0, <2>1, <2>2 DEF TxOk, ApprovedItems
<1>6. ASSUME call[c].request.op = "authorize", OpenAuthorize(c, call[c].request.v)
      PROVE  TxOk(c)'
  <2>1. /\ tx'[c].op = "authorize" /\ tx'[c].v = call[c].request.v
        /\ version[call[c].request.v].status = "approved"
    BY <1>0, <1>6 DEF OpenAuthorize, Open
  <2>2. call[c].request.v \in approvals
    BY <1>0, <1>6, <2>1, RequestTyped DEF Inv, RowInv, Approved
  <2> QED BY <1>0, <2>1, <2>2 DEF TxOk
<1> QED BY <1>0, <1>1, <1>2, <1>3, <1>4, <1>5, <1>6, RequestTyped DEF Serve

LEMMA TxStep ==
    ASSUME Inv, Next, Kept, NEW c \in Clients
    PROVE  TxOk(c)'
<1>0. TypeOK /\ TxOk(c) /\ ApprovedItems \subseteq ApprovedItems'
  BY ItemsKept DEF Inv
<1>1. CASE tx'[c] = Idle
  BY <1>1 DEF TxOk, Idle
<1>2. CASE tx'[c] = tx[c] /\ tx'[c] # Idle
  <2>1. /\ call[c].stage = "sent" /\ call'[c].stage = "sent"
        /\ call'[c].request = call[c].request
    BY <1>0, <1>2, CallGoesOn DEF TxOk
  <2>2. tx[c].op = "submit" => Submits(c, tx[c].v)'
    BY <1>0, <1>2, <2>1 DEF TxOk, Submits, Sent
  <2>3. ASSUME tx[c].op = "submit", tx[c].v \notin forsaken'
        PROVE  version'[tx[c].v].status = "draft"
    <3>1. PICK v \in Versions \ forsaken' : v = tx[c].v
      BY <1>0, <2>3, TxTyped
    <3>2. v \notin forsaken /\ version[v].status = "draft"
      BY <1>0, <2>3, <3>1 DEF TxOk, Kept
    <3>3. ASSUME NEW d \in Clients, tx[d].op = "submit", tx[d].v = v, tx'[d] = Idle PROVE FALSE
      <4>1. Submits(c, v) /\ Submits(d, v)
        BY <1>0, <2>3, <3>1, <3>3 DEF TxOk, Inv
      <4>2. c = d
        BY <3>2, <4>1 DEF Inv, Sole
      <4> QED BY <1>2, <3>3, <4>2
    <3> QED BY <3>1, <3>2, <3>3, StatusSteps
  <2>4. ASSUME tx[c].op = "approve", tx[c].v \notin forsaken'
        PROVE  version'[tx[c].v].status \in {"submitted", "approved"}
    <3>1. PICK v \in Versions \ forsaken' : v = tx[c].v
      BY <1>0, <2>4, TxTyped
    <3>2. version[v].status \in {"submitted", "approved"}
      BY <1>0, <2>4, <3>1 DEF TxOk, Kept
    <3> QED BY <3>1, <3>2, StatusSteps
  <2>5. tx[c].op = "authorize" => tx[c].v \in approvals'
    BY <1>0 DEF TxOk, Kept
  <2>6. tx[c].op = "scan" => tx[c].targets \in ApprovedItems'
    BY <1>0 DEF TxOk
  <2> QED BY <1>2, <2>1, <2>2, <2>3, <2>4, <2>5, <2>6 DEF TxOk, Submits, Sent, ApprovedItems
<1>3. CASE Serve(c)
  BY <1>3, ServeStep
<1> QED BY <1>1, <1>2, <1>3, TxChanges

-----------------------------------------------------------------------------
(* The rows and the page.                                                  *)

LEMMA RowStep == Inv /\ Next => RowInv'
<1> SUFFICES ASSUME Inv, Next PROVE RowInv'
  OBVIOUS
<1>0. /\ version \in [Versions -> [status : VersionStates, number : Nat, items : SUBSET Assets]]
      /\ scan \in [Scans -> [status : ScanStates, targets : SUBSET Assets]]
      /\ approvals \subseteq Versions /\ TypeOK /\ RowInv /\ Kept
  BY StepKeeps DEF Inv, TypeOK, ScopeTypeOK
<1>1. ApprovedItems \subseteq ApprovedItems'
  BY <1>0, ItemsKept
<1>2. approvals' \subseteq Versions /\ Versions' = Versions
  BY StepTyped DEF TypeOK, ScopeTypeOK
<1>3. ASSUME NEW c \in Clients, CommitApprove(c)
      PROVE  /\ tx[c].v \in Versions
             /\ approvals' = approvals \cup {tx[c].v}
             /\ version'[tx[c].v].status = "approved"
             /\ \A v \in Versions \ {tx[c].v} : version'[v] = version[v]
  BY <1>0, <1>3, TxTyped DEF CommitApprove
<1>4. ASSUME NEW c \in Clients, CommitCreate(c) \/ CommitSubmit(c)
      PROVE  /\ approvals' = approvals
             /\ \A v \in Versions :
                    version'[v].status = "approved" => version[v].status = "approved"
             /\ \A v \in Versions : version[v].status # "none" => version'[v].status # "none"
  <2>1. tx[c].v \in Versions
    BY <1>0, <1>4, TxTyped DEF CommitCreate, CommitSubmit
  <2> QED BY <1>0, <1>4, <2>1 DEF CommitCreate, CommitSubmit
<1>5. ASSUME NEW v \in approvals' PROVE v \in approvals \/ version'[v].status = "approved"
  BY <1>3, <1>4, <1>5, RowChanges DEF Commits, CommitScan, CommitAuthorize
<1>6. Approved' \subseteq approvals'
  BY <1>0, <1>2, <1>3, <1>4, RowChanges
     DEF Commits, CommitScan, CommitAuthorize, RowInv, Approved
<1>7. \A v \in approvals' : version'[v].status # "none"
  BY <1>0, <1>2, <1>3, <1>4, RowChanges
     DEF Commits, CommitScan, CommitAuthorize, RowInv
<1>8. ApprovalStands'
  <2>1. authorized' \subseteq approvals'
    <3>1. ASSUME NEW c \in Clients, CommitAuthorize(c) PROVE authorized' \subseteq approvals'
      BY <1>0, <3>1 DEF CommitAuthorize, Inv, TxOk, RowInv, ApprovalStands
    <3>2. ASSUME UNCHANGED authorized PROVE authorized' \subseteq approvals'
      BY <1>0, <3>2 DEF Kept, RowInv, ApprovalStands
    <3> QED BY <3>1, <3>2, RowChanges
  <2>2. ASSUME NEW v \in approvals' \ forsaken' PROVE version'[v].status = "approved"
    <3>1. v \in approvals => version[v].status = "approved"
      BY <1>0, <2>2 DEF Kept, RowInv, ApprovalStands
    <3> QED BY <1>2, <1>5, <2>2, <3>1, StatusSteps
  <2> QED BY <2>1, <2>2 DEF ApprovalStands
<1>9. RunsApprovedScope'
  <2> SUFFICES ASSUME NEW k \in Scans, scan'[k].status # "none"
               PROVE  scan'[k].targets \in ApprovedItems'
    BY DEF RunsApprovedScope, ApprovedItems
  <2>1. ASSUME scan'[k] = scan[k] PROVE scan'[k].targets \in ApprovedItems'
    BY <1>0, <1>1, <2>1 DEF RowInv, RunsApprovedScope, ApprovedItems
  <2>2. ASSUME NEW c \in Clients, CommitScan(c) PROVE scan'[k].targets \in ApprovedItems'
    <3>1. tx[c].k \in Scans /\ tx[c].targets \in ApprovedItems
      BY <1>0, <2>2, TxTyped DEF CommitScan, Inv, TxOk
    <3>2. scan'[k] = scan[k] \/ scan'[k].targets = tx[c].targets
      BY <1>0, <2>2, <3>1 DEF CommitScan
    <3> QED BY <1>1, <2>1, <3>1, <3>2
  <2> QED BY <2>1, <2>2, RowChanges
          DEF Commits, CommitCreate, CommitSubmit, CommitApprove, CommitAuthorize
<1> QED BY <1>6, <1>7, <1>8, <1>9 DEF RowInv

LEMMA PageStep == Inv /\ Next => PageInv'
<1> SUFFICES ASSUME Inv, Next PROVE PageInv'
  OBVIOUS
<1>0. PageInv /\ approvals \subseteq approvals' /\ Approved \subseteq approvals
  BY StepKeeps DEF Inv, Kept, RowInv
<1>1. \A v \in Versions : Shown("scanners")[v] # "none" => v \in approvals
  BY <1>0 DEF Shown, Approved
<1>2. CASE UNCHANGED <<page, listed>>
  BY <1>0, <1>2 DEF PageInv
<1>3. CASE Refresh
  BY <1>0, <1>1, <1>3 DEF Refresh, PageInv
<1>4. ASSUME NEW p \in Pages, Visit(p) PROVE PageInv'
  BY <1>0, <1>1, <1>4 DEF Visit, PageInv
<1> QED BY <1>2, <1>3, <1>4
        DEF Next, Click, Serve, Finish, Refuse, Answer, Lose, Elsewhere, Select, Registry, desk

-----------------------------------------------------------------------------
\* The invariant holds in every state.
THEOREM Invariance == Spec => []Inv
<1>1. Init => Inv
  BY InitTyped DEF Init, ScopeInit, Inv, RowInv, PageInv, Sole, Submits, Sent, CallOk, TxOk, Idle,
     NoCall, Approved, ApprovalStands, RunsApprovedScope, NoScopeVersion, NoScan
<1>2. ASSUME Inv, [Next]_vars PROVE Inv'
  <2>1. CASE UNCHANGED vars
    BY <1>2, <2>1 DEF vars, scopeVars, desk, Inv, TypeOK, ScopeTypeOK, RowInv, PageInv, Sole,
       Submits, Sent, CallOk, TxOk, ApprovedItems, Approved, ApprovalStands, RunsApprovedScope
  <2>2. CASE Next
    <3>1. Kept
      BY <1>2, <2>2, StepKeeps
    <3> QED BY <1>2, <2>2, <3>1, StepTyped, RowStep, PageStep, SoleStep, CallStep, TxStep DEF Inv
  <2> QED BY <1>2, <2>1, <2>2
<1> QED BY <1>1, <1>2, PTL DEF Spec

\* Every variable keeps its type, calls in flight included.
THEOREM TypeCorrect == Spec => []TypeOK
<1>1. Inv => TypeOK
  BY DEF Inv
<1> QED BY <1>1, Invariance, PTL

\* What was approved stays approved unless this tab lost sight of a submission.
THEOREM ApprovalStandsHolds == Spec => []ApprovalStands
<1>1. Inv => ApprovalStands
  BY DEF Inv, RowInv
<1> QED BY <1>1, Invariance, PTL

\* A scan run from the scanners page has the targets of an approved version.
THEOREM RunsApprovedScopeHolds == Spec => []RunsApprovedScope
<1>1. Inv => RunsApprovedScope
  BY DEF Inv, RowInv
<1> QED BY <1>1, Invariance, PTL

-----------------------------------------------------------------------------
(* The tab and the service.  Authorizations are issued in transactions of  *)
(* their own kind, which the rest of the service does not see.             *)

Governing == [c \in Clients |-> IF tx[c].op = "authorize" THEN Idle ELSE tx[c]]

Service == INSTANCE ReportGate WITH
    Builders <- {}, Staff <- {}, tx <- Governing,
    reportStatus <- [k \in Scans |-> "none"],
    reportLink <- [k \in Scans |-> NoVersion],
    attestation <- [k \in Scans |-> "none"]

\* A transaction of one client is opened, moved on or closed.
LEMMA GoverningSteps ==
    ASSUME TypeOK, NEW c \in Clients, NEW q, tx' = [tx EXCEPT ![c] = q]
    PROVE  /\ q.op # "authorize" => Governing' = [Governing EXCEPT ![c] = q]
           /\ q.op = "authorize" => Governing' = [Governing EXCEPT ![c] = Idle]
           /\ tx[c].op # "authorize" => Governing[c] = tx[c]
           /\ tx[c].op = "authorize" => Governing[c] = Idle
           /\ Idle.op = "idle"
<1>1. tx'[c] = q /\ \A d \in Clients : d # c => tx'[d] = tx[d]
  BY DEF TypeOK
<1>2. ASSUME NEW r, r = IF q.op = "authorize" THEN Idle ELSE q
      PROVE  Governing' = [Governing EXCEPT ![c] = r]
  BY <1>1, <1>2 DEF Governing
<1> QED BY <1>2 DEF Governing, Idle

\* The steps of the service, seen so.
LEMMA ServeRefines ==
    ASSUME TypeOK, NEW c \in Clients, Serve(c)
    PROVE  Service!ScopeNext \/ UNCHANGED Service!scopeVars
<1>0. call[c].request \in Requests
  BY CallTyped DEF Serve
<1> USE GoverningSteps DEF Service!ScopeNext, Service!ScopeCall, Idle, Service!Idle
<1>1. ASSUME NEW v \in Versions, NEW chosen \in SUBSET Assets, OpenCreate(c, v, chosen)
      PROVE  Service!OpenCreate(c, v, chosen)
  <2>1. PICK last \in LastNumber(SetOf[v]) :
           Open(c, [op |-> "create", v |-> v, number |-> last + 1,
                    items |-> {a \in chosen : asset[a] # "retired"}])
    BY <1>1 DEF OpenCreate
  <2>2. Service!Open(c, [op |-> "create", v |-> v, number |-> last + 1,
                         items |-> {a \in chosen : asset[a] # "retired"}])
    BY <2>1 DEF Open, Service!Open
  <2>3. last \in Service!LastNumber(SetOf[v])
    BY DEF LastNumber, Rows, Service!LastNumber, Service!Rows
  <2> QED BY <1>1, <2>2, <2>3 DEF OpenCreate, Service!OpenCreate
<1>2. ASSUME NEW v \in Versions, OpenSubmit(c, v)
      PROVE  Service!OpenSubmit(c, v)
  BY <1>2 DEF OpenSubmit, Open, Service!OpenSubmit, Service!Open
<1>3. ASSUME NEW v \in Versions, OpenApprove(c, v)
      PROVE  Service!OpenApprove(c, v)
  BY <1>3 DEF OpenApprove, Open, Service!OpenApprove, Service!Open
<1>4. ASSUME NEW k \in Scans, NEW targets \in SUBSET Assets, OpenScan(c, k, targets)
      PROVE  Service!OpenScan(c, k, targets)
  BY <1>4 DEF OpenScan, Open, Service!OpenScan, Service!Open
<1>5. ASSUME GateScan(c)
      PROVE  Service!GateScan(c)
  <2>1. PICK a \in tx[c].left :
           /\ InApprovedScope(a)
           /\ tx' = [tx EXCEPT ![c] = [op |-> "scan", k |-> tx[c].k, targets |-> tx[c].targets,
                                       left |-> tx[c].left \ {a}]]
    BY <1>5 DEF GateScan, TypeOK
  <2>2. Governing[c] = tx[c] /\ tx[c].op = "scan"
    BY <1>5, <2>1 DEF GateScan
  <2>3. Governing' = [Governing EXCEPT ![c] = [op |-> "scan", k |-> tx[c].k,
                                  targets |-> tx[c].targets, left |-> tx[c].left \ {a}]]
    BY <2>1
  <2>4. Service!InApprovedScope(a)
    BY <2>1 DEF InApprovedScope, LatestApproved, Approved,
                Service!InApprovedScope, Service!LatestApproved, Service!Approved
  <2>5. Governing \in [Clients -> {Governing[d] : d \in Clients}]
    BY DEF Governing
  <2> QED BY <1>5, <2>2, <2>3, <2>4, <2>5 DEF GateScan, Service!GateScan
<1>6. ASSUME NEW v \in Versions, OpenAuthorize(c, v)
      PROVE  UNCHANGED <<Governing, asset, version, approvals, scan>>
  <2>1. Governing' = [Governing EXCEPT ![c] = Idle] /\ Governing[c] = Idle
    BY <1>6 DEF OpenAuthorize, Open
  <2>2. Governing' = Governing
    BY <2>1 DEF Governing
  <2> QED BY <1>6, <2>2 DEF OpenAuthorize
<1> QED BY <1>0, <1>1, <1>2, <1>3, <1>4, <1>5, <1>6, RequestTyped
        DEF Serve, OpenCreate, OpenSubmit, OpenApprove, OpenScan, GateScan, Service!scopeVars

LEMMA CommitRefines ==
    ASSUME TypeOK, NEW c \in Clients,
           Commits(c) \/ CommitAuthorize(c) \/ Rollback(c)
    PROVE  Service!ScopeNext \/ UNCHANGED Service!scopeVars
<1>1. tx' = [tx EXCEPT ![c] = Idle]
  BY DEF Commits, CommitCreate, CommitSubmit, CommitApprove, CommitScan, CommitAuthorize,
         Rollback, Close
<1>2. /\ Governing' = [Governing EXCEPT ![c] = Idle]
      /\ tx[c].op # "authorize" => Governing[c] = tx[c]
      /\ tx[c].op = "authorize" => Governing[c] = Idle
  BY <1>1, GoverningSteps
<1>3. ASSUME tx[c].op = "authorize"
      PROVE  UNCHANGED Governing
  BY <1>2, <1>3 DEF Governing
<1> USE <1>2 DEF Service!ScopeNext, Service!ScopeCall, Idle, Service!Idle, Service!Close
<1>4. CASE CommitCreate(c)
  BY <1>4 DEF CommitCreate, Rows, Service!CommitCreate, Service!Rows
<1>5. CASE CommitSubmit(c) \/ CommitApprove(c) \/ CommitScan(c)
  BY <1>5 DEF CommitSubmit, CommitApprove, CommitScan,
              Service!CommitSubmit, Service!CommitApprove, Service!CommitScan
<1>6. CASE CommitAuthorize(c)
  BY <1>3, <1>6 DEF CommitAuthorize, Service!scopeVars
<1>7. CASE Rollback(c) /\ tx[c].op # "authorize"
  BY <1>7 DEF Rollback, Service!Rollback
<1>8. CASE Rollback(c) /\ tx[c].op = "authorize"
  BY <1>3, <1>8 DEF Rollback, Service!scopeVars
<1> QED BY <1>4, <1>5, <1>6, <1>7, <1>8 DEF Commits

LEMMA StepRefines ==
    ASSUME TypeOK, [Next]_vars
    PROVE  [Service!ScopeNext]_(Service!scopeVars)
<1>1. UNCHANGED scopeVars => UNCHANGED Service!scopeVars
  BY DEF scopeVars, Service!scopeVars, Governing
<1>2. ASSUME NEW c \in Clients, Finish(c)
      PROVE  Service!ScopeNext \/ UNCHANGED Service!scopeVars
  BY <1>2, CommitRefines DEF Finish, Commits
<1>3. ASSUME NEW c \in Clients, Refuse(c)
      PROVE  Service!ScopeNext \/ UNCHANGED Service!scopeVars
  BY <1>1, <1>3, CommitRefines DEF Refuse
<1>4. ASSUME NEW c \in Clients, Serve(c)
      PROVE  Service!ScopeNext \/ UNCHANGED Service!scopeVars
  BY <1>4, ServeRefines
<1>5. Registry => Service!ScopeNext
  <2>1. ASSUME NEW a \in Assets, NEW s \in AssetStates, AssetMoves(a, s)
        PROVE  Service!ScopeNext
    BY <2>1 DEF AssetMoves, Governing, AssetStates, Service!AssetMoves, Service!AssetStates,
                Service!ScopeNext
  <2> QED BY <2>1 DEF Registry, AssetStates
<1>6. ASSUME NEW c \in Clients, Click(c) \/ Answer(c) \/ Lose(c) \/ Elsewhere(c)
      PROVE  UNCHANGED scopeVars
  BY <1>6 DEF Click, Answer, Lose, Elsewhere
<1>7. /\ \A v \in Versions : Select(v) => UNCHANGED scopeVars
      /\ Refresh => UNCHANGED scopeVars
      /\ \A p \in Pages : Visit(p) => UNCHANGED scopeVars
      /\ UNCHANGED vars => UNCHANGED scopeVars
  BY DEF Select, Refresh, Visit, vars
<1> QED BY <1>1, <1>2, <1>3, <1>4, <1>5, <1>6, <1>7 DEF Next

\* The tab's calls, given up or lost in between, are calls of the service that
\* ReportGate models, in which no report is built: so whatever is proved of the
\* scope there (the numbers of versions, the gate of prod) is true of the tab.
THEOREM ConsoleUsesTheService == Spec => Service!Spec
<1>1. Init => Service!Init
  BY DEF Init, ScopeInit, NoScopeVersion, NoScan, Governing, Idle, Service!Init,
         Service!ScopeInit, Service!NoScopeVersion, Service!NoScan, Service!Idle
<1>2. ASSUME TypeOK, [Next]_vars
      PROVE  [Service!Next]_(Service!vars)
  <2>1. UNCHANGED Service!reportVars
    BY DEF Service!reportVars
  <2>2. UNCHANGED Service!scopeVars => UNCHANGED Service!vars
    BY <2>1 DEF Service!vars, Service!scopeVars
  <2> QED BY <1>2, <2>1, <2>2, StepRefines DEF Service!Next
<1> QED BY <1>1, <1>2, TypeCorrect, PTL DEF Spec, Service!Spec
===============================================================================
