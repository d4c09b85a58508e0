--------------------------- MODULE OrganizationProofs ---------------------------
(***************************************************************************)
(* Proofs about Organization, for any users, tokens, invitations and any   *)
(* number of requests in progress.                                         *)
(*                                                                         *)
(* The inductive invariant says what each transaction in progress has read *)
(* that nobody takes back: a revoked session stays revoked, an invitation  *)
(* stays with its offer, the sessions of a member being removed are found  *)
(* or late, and, as long as no two changes of memberships overlapped, the  *)
(* one change in progress spares an owner.  At the end: which overlaps the *)
(* exceptions of the properties are about, and that there are no others.   *)
(***************************************************************************)
EXTENDS Organization, FiniteSetTheorems, TLAPS

owner == "organization_owner"

\* What a request in progress relies on.
Fits(q, sessions, invitations, offers, lates) ==
    /\ q \in Txs
    /\ q.op \in {"arrived", "resolved"} /\ q.past = "revoked" => sessions[q.t] = "revoked"
    /\ q.op = "unblocked" => q.past = "fresh"
    /\ q.op = "admitted" /\ q.registry = "read" => q.past = "fresh"
    /\ q.op = "sweep" =>
          \A t \in Tokens : UserOf[t] = q.u /\ sessions[t] = "live" => t \in q.found \cup lates
    /\ q.op = "accept" => offers[q.i].to = AddressOf[q.u] /\ invitations[q.i] # "none"

TxsFit == \A c \in Clients : Fits(tx[c], session, invitation, offer, late)

ChangeOps == {"setRole", "remove", "sweep"}

\* After the change q an owner is left.
Spares(q, members) ==
    \E w \in Users : /\ members[w] = owner
                     /\ w # q.u \/ (q.op = "setRole" /\ q.role = owner)

Owned ==
    overlapped = "no" =>
        /\ \E w \in Users : member[w] = owner
        /\ \A c \in Clients : tx[c].op \in ChangeOps => Spares(tx[c], member)
        /\ \A c, d \in Clients : tx[c].op \in ChangeOps /\ tx[d].op \in ChangeOps => c = d

Inv == TypeOK /\ TxsFit /\ Owned /\ SweptUnlessLate /\ InvitationBinds

\* What no step takes back of the rows.
Keeps ==
    /\ \A t \in Tokens :
          /\ session[t] = "revoked" => session'[t] = "revoked"
          /\ session'[t] = "live" =>
                session[t] = "live" \/ t \in late' \/ ~ Sweeping(UserOf[t])
    /\ late \subseteq late'
    /\ \A i \in Invites : invitation[i] # "none" => invitation'[i] # "none" /\ offer'[i] = offer[i]

-------------------------------------------------------------------------------
\* The fields of a transaction, by its operation.
LEMMA TxTyped ==
    ASSUME NEW q \in Txs
    PROVE  /\ q.op \in {"idle", "arrived", "resolved", "unblocked", "admitted", "setRole",
                        "remove", "sweep", "revoke", "accept"}
           /\ q.op \in {"arrived", "resolved", "unblocked", "admitted"} =>
                 q.t \in Tokens /\ q.past \in {"fresh", "revoked"}
           /\ q.op \in {"resolved", "unblocked", "admitted"} => q.role \in Roles
           /\ q.op \in ChangeOps => q.u \in Users /\ q.old \in Roles
           /\ q.op = "setRole" => q.role \in Roles
           /\ q.op = "sweep" => q.found \subseteq Tokens
           /\ q.op = "revoke" => q.t \in Tokens
           /\ q.op = "accept" => q.i \in Invites /\ q.u \in Users
<1>1. CASE q = Idle
  BY <1>1 DEF Idle, ChangeOps
<1>2. CASE q \in Requests
  BY <1>2 DEF Requests, ChangeOps
<1>3. CASE q \in Changes
  BY <1>3 DEF Changes, ChangeOps
<1>4. CASE q \in [op : {"revoke"}, t : Tokens]
  BY <1>4 DEF ChangeOps
<1>5. CASE q \in [op : {"accept"}, i : Invites, u : Users]
  BY <1>5 DEF ChangeOps
<1> QED BY <1>1, <1>2, <1>3, <1>4, <1>5 DEF Txs

LEMMA IdleFits ==
    /\ Idle \in Txs /\ Idle.op = "idle"
    /\ Fits(Idle, session, invitation, offer, late)
    /\ Fits(Idle, session', invitation', offer', late')
BY DEF Txs, Idle, Fits

LEMMA NoRoleIsNone == NoRole \notin Roles /\ owner # NoRole /\ owner \in Roles
BY DEF NoRole, Roles, Operators, Managers, owner

\* A transaction that a step does not touch goes on to fit.
LEMMA StillFits ==
    ASSUME Inv, Keeps, NEW d \in Clients
    PROVE  Fits(tx[d], session', invitation', offer', late')
<1>1. Fits(tx[d], session, invitation, offer, late) /\ tx[d] \in Txs
  BY DEF Inv, TxsFit, Fits
<1>2. CASE tx[d].op = "sweep"
  <2>1. Sweeping(tx[d].u)
    BY <1>2 DEF Sweeping, At
  <2> QED BY <1>1, <1>2, <2>1 DEF Fits, Keeps
<1>3. CASE tx[d].op # "sweep"
  BY <1>1, <1>3, TxTyped DEF Fits, Keeps
<1> QED BY <1>2, <1>3

\* One transaction is replaced by q.
LEMMA OneTx ==
    ASSUME Inv, Keeps, NEW c \in Clients, NEW q, tx' = [tx EXCEPT ![c] = q],
           Fits(q, session', invitation', offer', late')
    PROVE  /\ TxsFit'
           /\ tx' \in [Clients -> Txs] /\ tx'[c] = q
           /\ \A d \in Clients : d # c => tx'[d] = tx[d]
<1>1. /\ tx'[c] = q
      /\ \A d \in Clients : d # c => tx'[d] = tx[d]
  BY DEF Inv, TypeOK
<1>2. q \in Txs
  BY DEF Fits
<1>3. TxsFit'
  BY <1>1, StillFits DEF TxsFit
<1> QED BY <1>1, <1>2, <1>3 DEF Inv, TypeOK

\* A step that leaves memberships alone and opens no change of one.
LEMMA OwnedStays ==
    ASSUME Inv, NEW c \in Clients, NEW q, UNCHANGED <<member, overlapped>>,
           tx'[c] = q, \A d \in Clients : d # c => tx'[d] = tx[d],
           q.op \notin ChangeOps \/ (tx[c].op = "remove" /\ q.op = "sweep" /\ q.u = tx[c].u)
    PROVE  Owned'
<1> SUFFICES ASSUME overlapped = "no" PROVE Owned'
  BY DEF Owned
<1>1. \A d \in Clients : tx'[d].op \in ChangeOps => tx[d].op \in ChangeOps
  BY DEF ChangeOps
<1>2. \A d \in Clients : tx'[d].op \in ChangeOps => Spares(tx'[d], member)
  <2> SUFFICES ASSUME NEW d \in Clients, tx'[d].op \in ChangeOps
               PROVE  Spares(tx'[d], member)
    OBVIOUS
  <2>1. Spares(tx[d], member)
    BY <1>1 DEF Inv, Owned
  <2>2. CASE d = c
    BY <2>1, <2>2 DEF Spares, ChangeOps
  <2>3. CASE d # c
    BY <2>1, <2>3
  <2> QED BY <2>2, <2>3
<1> QED BY <1>1, <1>2 DEF Inv, Owned

\* A step that leaves the rows alone, but for a User row.
LEMMA OneTxOnly ==
    ASSUME Inv, NEW c \in Clients, NEW q, Continue(c, q),
           Fits(q, session, invitation, offer, late), users' \subseteq Users,
           UNCHANGED <<member, session, invitation, offer, history>>,
           q.op \notin ChangeOps \/ (tx[c].op = "remove" /\ q.op = "sweep" /\ q.u = tx[c].u)
    PROVE  Inv'
<1> USE DEF history
<1>1. Keeps
  BY DEF Keeps
<1>2. /\ TxsFit'
      /\ tx' \in [Clients -> Txs] /\ tx'[c] = q
      /\ \A d \in Clients : d # c => tx'[d] = tx[d]
  BY <1>1, OneTx DEF Continue
<1>3. TypeOK' /\ SweptUnlessLate' /\ InvitationBinds'
  BY <1>2 DEF Inv, TypeOK, SweptUnlessLate, InvitationBinds
<1>4. Owned'
  BY <1>2, OwnedStays
<1> QED BY <1>2, <1>3, <1>4 DEF Inv

-------------------------------------------------------------------------------
LEMMA AuthenticateStep ==
    ASSUME Inv, NEW c \in Clients, Authenticate(c)
    PROVE  Inv'
<1> USE DEF rows, history, At
<1>tx. tx[c] \in Txs /\ Fits(tx[c], session, invitation, offer, late)
  BY DEF Inv, TxsFit, Fits
<1>1. ASSUME NEW t \in Tokens, Arrive(c, t)
      PROVE  Inv'
  <2> DEFINE q == [op |-> "arrived", t |-> t, past |-> Past(t)]
  <2>1. users' \subseteq Users
    BY <1>1, OrganizationAssumption DEF Arrive, Provision, Inv, TypeOK
  <2>2. q \in Txs
    BY DEF Txs, Requests, Past
  <2>3. Fits(q, session, invitation, offer, late)
    BY <2>2 DEF Fits, Past
  <2>4. q.op \notin ChangeOps
    BY DEF ChangeOps
  <2> QED BY <1>1, <2>1, <2>3, <2>4, OneTxOnly DEF Arrive
<1>2. CASE Resolve(c)
  <2> DEFINE q == [op |-> "resolved", t |-> tx[c].t, past |-> tx[c].past,
                   role |-> member[UserOf[tx[c].t]]]
  <2>1. tx[c].op = "arrived" /\ member[UserOf[tx[c].t]] # NoRole
    BY <1>2 DEF Resolve
  <2>2. /\ tx[c].t \in Tokens /\ tx[c].past \in {"fresh", "revoked"}
        /\ tx[c].past = "revoked" => session[tx[c].t] = "revoked"
    BY <1>tx, <2>1, TxTyped DEF Fits
  <2>3. member[UserOf[tx[c].t]] \in Roles
    BY <2>1, <2>2, OrganizationAssumption DEF Inv, TypeOK, Memberships
  <2>4. q \in Txs
    BY <2>2, <2>3 DEF Txs, Requests
  <2>5. Fits(q, session, invitation, offer, late) /\ q.op \notin ChangeOps
    BY <2>2, <2>4 DEF Fits, ChangeOps
  <2> QED BY <1>2, <2>5, OneTxOnly DEF Resolve, Inv, TypeOK
<1>3. CASE Check(c)
  <2> DEFINE q == [op |-> "unblocked", t |-> tx[c].t, past |-> tx[c].past, role |-> tx[c].role]
  <2>1. tx[c].op = "resolved" /\ session[tx[c].t] # "revoked"
    BY <1>3 DEF Check
  <2>2. tx[c].t \in Tokens /\ tx[c].past = "fresh" /\ tx[c].role \in Roles
    BY <1>tx, <2>1, TxTyped DEF Fits
  <2>3. q \in Txs
    BY <2>2 DEF Txs, Requests
  <2>4. Fits(q, session, invitation, offer, late) /\ q.op \notin ChangeOps
    BY <2>2, <2>3 DEF Fits, ChangeOps
  <2> QED BY <1>3, <2>4, OneTxOnly DEF Check, Inv, TypeOK
<1>4. CASE Record(c)
  <2> DEFINE t == tx[c].t
             q == [op |-> "admitted", t |-> t, past |-> tx[c].past, role |-> tx[c].role,
                   registry |-> "read"]
  <2>1. tx[c].op = "unblocked"
    BY <1>4 DEF Record
  <2>2. t \in Tokens /\ tx[c].past = "fresh" /\ tx[c].role \in Roles
    BY <1>tx, <2>1, TxTyped DEF Fits
  <2>3. /\ session' = IF session[t] = "none" THEN [session EXCEPT ![t] = "live"] ELSE session
        /\ late' = IF session[t] = "none" /\ Gone(UserOf[t]) THEN late \cup {t} ELSE late
        /\ tx' = [tx EXCEPT ![c] = q]
        /\ UNCHANGED <<users, member, invitation, offer, overlapped, redeemed>>
    BY <1>4 DEF Record, Admit, Continue
  <2>4. /\ session' \in [Tokens -> Sessions] /\ late' \subseteq Tokens /\ late \subseteq late'
        /\ \A s \in Tokens : s # t => session'[s] = session[s]
        /\ session[t] # "none" => session' = session
    BY <2>2, <2>3 DEF Inv, TypeOK, Sessions
  <2>5. session[t] = "none" =>
            t \in late' \/ (~ Sweeping(UserOf[t]) /\ member[UserOf[t]] # NoRole)
    BY <2>3 DEF Gone
  <2>6. Keeps
    BY <2>2, <2>3, <2>4, <2>5 DEF Keeps
  <2>7. q \in Txs
    BY <2>2 DEF Txs, Requests
  <2>8. Fits(q, session', invitation', offer', late') /\ q.op \notin ChangeOps
    BY <2>2, <2>7 DEF Fits, ChangeOps
  <2>9. /\ TxsFit'
        /\ tx' \in [Clients -> Txs] /\ tx'[c] = q
        /\ \A d \in Clients : d # c => tx'[d] = tx[d]
    BY <2>3, <2>6, <2>8, OneTx
  <2>10. Owned'
    BY <2>3, <2>8, <2>9, OwnedStays
  <2>11. TypeOK' /\ InvitationBinds'
    BY <2>3, <2>4, <2>9 DEF Inv, TypeOK, InvitationBinds
  <2>12. SweptUnlessLate'
    BY <2>2, <2>3, <2>4, <2>5 DEF Inv, SweptUnlessLate
  <2> QED BY <2>9, <2>10, <2>11, <2>12 DEF Inv
<1>5. CASE RegistryFails(c)
  <2>1. PICK registry \in {"read", "failed"} :
          /\ \/ tx[c].op = "resolved" /\ registry = "failed"
             \/ tx[c].op = "unblocked" /\ registry = "read"
          /\ Admit(c, registry)
    BY <1>5 DEF RegistryFails
  <2> DEFINE q == [op |-> "admitted", t |-> tx[c].t, past |-> tx[c].past, role |-> tx[c].role,
                   registry |-> registry]
  <2>2. /\ tx[c].t \in Tokens /\ tx[c].past \in {"fresh", "revoked"} /\ tx[c].role \in Roles
        /\ registry = "read" => tx[c].past = "fresh"
    BY <1>tx, <2>1, TxTyped DEF Fits
  <2>3. q \in Txs
    BY <2>2 DEF Txs, Requests
  <2>4. Fits(q, session, invitation, offer, late) /\ q.op \notin ChangeOps
    BY <2>2, <2>3 DEF Fits, ChangeOps
  <2> QED BY <1>5, <2>1, <2>4, OneTxOnly DEF RegistryFails, Admit, Inv, TypeOK
<1> QED BY <1>1, <1>2, <1>3, <1>4, <1>5 DEF Authenticate

-------------------------------------------------------------------------------
\* More than one owner: one beside u.
LEMMA AnotherOwner ==
    ASSUME NEW u, Cardinality(Owners) > 1
    PROVE  \E w \in Owners : w # u
<1> SUFFICES ASSUME \A w \in Owners : w = u PROVE FALSE
  OBVIOUS
<1>1. Owners = {} \/ Owners = {u}
  OBVIOUS
<1>2. Cardinality({u}) = 1 /\ Cardinality({}) = 0
  BY FS_Singleton, FS_EmptySet
<1> QED BY <1>1, <1>2

\* A change begins: its guard spares an owner.
LEMMA OpenChange ==
    ASSUME Inv, NEW c \in Clients, NEW q \in Changes, q.op # "sweep",
           Guard(q.u, IF q.op = "setRole" THEN q.role ELSE NoRole),
           Continue(c, q), NoteOverlap, UNCHANGED <<rows, late, redeemed>>
    PROVE  Inv'
<1> USE DEF rows
<1>1. Keeps
  BY DEF Keeps
<1>2. q \in Txs /\ q.op \in {"setRole", "remove"} /\ q.u \in Users
  BY DEF Txs, Changes
<1>3. Fits(q, session', invitation', offer', late')
  BY <1>2 DEF Fits
<1>4. /\ TxsFit'
      /\ tx' \in [Clients -> Txs] /\ tx'[c] = q
      /\ \A d \in Clients : d # c => tx'[d] = tx[d]
  BY <1>1, <1>3, OneTx DEF Continue
<1>5. overlapped' \in {"no", "yes"}
  BY DEF NoteOverlap, Inv, TypeOK
<1>6. TypeOK' /\ SweptUnlessLate' /\ InvitationBinds'
  BY <1>4, <1>5 DEF Inv, TypeOK, SweptUnlessLate, InvitationBinds
<1>7. Owned'
  <2> SUFFICES ASSUME overlapped' = "no" PROVE Owned'
    BY DEF Owned
  <2>1. overlapped = "no" /\ \A d \in Clients : tx[d].op \notin ChangeOps
    BY DEF NoteOverlap, Changing, At, ChangeOps
  <2>2. \E w \in Users : member[w] = owner
    BY <2>1 DEF Inv, Owned
  <2>3. Spares(q, member)
    <3>1. CASE q.op = "setRole" /\ q.role = owner
      BY <2>2, <3>1 DEF Spares
    <3>2. CASE member[q.u] # owner
      BY <2>2, <3>2 DEF Spares
    <3>3. CASE member[q.u] = owner /\ ~ (q.op = "setRole" /\ q.role = owner)
      <4>1. Cardinality(Owners) > 1
        BY <3>3, NoRoleIsNone DEF Guard, owner
      <4>2. \E w \in Owners : w # q.u
        BY <4>1, AnotherOwner
      <4> QED BY <4>2 DEF Owners, Spares, owner
    <3> QED BY <3>1, <3>2, <3>3
  <2>4. \A d \in Clients : tx'[d].op \in ChangeOps => d = c
    BY <1>4, <2>1
  <2> QED BY <1>4, <2>2, <2>3, <2>4 DEF Owned
<1> QED BY <1>4, <1>6, <1>7 DEF Inv

\* A change ends: nobody else was changing a membership, so the owner it
\* spares is still one.
LEMMA CloseChange ==
    ASSUME Inv, NEW c \in Clients, NEW role \in Memberships, tx[c].op \in ChangeOps,
           tx[c].op = "setRole" => role = tx[c].role,
           member' = [member EXCEPT ![tx[c].u] = role], UNCHANGED overlapped,
           tx'[c].op = "idle", \A d \in Clients : d # c => tx'[d] = tx[d]
    PROVE  Owned'
<1> SUFFICES ASSUME overlapped = "no" PROVE Owned'
  BY DEF Owned
<1>1. /\ Spares(tx[c], member)
      /\ \A d \in Clients : tx[d].op \in ChangeOps => d = c
  BY DEF Inv, Owned
<1>2. \A d \in Clients : tx'[d].op \notin ChangeOps
  BY <1>1 DEF ChangeOps
<1>3. tx[c].u \in Users
  BY TxTyped DEF Inv, TypeOK
<1>4. PICK w \in Users : /\ member[w] = owner
                         /\ w # tx[c].u \/ (tx[c].op = "setRole" /\ tx[c].role = owner)
  BY <1>1 DEF Spares
<1>5. \E x \in Users : member'[x] = owner
  <2>1. CASE w # tx[c].u
    BY <1>4, <2>1 DEF Inv, TypeOK
  <2>2. CASE tx[c].op = "setRole" /\ tx[c].role = owner
    BY <1>3, <2>2 DEF Inv, TypeOK
  <2> QED BY <1>4, <2>1, <2>2
<1> QED BY <1>2, <1>5 DEF Owned

LEMMA PatchMemberStep ==
    ASSUME Inv, NEW c \in Clients, PatchMember(c)
    PROVE  Inv'
<1> USE DEF rows, history, At
<1>1. ASSUME NEW u \in Users, NEW role \in Granted, OpenSetRole(c, u, role)
      PROVE  Inv'
  <2> DEFINE q == [op |-> "setRole", u |-> u, old |-> member[u], role |-> role]
  <2>1. member[u] \in Roles /\ role \in Roles
    BY <1>1, OrganizationAssumption DEF OpenSetRole, Guard, Inv, TypeOK, Memberships
  <2>2. q \in Changes /\ q.op = "setRole"
    BY <2>1 DEF Changes
  <2> QED BY <1>1, <2>2, OpenChange DEF OpenSetRole
<1>2. CASE CommitSetRole(c)
  <2>1. /\ tx[c].op = "setRole"
        /\ member' = [member EXCEPT ![tx[c].u] = tx[c].role]
        /\ tx' = [tx EXCEPT ![c] = Idle]
        /\ UNCHANGED <<users, session, invitation, offer, history>>
    BY <1>2 DEF CommitSetRole, Close, Continue
  <2>2. tx[c].op \in ChangeOps /\ tx[c].u \in Users /\ tx[c].role \in Roles
    BY <2>1, TxTyped DEF Inv, TypeOK, ChangeOps
  <2>3. tx[c].role \in Memberships /\ tx[c].role # NoRole
    BY <2>2, NoRoleIsNone DEF Memberships
  <2>4. Keeps
    BY <2>1 DEF Keeps
  <2>5. /\ TxsFit'
        /\ tx' \in [Clients -> Txs] /\ tx'[c] = Idle
        /\ \A d \in Clients : d # c => tx'[d] = tx[d]
    BY <2>1, <2>4, IdleFits, OneTx
  <2>6. Owned'
    BY <2>1, <2>2, <2>3, <2>5, IdleFits, CloseChange
  <2>7. TypeOK' /\ InvitationBinds'
    BY <2>1, <2>2, <2>3, <2>5 DEF Inv, TypeOK, InvitationBinds
  <2>8. \A u \in Users : member'[u] = NoRole => member[u] = NoRole
    BY <2>1, <2>2, <2>3 DEF Inv, TypeOK
  <2>9. SweptUnlessLate'
    BY <2>1, <2>8, OrganizationAssumption DEF Inv, SweptUnlessLate
  <2> QED BY <2>5, <2>6, <2>7, <2>9 DEF Inv
<1> QED BY <1>1, <1>2 DEF PatchMember

LEMMA DeleteMemberStep ==
    ASSUME Inv, NEW c \in Clients, DeleteMember(c)
    PROVE  Inv'
<1> USE DEF rows, history, At
<1>1. ASSUME NEW u \in Users, OpenRemove(c, u)
      PROVE  Inv'
  <2> DEFINE q == [op |-> "remove", u |-> u, old |-> member[u]]
  <2>1. member[u] \in Roles
    BY <1>1 DEF OpenRemove, Guard, Inv, TypeOK, Memberships
  <2>2. q \in Changes /\ q.op = "remove"
    BY <2>1 DEF Changes
  <2> QED BY <1>1, <2>2, OpenChange DEF OpenRemove
<1>2. CASE Sweep(c)
  <2> DEFINE q == [op |-> "sweep", u |-> tx[c].u, old |-> tx[c].old,
                   found |-> LiveSessionsOf(tx[c].u)]
  <2>1. tx[c].op = "remove" /\ Continue(c, q) /\ UNCHANGED <<rows, history>>
    BY <1>2 DEF Sweep
  <2>2. tx[c].u \in Users /\ tx[c].old \in Roles
    BY <2>1, TxTyped DEF Inv, TypeOK, ChangeOps
  <2>3. q \in Txs
    BY <2>2 DEF Txs, Changes, LiveSessionsOf
  <2>4. Fits(q, session, invitation, offer, late)
    BY <2>3 DEF Fits, LiveSessionsOf
  <2> QED BY <2>1, <2>4, OneTxOnly DEF Inv, TypeOK
<1>3. CASE CommitRemove(c)
  <2> DEFINE u == tx[c].u
  <2>1. /\ tx[c].op = "sweep"
        /\ member' = [member EXCEPT ![u] = NoRole]
        /\ session' = [t \in Tokens |-> IF t \in tx[c].found THEN "revoked" ELSE session[t]]
        /\ tx' = [tx EXCEPT ![c] = Idle]
        /\ UNCHANGED <<users, invitation, offer, history>>
    BY <1>3 DEF CommitRemove, Close, Continue
  <2>2. tx[c].op \in ChangeOps /\ u \in Users
    BY <2>1, TxTyped DEF Inv, TypeOK, ChangeOps
  <2>3. /\ NoRole \in Memberships
        /\ \A t \in Tokens : UserOf[t] = u /\ session[t] = "live" => t \in tx[c].found \cup late
    BY <2>1 DEF Memberships, Inv, TxsFit, Fits
  <2>4. Keeps
    BY <2>1 DEF Keeps
  <2>5. /\ TxsFit'
        /\ tx' \in [Clients -> Txs] /\ tx'[c] = Idle
        /\ \A d \in Clients : d # c => tx'[d] = tx[d]
    BY <2>1, <2>4, IdleFits, OneTx
  <2>6. Owned'
    BY <2>1, <2>2, <2>3, <2>5, IdleFits, CloseChange
  <2>7. TypeOK' /\ InvitationBinds'
    BY <2>1, <2>2, <2>3, <2>5 DEF Inv, TypeOK, InvitationBinds, Sessions
  <2>8. \A x \in Users : x # u => member'[x] = member[x]
    BY <2>1 DEF Inv, TypeOK
  <2>9. SweptUnlessLate'
    <3> SUFFICES ASSUME NEW t \in Tokens, session'[t] = "live", member'[UserOf[t]] = NoRole
                 PROVE  t \in late
      BY <2>1 DEF SweptUnlessLate
    <3>1. session[t] = "live" /\ t \notin tx[c].found /\ UserOf[t] \in Users
      BY <2>1, OrganizationAssumption
    <3>2. CASE UserOf[t] = u
      BY <2>3, <3>1, <3>2
    <3>3. CASE UserOf[t] # u
      BY <2>8, <3>1, <3>3 DEF Inv, SweptUnlessLate
    <3> QED BY <3>2, <3>3
  <2> QED BY <2>5, <2>6, <2>7, <2>9 DEF Inv
<1> QED BY <1>1, <1>2, <1>3 DEF DeleteMember

LEMMA RevokeStep ==
    ASSUME Inv, NEW c \in Clients, Revoke(c)
    PROVE  Inv'
<1> USE DEF rows, history, At
<1>1. ASSUME NEW t \in Tokens, OpenRevoke(c, t)
      PROVE  Inv'
  <2> DEFINE q == [op |-> "revoke", t |-> t]
  <2>1. q \in Txs
    BY DEF Txs
  <2>2. Fits(q, session, invitation, offer, late) /\ q.op \notin ChangeOps
    BY <2>1 DEF Fits, ChangeOps
  <2> QED BY <1>1, <2>2, OneTxOnly DEF OpenRevoke, Inv, TypeOK
<1>2. CASE CommitRevoke(c)
  <2> DEFINE t == tx[c].t
  <2>1. /\ tx[c].op = "revoke"
        /\ session' = [session EXCEPT ![t] = "revoked"]
        /\ tx' = [tx EXCEPT ![c] = Idle]
        /\ UNCHANGED <<users, member, invitation, offer, history>>
    BY <1>2 DEF CommitRevoke, Close, Continue
  <2>2. /\ session' \in [Tokens -> Sessions]
        /\ \A s \in Tokens : session'[s] = session[s] \/ session'[s] = "revoked"
    BY <2>1 DEF Inv, TypeOK, Sessions
  <2>3. Keeps
    BY <2>1, <2>2 DEF Keeps
  <2>4. /\ TxsFit'
        /\ tx' \in [Clients -> Txs] /\ tx'[c] = Idle
        /\ \A d \in Clients : d # c => tx'[d] = tx[d]
    BY <2>1, <2>3, IdleFits, OneTx
  <2>5. Owned'
    BY <2>1, <2>4, IdleFits, OwnedStays DEF ChangeOps
  <2>6. TypeOK' /\ InvitationBinds' /\ SweptUnlessLate'
    BY <2>1, <2>2, <2>4 DEF Inv, TypeOK, InvitationBinds, SweptUnlessLate
  <2> QED BY <2>4, <2>5, <2>6 DEF Inv
<1>3. ASSUME Logout(c)
      PROVE  Inv'
  <2>1. tx[c].t \in Tokens
    BY <1>3, TxTyped DEF Logout, Inv, TypeOK
  <2> QED BY <1>1, <1>3, <2>1 DEF Logout
<1> QED BY <1>1, <1>2, <1>3 DEF Revoke, RevokeSession

-------------------------------------------------------------------------------
LEMMA InviteCallStep ==
    ASSUME Inv, NEW c \in Clients, InviteCall(c)
    PROVE  Inv'
<1> USE DEF rows, history
<1>1. PICK i \in Invites, to \in Addresses, role \in Granted : Invite(c, i, to, role)
  BY DEF InviteCall
<1>2. /\ invitation[i] = "none"
      /\ invitation' = [invitation EXCEPT ![i] = "open"]
      /\ offer' = [offer EXCEPT ![i] = [to |-> to, role |-> role]]
      /\ tx' = [tx EXCEPT ![c] = Idle]
      /\ UNCHANGED <<users, member, session, history>>
  BY <1>1 DEF Invite, Close, Continue
<1>3. /\ invitation' \in [Invites -> Invitations] /\ invitation'[i] = "open"
      /\ \A j \in Invites : j # i => invitation'[j] = invitation[j] /\ offer'[j] = offer[j]
  BY <1>2 DEF Inv, TypeOK, Invitations
<1>4. offer' \in [Invites -> Offers]
  BY <1>2, OrganizationAssumption DEF Inv, TypeOK, Offers
<1>5. Keeps
  BY <1>2, <1>3 DEF Keeps
<1>6. /\ TxsFit'
      /\ tx' \in [Clients -> Txs] /\ tx'[c] = Idle
      /\ \A d \in Clients : d # c => tx'[d] = tx[d]
  BY <1>2, <1>5, IdleFits, OneTx
<1>7. Owned'
  BY <1>2, <1>6, IdleFits, OwnedStays DEF ChangeOps
<1>8. TypeOK' /\ SweptUnlessLate'
  BY <1>2, <1>3, <1>4, <1>6 DEF Inv, TypeOK, SweptUnlessLate
<1>9. redeemed[i] = {}
  BY <1>2 DEF Inv, InvitationBinds
<1>10. InvitationBinds'
  <2> SUFFICES ASSUME NEW j \in Invites
               PROVE  /\ \A u \in redeemed[j] : AddressOf[u] = offer'[j].to
                      /\ \A u, v \in redeemed[j] : u = v
                      /\ invitation'[j] = "accepted" <=> redeemed[j] # {}
    BY <1>2 DEF InvitationBinds
  <2>1. CASE j = i
    BY <1>3, <1>9, <2>1
  <2>2. CASE j # i
    BY <1>3, <2>2 DEF Inv, InvitationBinds
  <2> QED BY <2>1, <2>2
<1> QED BY <1>6, <1>7, <1>8, <1>10 DEF Inv

LEMMA AcceptCallStep ==
    ASSUME Inv, NEW c \in Clients, AcceptCall(c)
    PROVE  Inv'
<1> USE DEF rows, history, At
<1>1. ASSUME NEW i \in Invites, OpenAccept(c, i)
      PROVE  Inv'
  <2> DEFINE q == [op |-> "accept", i |-> i, u |-> UserOf[tx[c].t]]
  <2>1. UserOf[tx[c].t] \in Users
    BY <1>1, TxTyped, OrganizationAssumption DEF OpenAccept, Inv, TypeOK
  <2>2. q \in Txs
    BY <2>1 DEF Txs
  <2>3. Fits(q, session, invitation, offer, late) /\ q.op \notin ChangeOps
    BY <1>1, <2>2 DEF Fits, ChangeOps, OpenAccept
  <2> QED BY <1>1, <2>3, OneTxOnly DEF OpenAccept, Inv, TypeOK
<1>2. CASE CommitAccept(c)
  <2> DEFINE i == tx[c].i
             u == tx[c].u
  <2>1. tx[c].op = "accept" /\ i \in Invites /\ u \in Users
    BY <1>2, TxTyped DEF CommitAccept, Inv, TypeOK
  <2>2. offer[i].to = AddressOf[u] /\ invitation[i] # "none"
    BY <2>1 DEF Inv, TxsFit, Fits
  <2> HIDE DEF i, u
  <2>3. /\ invitation[i] # "accepted" /\ invitation' = [invitation EXCEPT ![i] = "accepted"]
        /\ member[u] = NoRole
        /\ member' = [member EXCEPT ![u] = offer[i].role]
        /\ redeemed' = [redeemed EXCEPT ![i] = redeemed[i] \cup {u}]
        /\ tx' = [tx EXCEPT ![c] = Idle]
        /\ UNCHANGED <<users, session, offer, overlapped, late>>
    BY <1>2 DEF CommitAccept, Claim, Close, Continue, i, u
  <2>4. offer[i].role \in Roles /\ offer[i].role # NoRole
    BY <2>1, NoRoleIsNone DEF Inv, TypeOK, Offers
  <2>5. /\ invitation' \in [Invites -> Invitations] /\ invitation'[i] = "accepted"
        /\ \A j \in Invites : j # i => invitation'[j] = invitation[j]
    BY <2>1, <2>3 DEF Inv, TypeOK, Invitations
  <2>6. Keeps
    BY <2>3, <2>5 DEF Keeps
  <2>7. /\ TxsFit'
        /\ tx' \in [Clients -> Txs] /\ tx'[c] = Idle
        /\ \A d \in Clients : d # c => tx'[d] = tx[d]
    BY <2>3, <2>6, IdleFits, OneTx
  <2>8. /\ member' \in [Users -> Memberships]
        /\ \A w \in Users : member[w] = owner => member'[w] = owner
        /\ \A w \in Users : member'[w] = NoRole => member[w] = NoRole
    BY <2>1, <2>3, <2>4, NoRoleIsNone DEF Inv, TypeOK, Memberships
  <2>9. redeemed[i] = {} /\ redeemed'[i] = {u}
    BY <2>1, <2>3 DEF Inv, TypeOK, InvitationBinds
  <2>10. /\ redeemed' \in [Invites -> SUBSET Users]
         /\ \A j \in Invites : j # i => redeemed'[j] = redeemed[j]
    BY <2>1, <2>3, <2>9 DEF Inv, TypeOK
  <2>11. TypeOK'
    BY <2>3, <2>5, <2>7, <2>8, <2>10 DEF Inv, TypeOK
  <2>12. Owned'
    <3> SUFFICES ASSUME overlapped = "no" PROVE Owned'
      BY <2>3 DEF Owned
    <3>1. \A d \in Clients : tx'[d].op \in ChangeOps => d # c /\ tx'[d] = tx[d]
      BY <2>7, IdleFits DEF ChangeOps
    <3>2. \A d \in Clients : tx[d].op \in ChangeOps => Spares(tx[d], member')
      BY <2>8 DEF Inv, Owned, Spares
    <3> QED BY <2>8, <3>1, <3>2 DEF Inv, Owned
  <2>13. SweptUnlessLate'
    BY <2>3, <2>8, OrganizationAssumption DEF Inv, SweptUnlessLate
  <2>14. InvitationBinds'
    <3> SUFFICES ASSUME NEW j \in Invites
                 PROVE  /\ \A v \in redeemed'[j] : AddressOf[v] = offer[j].to
                        /\ \A v, w \in redeemed'[j] : v = w
                        /\ invitation'[j] = "accepted" <=> redeemed'[j] # {}
      BY <2>3 DEF InvitationBinds
    <3>1. CASE j = i
      BY <2>2, <2>5, <2>9, <3>1
    <3>2. CASE j # i
      BY <2>5, <2>10, <3>2 DEF Inv, InvitationBinds
    <3> QED BY <3>1, <3>2
  <2> QED BY <2>7, <2>11, <2>12, <2>13, <2>14 DEF Inv
<1> QED BY <1>1, <1>2 DEF AcceptCall

-------------------------------------------------------------------------------
\* The inductive invariant.
THEOREM Invariance == Spec => []Inv
<1>1. Init => Inv
  <2> SUFFICES ASSUME Init PROVE Inv
    OBVIOUS
  <2>1. \A c \in Clients : tx[c] = Idle
    BY DEF Init
  <2>2. TxsFit
    BY <2>1, IdleFits DEF TxsFit
  <2>3. member[Founder] = owner /\ Founder \in Users
    BY OrganizationAssumption DEF Init, owner
  <2>4. Owned
    BY <2>1, <2>3, IdleFits DEF Owned, ChangeOps
  <2>5. TypeOK
    BY IdleFits, OrganizationAssumption, NoRoleIsNone
       DEF Init, TypeOK, Memberships, Sessions, Invitations, Offers, owner
  <2>6. SweptUnlessLate /\ InvitationBinds
    BY DEF Init, SweptUnlessLate, InvitationBinds
  <2> QED BY <2>2, <2>4, <2>5, <2>6 DEF Inv
<1>2. Inv /\ [Next]_vars => Inv'
  <2> SUFFICES ASSUME Inv, [Next]_vars PROVE Inv'
    OBVIOUS
  <2>1. ASSUME NEW c \in Clients, Abandon(c)
        PROVE  Inv'
    BY <2>1, IdleFits, OneTxOnly DEF Abandon, Close, rows, history, ChangeOps, Inv, TypeOK
  <2>2. ASSUME NEW i \in Invites, Overdue(i)
        PROVE  Inv'
    <3>1. /\ invitation[i] = "open" /\ invitation' = [invitation EXCEPT ![i] = "overdue"]
          /\ UNCHANGED <<users, member, session, offer, tx, history>>
      BY <2>2 DEF Overdue
    <3>2. /\ invitation' \in [Invites -> Invitations] /\ invitation'[i] = "overdue"
          /\ \A j \in Invites : j # i => invitation'[j] = invitation[j]
      BY <3>1 DEF Inv, TypeOK, Invitations
    <3>3. Keeps
      BY <3>1, <3>2 DEF Keeps, history
    <3>4. TxsFit'
      BY <3>1, <3>3, StillFits DEF TxsFit
    <3>5. TypeOK' /\ Owned' /\ SweptUnlessLate'
      BY <3>1, <3>2 DEF history, Inv, TypeOK, Owned, SweptUnlessLate
    <3>6. InvitationBinds'
      <4>1. \A j \in Invites : invitation'[j] = "accepted" <=> invitation[j] = "accepted"
        BY <3>1, <3>2
      <4> QED BY <3>1, <4>1 DEF history, Inv, InvitationBinds
    <3> QED BY <3>4, <3>5, <3>6 DEF Inv
  <2>3. CASE UNCHANGED vars
    BY <2>3 DEF vars, rows, history, Inv, TypeOK, TxsFit, Owned, SweptUnlessLate,
                InvitationBinds
  <2> QED BY <2>1, <2>2, <2>3, AuthenticateStep, PatchMemberStep, DeleteMemberStep,
             RevokeStep, InviteCallStep, AcceptCallStep DEF Next
<1> QED BY <1>1, <1>2, PTL DEF Spec

\* Rows, transactions in progress and history keep their types.
THEOREM TypeCorrect == Spec => []TypeOK
BY Invariance, PTL DEF Inv

\* Unless two changes of memberships overlap, an owner is left (updateMemberRole,
\* removeMember).
THEOREM OwnerUnlessOverlappedHolds == Spec => []OwnerUnlessOverlapped
<1>1. Inv => OwnerUnlessOverlapped
  BY DEF Inv, Owned, OwnerUnlessOverlapped, Owners, owner
<1> QED BY <1>1, Invariance, PTL

\* A session revoked before its request came is refused by a registry that can
\* be read (isSessionBlocked, recordSessionAccess).
THEOREM RevokedIsRefusedHolds == Spec => []RevokedIsRefused
<1>1. Inv => RevokedIsRefused
  BY DEF Inv, TxsFit, Fits, RevokedIsRefused, At
<1> QED BY <1>1, Invariance, PTL

\* A live session of a removed member was recorded too late for the removal to
\* see it (removeMember).
THEOREM SweptUnlessLateHolds == Spec => []SweptUnlessLate
BY Invariance, PTL DEF Inv

\* An invitation binds at most one user, the one it was written to, and is used
\* up exactly if it did (acceptInvitation).
THEOREM InvitationBindsHolds == Spec => []InvitationBinds
BY Invariance, PTL DEF Inv

-------------------------------------------------------------------------------
(* What the exceptions take: requests that overlap.                        *)

\* At most one request is changing a membership.
OneChange == \A c, d \in Clients : Changing(c) /\ Changing(d) => c = d

\* No request of a user is between its context and its record while a removal
\* of that user, which has read the sessions to revoke, is not committed yet.
SweepsApart ==
    \A c, d \in Clients :
        At(d, "sweep") /\ tx[c].op \in {"resolved", "unblocked"} => UserOf[tx[c].t] # tx[d].u

\* Only members have sessions.
MembersOnly == \A t \in Tokens : session[t] = "live" => member[UserOf[t]] # NoRole

\* A step that opens a change finds another one open, or keeps the note.
LEMMA OverlapStep ==
    ASSUME Inv, OneChange', overlapped = "no", [Next]_vars
    PROVE  overlapped' = "no"
<1> USE DEF rows, history
<1>1. ASSUME NEW c \in Clients, NEW q, At(c, "admitted"), Continue(c, q), NoteOverlap,
             q.op \in {"setRole", "remove"}
      PROVE  overlapped' = "no"
  <2>1. tx'[c] = q /\ \A d \in Clients : d # c => tx'[d] = tx[d]
    BY <1>1 DEF Continue, Inv, TypeOK
  <2>2. ASSUME NEW d \in Clients, Changing(d) PROVE FALSE
    <3>1. d # c /\ Changing(d)'
      BY <1>1, <2>1, <2>2 DEF Changing, At
    <3>2. Changing(c)'
      BY <1>1, <2>1 DEF Changing, At
    <3> QED BY <3>1, <3>2 DEF OneChange
  <2> QED BY <1>1, <2>2 DEF NoteOverlap
<1>2. ASSUME NEW c \in Clients, PatchMember(c)
      PROVE  overlapped' = "no"
  <2>1. ASSUME NEW u \in Users, NEW role \in Granted, OpenSetRole(c, u, role)
        PROVE  overlapped' = "no"
    <3> DEFINE q == [op |-> "setRole", u |-> u, old |-> member[u], role |-> role]
    <3>1. q.op = "setRole"
      OBVIOUS
    <3>2. At(c, "admitted") /\ Continue(c, q) /\ NoteOverlap
      BY <2>1 DEF OpenSetRole
    <3> HIDE DEF q
    <3> QED BY <3>1, <3>2, <1>1
  <2> QED BY <1>2, <2>1 DEF PatchMember, CommitSetRole
<1>3. ASSUME NEW c \in Clients, DeleteMember(c)
      PROVE  overlapped' = "no"
  <2>1. ASSUME NEW u \in Users, OpenRemove(c, u)
        PROVE  overlapped' = "no"
    <3> DEFINE q == [op |-> "remove", u |-> u, old |-> member[u]]
    <3>1. q.op = "remove"
      OBVIOUS
    <3>2. At(c, "admitted") /\ Continue(c, q) /\ NoteOverlap
      BY <2>1 DEF OpenRemove
    <3> HIDE DEF q
    <3> QED BY <3>1, <3>2, <1>1
  <2> QED BY <1>3, <2>1 DEF DeleteMember, Sweep, CommitRemove
<1>4. ASSUME NEW c \in Clients,
             Authenticate(c) \/ Revoke(c) \/ InviteCall(c) \/ AcceptCall(c) \/ Abandon(c)
      PROVE  UNCHANGED overlapped
  <2>1. Authenticate(c) => UNCHANGED overlapped
    BY DEF Authenticate, Arrive, Resolve, Check, Record, RegistryFails
  <2>2. Revoke(c) => UNCHANGED overlapped
    BY DEF Revoke, RevokeSession, Logout, OpenRevoke, CommitRevoke
  <2>3. InviteCall(c) \/ AcceptCall(c) \/ Abandon(c) => UNCHANGED overlapped
    BY DEF InviteCall, Invite, AcceptCall, OpenAccept, CommitAccept, Abandon
  <2> QED BY <1>4, <2>1, <2>2, <2>3
<1>5. (\E i \in Invites : Overdue(i)) \/ UNCHANGED vars => UNCHANGED overlapped
  BY DEF Overdue, vars
<1> QED BY <1>2, <1>3, <1>4, <1>5 DEF Next

\* "cannot demote the last organization owner", "cannot remove the last
\* organization owner" (team.ts), without exception: there is always an owner
\* if changes of memberships come one at a time, whatever other requests do.
THEOREM OwnerRemains == Spec /\ []OneChange => [](Owners # {})
<1>1. Init => overlapped = "no"
  BY DEF Init
<1>2. Inv /\ OneChange' /\ overlapped = "no" /\ [Next]_vars => (overlapped = "no")'
  BY OverlapStep
<1>3. OwnerUnlessOverlapped /\ overlapped = "no" => Owners # {}
  BY DEF OwnerUnlessOverlapped
<1> QED BY <1>1, <1>2, <1>3, Invariance, OwnerUnlessOverlappedHolds, PTL DEF Spec

\* A request that is about to be recorded is of a member.
Resolved ==
    /\ late = {}
    /\ \A c \in Clients :
          tx[c].op \in {"resolved", "unblocked"} => member[UserOf[tx[c].t]] # NoRole

LEMMA ResolvedStep ==
    ASSUME Inv, SweepsApart, Resolved, [Next]_vars
    PROVE  Resolved'
<1> USE DEF rows, history, At
\* A request goes on to q; no request that is about to be recorded loses its
\* membership.
<1>1. ASSUME NEW c \in Clients, NEW q, Continue(c, q), UNCHANGED late,
             q.op \in {"resolved", "unblocked"} => member'[UserOf[q.t]] # NoRole,
             \A d \in Clients : d # c /\ tx[d].op \in {"resolved", "unblocked"} =>
                 member'[UserOf[tx[d].t]] # NoRole
      PROVE  Resolved'
  <2>1. tx'[c] = q /\ \A d \in Clients : d # c => tx'[d] = tx[d]
    BY <1>1 DEF Continue, Inv, TypeOK
  <2> QED BY <1>1, <2>1 DEF Resolved
<1>2. ASSUME NEW c \in Clients, NEW q, Continue(c, q), UNCHANGED <<member, late>>,
             q.op \in {"resolved", "unblocked"} => member[UserOf[q.t]] # NoRole
      PROVE  Resolved'
  <2>1. \A d \in Clients : tx[d].op \in {"resolved", "unblocked"} =>
            member'[UserOf[tx[d].t]] # NoRole
    BY <1>2 DEF Resolved
  <2> QED BY <1>1, <1>2, <2>1
<1>3. ASSUME NEW c \in Clients, NEW q, Continue(c, q), UNCHANGED <<member, late>>,
             q.op \notin {"resolved", "unblocked"}
      PROVE  Resolved'
  BY <1>2, <1>3
<1>4. ASSUME NEW c \in Clients, Authenticate(c)
      PROVE  Resolved'
  <2>1. ASSUME NEW t \in Tokens, Arrive(c, t)
        PROVE  Resolved'
    <3> DEFINE q == [op |-> "arrived", t |-> t, past |-> Past(t)]
    <3>1. q.op = "arrived"
      OBVIOUS
    <3>2. Continue(c, q) /\ UNCHANGED <<member, late>>
      BY <2>1 DEF Arrive
    <3> HIDE DEF q
    <3> QED BY <3>1, <3>2, <1>3
  <2>2. CASE Resolve(c)
    <3> DEFINE q == [op |-> "resolved", t |-> tx[c].t, past |-> tx[c].past,
                     role |-> member[UserOf[tx[c].t]]]
    <3>1. q.t = tx[c].t
      OBVIOUS
    <3>2. /\ Continue(c, q) /\ UNCHANGED <<member, late>>
          /\ member[UserOf[tx[c].t]] # NoRole
      BY <2>2 DEF Resolve
    <3> HIDE DEF q
    <3> QED BY <3>1, <3>2, <1>2
  <2>3. CASE Check(c)
    <3> DEFINE q == [op |-> "unblocked", t |-> tx[c].t, past |-> tx[c].past,
                     role |-> tx[c].role]
    <3>1. q.t = tx[c].t
      OBVIOUS
    <3>2. tx[c].op = "resolved" /\ Continue(c, q) /\ UNCHANGED <<member, late>>
      BY <2>3 DEF Check
    <3>3. member[UserOf[tx[c].t]] # NoRole
      BY <3>2 DEF Resolved
    <3> HIDE DEF q
    <3> QED BY <3>1, <3>2, <3>3, <1>2
  <2>4. ASSUME NEW r, Admit(c, r), UNCHANGED <<member, late>>
        PROVE  Resolved'
    <3> DEFINE q == [op |-> "admitted", t |-> tx[c].t, past |-> tx[c].past,
                     role |-> tx[c].role, registry |-> r]
    <3>1. q.op = "admitted"
      OBVIOUS
    <3>2. Continue(c, q)
      BY <2>4 DEF Admit
    <3> HIDE DEF q
    <3> QED BY <2>4, <3>1, <3>2, <1>3
  <2>5. CASE Record(c)
    <3>1. tx[c].op = "unblocked" /\ member[UserOf[tx[c].t]] # NoRole
      BY <2>5 DEF Record, Resolved
    <3>2. ~ Sweeping(UserOf[tx[c].t])
      BY <3>1 DEF Sweeping, SweepsApart
    <3>3. late' = late
      BY <2>5, <3>1, <3>2 DEF Record, Gone
    <3> QED BY <2>5, <3>3, <2>4 DEF Record
  <2>6. CASE RegistryFails(c)
    BY <2>6, <2>4 DEF RegistryFails
  <2> QED BY <1>4, <2>1, <2>2, <2>3, <2>5, <2>6 DEF Authenticate
<1>5. ASSUME NEW c \in Clients, NEW u \in Users, NEW role \in Granted, OpenSetRole(c, u, role)
      PROVE  Resolved'
  <2> DEFINE q == [op |-> "setRole", u |-> u, old |-> member[u], role |-> role]
  <2>1. q.op = "setRole"
    OBVIOUS
  <2>2. Continue(c, q) /\ UNCHANGED <<member, late>>
    BY <1>5 DEF OpenSetRole
  <2> HIDE DEF q
  <2> QED BY <2>1, <2>2, <1>3
<1>6. ASSUME NEW c \in Clients, NEW u \in Users, OpenRemove(c, u)
      PROVE  Resolved'
  <2> DEFINE q == [op |-> "remove", u |-> u, old |-> member[u]]
  <2>1. q.op = "remove"
    OBVIOUS
  <2>2. Continue(c, q) /\ UNCHANGED <<member, late>>
    BY <1>6 DEF OpenRemove
  <2> HIDE DEF q
  <2> QED BY <2>1, <2>2, <1>3
<1>7. ASSUME NEW c \in Clients, Sweep(c)
      PROVE  Resolved'
  <2> DEFINE q == [op |-> "sweep", u |-> tx[c].u, old |-> tx[c].old,
                   found |-> LiveSessionsOf(tx[c].u)]
  <2>1. q.op = "sweep"
    OBVIOUS
  <2>2. Continue(c, q) /\ UNCHANGED <<member, late>>
    BY <1>7 DEF Sweep
  <2> HIDE DEF q
  <2> QED BY <2>1, <2>2, <1>3
<1>8. ASSUME NEW c \in Clients, NEW t \in Tokens, OpenRevoke(c, t)
      PROVE  Resolved'
  <2> DEFINE q == [op |-> "revoke", t |-> t]
  <2>1. q.op = "revoke"
    OBVIOUS
  <2>2. Continue(c, q) /\ UNCHANGED <<member, late>>
    BY <1>8 DEF OpenRevoke
  <2> HIDE DEF q
  <2> QED BY <2>1, <2>2, <1>3
<1>9. ASSUME NEW c \in Clients, NEW i \in Invites, OpenAccept(c, i)
      PROVE  Resolved'
  <2> DEFINE q == [op |-> "accept", i |-> i, u |-> UserOf[tx[c].t]]
  <2>1. q.op = "accept"
    OBVIOUS
  <2>2. Continue(c, q) /\ UNCHANGED <<member, late>>
    BY <1>9 DEF OpenAccept
  <2> HIDE DEF q
  <2> QED BY <2>1, <2>2, <1>3
<1>10. ASSUME NEW c \in Clients, Close(c), UNCHANGED late,
              \A u \in Users : member[u] # NoRole =>
                  member'[u] # NoRole \/ (tx[c].op = "sweep" /\ tx[c].u = u)
       PROVE  Resolved'
  <2>1. ASSUME NEW d \in Clients, tx[d].op \in {"resolved", "unblocked"}
        PROVE  member'[UserOf[tx[d].t]] # NoRole
    <3>1. tx[d].t \in Tokens /\ UserOf[tx[d].t] \in Users
      BY <2>1, TxTyped, OrganizationAssumption DEF Inv, TypeOK
    <3>2. member[UserOf[tx[d].t]] # NoRole
      BY <2>1 DEF Resolved
    <3>3. ~ (tx[c].op = "sweep" /\ tx[c].u = UserOf[tx[d].t])
      BY <2>1 DEF SweepsApart
    <3> QED BY <1>10, <3>1, <3>2, <3>3
  <2> QED BY <1>1, <1>10, <2>1, IdleFits DEF Close
<1>11. ASSUME NEW c \in Clients, CommitRevoke(c) \/ InviteCall(c) \/ Abandon(c)
       PROVE  Resolved'
  <2>1. Close(c) /\ UNCHANGED <<member, late>>
    BY <1>11 DEF CommitRevoke, InviteCall, Invite, Abandon
  <2> QED BY <2>1, <1>10
<1>12. ASSUME NEW c \in Clients, Logout(c)
       PROVE  Resolved'
  <2>1. tx[c].t \in Tokens
    BY <1>12, TxTyped DEF Logout, Inv, TypeOK
  <2> QED BY <1>8, <1>12, <2>1 DEF Logout
<1>13. ASSUME NEW c \in Clients, CommitSetRole(c) \/ CommitRemove(c)
       PROVE  Resolved'
  <2>1. Close(c) /\ UNCHANGED late
    BY <1>13 DEF CommitSetRole, CommitRemove
  <2>2. member \in [Users -> Memberships] /\ tx[c] \in Txs
    BY DEF Inv, TypeOK
  <2>3. \A u \in Users : u # tx[c].u => member'[u] = member[u]
    BY <1>13, <2>2 DEF CommitSetRole, CommitRemove
  <2>4. CommitSetRole(c) => member'[tx[c].u] # NoRole
    <3>1. CommitSetRole(c) => tx[c].role \in Roles /\ tx[c].u \in Users
      BY <2>2, TxTyped DEF CommitSetRole, ChangeOps
    <3> QED BY <2>2, <3>1, NoRoleIsNone DEF CommitSetRole
  <2>5. CommitRemove(c) => tx[c].op = "sweep"
    BY DEF CommitRemove
  <2> QED BY <1>10, <1>13, <2>1, <2>3, <2>4, <2>5
<1>14. ASSUME NEW c \in Clients, CommitAccept(c)
       PROVE  Resolved'
  <2>1. Close(c) /\ UNCHANGED late
    BY <1>14 DEF CommitAccept
  <2>2. \A u \in Users : member[u] # NoRole => member'[u] = member[u]
    BY <1>14 DEF CommitAccept, Inv, TypeOK
  <2> QED BY <1>10, <2>1, <2>2
<1>15. (\E i \in Invites : Overdue(i)) \/ UNCHANGED vars => UNCHANGED <<member, late, tx>>
  BY DEF Overdue, vars
<1>16. ASSUME NEW c \in Clients, PatchMember(c) \/ DeleteMember(c) \/ Revoke(c) \/ AcceptCall(c)
       PROVE  Resolved'
  BY <1>5, <1>6, <1>7, <1>8, <1>9, <1>11, <1>12, <1>13, <1>14, <1>16
     DEF PatchMember, DeleteMember, Revoke, RevokeSession, AcceptCall
<1> QED BY <1>4, <1>11, <1>15, <1>16 DEF Next, Resolved

\* A removal is final (team.ts): nobody but a member has a live session, if no
\* request of a user is being authenticated while a removal of that user, which
\* has read its sessions, has yet to commit.  Everything else may overlap, and
\* any request may fail half-way: this is the one window the sweep leaves open.
THEOREM SweptWhenApart == Spec /\ []SweepsApart => []MembersOnly
<1>1. Init => Resolved
  BY IdleFits DEF Init, Resolved
<1>2. Inv /\ SweepsApart /\ Resolved /\ [Next]_vars => Resolved'
  BY ResolvedStep
<1>3. SweptUnlessLate /\ Resolved => MembersOnly
  BY DEF SweptUnlessLate, Resolved, MembersOnly
<1> QED BY <1>1, <1>2, <1>3, Invariance, SweptUnlessLateHolds, PTL DEF Spec
================================================================================
