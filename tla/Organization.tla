------------------------------ MODULE Organization ------------------------------
(***************************************************************************)
(* The members of one organization, their invitations, and the registry of *)
(* the sessions they come with.                                            *)
(*                                                                         *)
(* A request is a sequence of transactions at READ COMMITTED: the tenant   *)
(* context is resolved, the session is looked up, the access is recorded,  *)
(* and then the handler runs one or two of its own.  Everything read in    *)
(* one of them may be stale in the next.  An interactive transaction that  *)
(* checks and then writes by id is two steps, what it read in between kept *)
(* in tx[c].                                                               *)
(***************************************************************************)
EXTENDS Naturals, FiniteSets, Roles

CONSTANTS Users,       \* the identities of the identity provider
          Founder,     \* the member an organization starts with
          UserOf,      \* the subject of a token
          Addresses, AddressOf,  \* the email a User row was provisioned with
          Invites,     \* the Invitation rows that may be created
          Granted,     \* the roles that are ever given, a bound of the instance
          Clients      \* the requests that may be in progress together

ASSUME OrganizationAssumption ==
    /\ IsFiniteSet(Users)
    /\ Founder \in Users
    /\ UserOf \in [Tokens -> Users]
    /\ AddressOf \in [Users -> Addresses]
    /\ Granted \subseteq Roles

VARIABLES users,      \* the User rows
          member,     \* OrganizationMembership.role, all of status "active"
          session,    \* the Session row of a token, and its revokedAt
          invitation, \* the status of an Invitation row
          offer,      \* its email and role
          tx,         \* what a request in progress has read
          \* History: what no row holds, and the properties speak about.
          overlapped, \* two changes of memberships have been open together
          late,       \* the tokens recorded for a user removed meanwhile
          redeemed    \* the users an invitation made members

rows == <<users, member, session, invitation, offer>>
history == <<overlapped, late, redeemed>>
vars == <<rows, tx, history>>

-----------------------------------------------------------------------------
NoRole == "none"
Memberships == Roles \cup {NoRole}
Sessions == {"none", "live", "revoked"}
Invitations == {"none", "open", "overdue", "accepted"}
Offers == [to : Addresses, role : Roles]

Idle == [op |-> "idle"]

Requests ==
    [op : {"arrived"}, t : Tokens, past : {"fresh", "revoked"}]
    \cup [op : {"resolved", "unblocked"}, t : Tokens, past : {"fresh", "revoked"}, role : Roles]
    \cup [op : {"admitted"}, t : Tokens, past : {"fresh", "revoked"}, role : Roles,
          registry : {"read", "failed"}]

Changes ==
    [op : {"setRole"}, u : Users, old : Roles, role : Roles]
    \cup [op : {"remove"}, u : Users, old : Roles]
    \cup [op : {"sweep"}, u : Users, old : Roles, found : SUBSET Tokens]

Txs ==
    {Idle} \cup Requests \cup Changes
    \cup [op : {"revoke"}, t : Tokens]
    \cup [op : {"accept"}, i : Invites, u : Users]

TypeOK ==
    /\ users \subseteq Users
    /\ member \in [Users -> Memberships]
    /\ session \in [Tokens -> Sessions]
    /\ invitation \in [Invites -> Invitations]
    /\ offer \in [Invites -> Offers]
    /\ tx \in [Clients -> Txs]
    /\ overlapped \in {"no", "yes"}
    /\ late \subseteq Tokens
    /\ redeemed \in [Invites -> SUBSET Users]

Init ==
    /\ users = {Founder}
    /\ member = [u \in Users |-> IF u = Founder THEN "organization_owner" ELSE NoRole]
    /\ session = [t \in Tokens |-> "none"]
    /\ invitation = [i \in Invites |-> "none"]
    /\ offer = [i \in Invites |-> [to |-> AddressOf[Founder], role |-> "organization_owner"]]
    /\ tx = [c \in Clients |-> Idle]
    /\ overlapped = "no"
    /\ late = {}
    /\ redeemed = [i \in Invites |-> {}]

-----------------------------------------------------------------------------
At(c, op) == tx[c].op = op

Continue(c, read) == tx' = [tx EXCEPT ![c] = read]

Close(c) == Continue(c, Idle)

\* The request is answered 401, 403, 404 or 409, its transaction fails, or the
\* process dies: what it has not committed is lost.
Abandon(c) ==
    /\ ~ At(c, "idle")
    /\ Close(c)
    /\ UNCHANGED <<rows, history>>

-----------------------------------------------------------------------------
(* tenantContextFromRequest.                                               *)

\* The User row is inserted, or fetched if there is one.
Provision(t) == users' = users \cup {UserOf[t]}

Past(t) == IF session[t] = "revoked" THEN "revoked" ELSE "fresh"

\* The bearer token or the cookie of a request verifies.
Arrive(c, t) ==
    /\ At(c, "idle")
    /\ Provision(t)
    /\ Continue(c, [op |-> "arrived", t |-> t, past |-> Past(t)])
    /\ UNCHANGED <<member, session, invitation, offer, history>>

\* Mutant: a user without an active membership gets a context as well.
ResolveAnyone(c) ==
    /\ At(c, "arrived")
    /\ Continue(c, [op |-> "resolved", t |-> tx[c].t, past |-> tx[c].past,
                    role |-> member[UserOf[tx[c].t]]])
    /\ UNCHANGED <<rows, history>>

\* resolveTenantContext, in a transaction of its own.
Resolve(c) ==
    /\ At(c, "arrived")
    /\ LET role == member[UserOf[tx[c].t]] IN
       /\ role # NoRole
       /\ Continue(c, [op |-> "resolved", t |-> tx[c].t, past |-> tx[c].past, role |-> role])
    /\ UNCHANGED <<rows, history>>

\* isSessionBlocked finds no revoked row.
Check(c) ==
    /\ At(c, "resolved")
    /\ session[tx[c].t] # "revoked"
    /\ Continue(c, [op |-> "unblocked", t |-> tx[c].t, past |-> tx[c].past, role |-> tx[c].role])
    /\ UNCHANGED <<rows, history>>

Admit(c, registry) ==
    Continue(c, [op |-> "admitted", t |-> tx[c].t, past |-> tx[c].past,
                 role |-> tx[c].role, registry |-> registry])

Sweeping(u) == \E d \in Clients : At(d, "sweep") /\ tx[d].u = u

Gone(u) == member[u] = NoRole \/ Sweeping(u)

\* Mutant: the upsert clears revokedAt.
RecordRevives(c) ==
    /\ At(c, "unblocked")
    /\ session' = [session EXCEPT ![tx[c].t] = "live"]
    /\ late' = IF Gone(UserOf[tx[c].t]) THEN late \cup {tx[c].t} ELSE late
    /\ Admit(c, "read")
    /\ UNCHANGED <<users, member, invitation, offer, overlapped, redeemed>>

\* recordSessionAccess: the upsert leaves the revokedAt of a row alone.
Record(c) ==
    /\ At(c, "unblocked")
    /\ LET t == tx[c].t  new == session[tx[c].t] = "none" IN
       /\ session' = IF new THEN [session EXCEPT ![t] = "live"] ELSE session
       /\ late' = IF new /\ Gone(UserOf[t]) THEN late \cup {t} ELSE late
    /\ Admit(c, "read")
    /\ UNCHANGED <<users, member, invitation, offer, overlapped, redeemed>>

\* The registry cannot be reached: the request goes on without it.
RegistryFails(c) ==
    /\ \/ At(c, "resolved") /\ Admit(c, "failed")
       \/ At(c, "unblocked") /\ Admit(c, "read")
    /\ UNCHANGED <<rows, history>>

May(c, action) == Can(tx[c].t, tx[c].role, action)

-----------------------------------------------------------------------------
(* Changes of a membership.                                                *)

Owners == {u \in Users : member[u] = "organization_owner"}

Changing(d) == At(d, "setRole") \/ At(d, "remove") \/ At(d, "sweep")

\* Mutant: the last owner is not counted.
GuardNothing(u, role) == member[u] # NoRole

\* The organization keeps another owner, as far as this transaction sees.
Guard(u, role) ==
    /\ member[u] # NoRole
    /\ member[u] = "organization_owner" /\ role # "organization_owner"
           => Cardinality(Owners) > 1

NoteOverlap == overlapped' = IF \E d \in Clients : Changing(d) THEN "yes" ELSE overlapped

OpenSetRole(c, u, role) ==
    /\ At(c, "admitted") /\ May(c, "team.manage")
    /\ Guard(u, role)
    /\ Continue(c, [op |-> "setRole", u |-> u, old |-> member[u], role |-> role])
    /\ NoteOverlap
    /\ UNCHANGED <<rows, late, redeemed>>

OpenRemove(c, u) ==
    /\ At(c, "admitted") /\ May(c, "team.manage")
    /\ Guard(u, NoRole)
    /\ Continue(c, [op |-> "remove", u |-> u, old |-> member[u]])
    /\ NoteOverlap
    /\ UNCHANGED <<rows, late, redeemed>>

\* The row is there and no other transaction has deleted it but not committed.
Writable(u) == ~ Gone(u)

CommitSetRole(c) ==
    /\ At(c, "setRole")
    /\ Writable(tx[c].u)
    /\ member' = [member EXCEPT ![tx[c].u] = tx[c].role]
    /\ Close(c)
    /\ UNCHANGED <<users, session, invitation, offer, history>>

LiveSessionsOf(u) == {t \in Tokens : UserOf[t] = u /\ session[t] = "live"}

\* The membership is deleted, and then the sessions to revoke are read.
Sweep(c) ==
    /\ At(c, "remove")
    /\ Writable(tx[c].u)
    /\ Continue(c, [op |-> "sweep", u |-> tx[c].u, old |-> tx[c].old,
                    found |-> LiveSessionsOf(tx[c].u)])
    /\ UNCHANGED <<rows, history>>

\* Mutant: the sessions are not revoked.
CommitRemoveOnly(c) ==
    /\ At(c, "sweep")
    /\ member' = [member EXCEPT ![tx[c].u] = NoRole]
    /\ Close(c)
    /\ UNCHANGED <<users, session, invitation, offer, history>>

CommitRemove(c) ==
    /\ At(c, "sweep")
    /\ member' = [member EXCEPT ![tx[c].u] = NoRole]
    /\ session' = [t \in Tokens |-> IF t \in tx[c].found THEN "revoked" ELSE session[t]]
    /\ Close(c)
    /\ UNCHANGED <<users, invitation, offer, history>>

-----------------------------------------------------------------------------
(* Revocations.                                                            *)

\* revokeSession returns a session that is revoked already as it is.
OpenRevoke(c, t) ==
    /\ session[t] = "live"
    /\ Continue(c, [op |-> "revoke", t |-> t])
    /\ UNCHANGED <<rows, history>>

\* A session is revoked by its user, or by a manager.
RevokeSession(c, t) ==
    /\ At(c, "admitted")
    /\ UserOf[t] = UserOf[tx[c].t] \/ May(c, "session.revoke")
    /\ OpenRevoke(c, t)

Logout(c) ==
    /\ At(c, "admitted")
    /\ OpenRevoke(c, tx[c].t)

CommitRevoke(c) ==
    /\ At(c, "revoke")
    /\ session' = [session EXCEPT ![tx[c].t] = "revoked"]
    /\ Close(c)
    /\ UNCHANGED <<users, member, invitation, offer, history>>

-----------------------------------------------------------------------------
(* Invitations.  Their two routes do not ask the session registry.         *)

Invite(c, i, to, role) ==
    /\ At(c, "resolved") /\ May(c, "member.invite")
    /\ invitation[i] = "none"
    /\ invitation' = [invitation EXCEPT ![i] = "open"]
    /\ offer' = [offer EXCEPT ![i] = [to |-> to, role |-> role]]
    /\ Close(c)
    /\ UNCHANGED <<users, member, session, history>>

\* Its 24 hours are over.
Overdue(i) ==
    /\ invitation[i] = "open"
    /\ invitation' = [invitation EXCEPT ![i] = "overdue"]
    /\ UNCHANGED <<users, member, session, offer, tx, history>>

\* The invitation is found by its token, and the address and the expiry agree;
\* whether it was accepted is left to the claim.
OpenAccept(c, i) ==
    /\ At(c, "arrived")
    /\ invitation[i] \in {"open", "accepted"}
    /\ offer[i].to = AddressOf[UserOf[tx[c].t]]
    /\ Continue(c, [op |-> "accept", i |-> i, u |-> UserOf[tx[c].t]])
    /\ UNCHANGED <<rows, history>>

\* Mutant: the claim does not look at acceptedAt.
ClaimAgain(i) == invitation' = [invitation EXCEPT ![i] = "accepted"]

\* updateMany where acceptedAt is null claims the invitation.
Claim(i) ==
    /\ invitation[i] # "accepted"
    /\ invitation' = [invitation EXCEPT ![i] = "accepted"]

\* @@unique([userId, organizationId]) refuses a second membership, and the
\* claim is rolled back with it.
CommitAccept(c) ==
    /\ At(c, "accept")
    /\ LET i == tx[c].i  u == tx[c].u IN
       /\ Claim(i)
       /\ member[u] = NoRole
       /\ member' = [member EXCEPT ![u] = offer[i].role]
       /\ redeemed' = [redeemed EXCEPT ![i] = redeemed[i] \cup {u}]
    /\ Close(c)
    /\ UNCHANGED <<users, session, offer, overlapped, late>>

-----------------------------------------------------------------------------
Authenticate(c) ==
    \/ \E t \in Tokens : Arrive(c, t)
    \/ Resolve(c) \/ Check(c) \/ Record(c) \/ RegistryFails(c)

PatchMember(c) ==
    \/ \E u \in Users, role \in Granted : OpenSetRole(c, u, role)
    \/ CommitSetRole(c)

DeleteMember(c) ==
    \/ \E u \in Users : OpenRemove(c, u)
    \/ Sweep(c) \/ CommitRemove(c)

Revoke(c) ==
    \/ \E t \in Tokens : RevokeSession(c, t)
    \/ Logout(c) \/ CommitRevoke(c)

InviteCall(c) ==
    \E i \in Invites, to \in Addresses, role \in Granted : Invite(c, i, to, role)

AcceptCall(c) == CommitAccept(c) \/ \E i \in Invites : OpenAccept(c, i)

Next ==
    \/ \E c \in Clients :
        \/ Authenticate(c) \/ PatchMember(c) \/ DeleteMember(c) \/ Revoke(c)
        \/ InviteCall(c) \/ AcceptCall(c) \/ Abandon(c)
    \/ \E i \in Invites : Overdue(i)

Spec == Init /\ [][Next]_vars

-----------------------------------------------------------------------------
(* "cannot demote the last organization owner", "cannot remove the last    *)
(* organization owner" (team.ts): an owner remains as long as no two       *)
(* changes of memberships have overlapped, for then the count of the guard *)
(* is still true at the commit.  Two that overlap may each count two.      *)
OwnerUnlessOverlapped == overlapped = "no" => Owners # {}

(* A request whose session was revoked before it came is never admitted by *)
(* a registry that could be read: "a revoked row is authoritative", also   *)
(* against the upserts of other requests with the same token, which never  *)
(* un-revoke it, and against a logout that records its own access first.   *)
RevokedIsRefused ==
    \A c \in Clients :
        At(c, "admitted") /\ tx[c].registry = "read" => tx[c].past = "fresh"

(* Removing a member revokes every session he has: one that is still live  *)
(* was recorded by a request that had resolved its context before the      *)
(* removal, after the removal had read the sessions to revoke.             *)
SweptUnlessLate ==
    \A t \in Tokens :
        session[t] = "live" /\ member[UserOf[t]] = NoRole => t \in late

(* An invitation makes at most one user a member, with the address it was  *)
(* written to, even if two users share that address and redeem it at once; *)
(* it is used up exactly if it did: a failed redemption gives it back.     *)
InvitationBinds ==
    \A i \in Invites :
        /\ \A u \in redeemed[i] : AddressOf[u] = offer[i].to
        /\ \A u, v \in redeemed[i] : u = v
        /\ invitation[i] = "accepted" <=> redeemed[i] # {}
================================================================================
