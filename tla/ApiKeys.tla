-------------------------------- MODULE ApiKeys --------------------------------
(***************************************************************************)
(* The API keys of one organization and the calls made with them.          *)
(*                                                                         *)
(* A key is a row; rotating it revokes the row and inserts a successor, so *)
(* the rows form lineages that start with a creation.  Updates and         *)
(* rotations read the row and then write by id: two steps.  Creation,      *)
(* revocation and the lookup of a presented key depend on nothing they     *)
(* read before, and are one step each.                                     *)
(***************************************************************************)
EXTENDS Naturals

CONSTANTS Keys,      \* the ApiKey rows that may be created
          Clients,   \* the requests that may be in progress together
          Grants,    \* the scope lists that are ever asked for
          Expiries,  \* the expiry dates that are ever asked for
          MaxNow     \* the last instant, a bound of the instance

AllScopes == {"read:scans", "write:scans", "read:waf", "manage:waf", "read:siem",
              "write:siem", "read:compliance", "admin"}

ASSUME ApiKeysAssumption ==
    /\ Grants \subseteq (SUBSET AllScopes) \ {{}}
    /\ Expiries \subseteq Nat
    /\ MaxNow \in Nat

VARIABLES status,   \* of a row: none, live, or revoked (revokedAt is set)
          scopes, expiry,
          origin,   \* the first row of its lineage
          now,
          tx,       \* what the open transaction of a client has read
          \* History, by lineage.
          asked,    \* the scopes and the expiry last asked for
          revoked,  \* lineages whose live key was revoked
          tangled   \* lineages in which two changes were open together, or a
                    \* key was rotated that had been revoked already

rows == <<status, scopes, expiry, origin>>
lineages == <<asked, revoked, tangled>>
keyVars == <<rows, now, tx, lineages>>

-----------------------------------------------------------------------------
Never == 0  \* expiresAt is null
Statuses == {"none", "live", "revoked"}
Scopes == SUBSET AllScopes
Idle == [op |-> "idle"]

Txs ==
    {Idle}
    \cup [op : {"update"}, k : Keys, names : SUBSET {"scopes", "expiry"},
          scopes : Scopes, expiry : Nat]
    \cup [op : {"rotate"}, k : Keys, scopes : Scopes, expiry : Nat]

KeysTypeOK ==
    /\ status \in [Keys -> Statuses]
    /\ scopes \in [Keys -> Scopes]
    /\ expiry \in [Keys -> Nat]
    /\ origin \in [Keys -> Keys]
    /\ now \in Nat
    /\ tx \in [Clients -> Txs]
    /\ asked \in [Keys -> [scopes : Scopes, expiry : Nat]]
    /\ revoked \subseteq Keys
    /\ tangled \subseteq Keys

KeysInit ==
    /\ status = [k \in Keys |-> "none"]
    /\ scopes = [k \in Keys |-> {}]
    /\ expiry = [k \in Keys |-> Never]
    /\ origin = [k \in Keys |-> k]
    /\ now = 1
    /\ tx = [c \in Clients |-> Idle]
    /\ asked = [k \in Keys |-> [scopes |-> {}, expiry |-> Never]]
    /\ revoked = {}
    /\ tangled = {}

-----------------------------------------------------------------------------
Open(c, read) ==
    /\ tx[c] = Idle
    /\ tx' = [tx EXCEPT ![c] = read]

Close(c) == tx' = [tx EXCEPT ![c] = Idle]

\* The transaction fails, and nothing it wrote is kept.
Rollback(c) ==
    /\ tx[c] # Idle
    /\ Close(c)
    /\ UNCHANGED <<rows, now, lineages>>

Insert(n, o, g, e) ==
    /\ status[n] = "none"
    /\ scopes' = [scopes EXCEPT ![n] = g]
    /\ expiry' = [expiry EXCEPT ![n] = e]
    /\ origin' = [origin EXCEPT ![n] = o]

\* An open transaction is about to write a row of the lineage of k.
Contended(k) == \E d \in Clients : tx[d] # Idle /\ origin[tx[d].k] = origin[k]

Tangle(k, when) == tangled' = IF when THEN tangled \cup {origin[k]} ELSE tangled

-----------------------------------------------------------------------------
(* The service: createApiKey, updateApiKey, revokeApiKey, rotateApiKey.    *)

\* A row that opens a lineage.
Create(n, g, e) ==
    /\ Insert(n, n, g, e)
    /\ status' = [status EXCEPT ![n] = "live"]
    /\ asked' = [asked EXCEPT ![n] = [scopes |-> g, expiry |-> e]]
    /\ UNCHANGED <<now, tx, revoked, tangled>>

\* What the patch does not name is written back as it was read.
OpenUpdate(c, k, names, g, e) ==
    /\ status[k] # "none"
    /\ Open(c, [op |-> "update", k |-> k, names |-> names,
                scopes |-> IF "scopes" \in names THEN g ELSE scopes[k],
                expiry |-> IF "expiry" \in names THEN e ELSE expiry[k]])
    /\ Tangle(k, Contended(k))
    /\ UNCHANGED <<rows, now, asked, revoked>>

\* Only what is asked of a live key counts.
CommitUpdate(c) ==
    /\ tx[c].op = "update"
    /\ LET k == tx[c].k  o == origin[k] IN
       /\ scopes' = [scopes EXCEPT ![k] = tx[c].scopes]
       /\ expiry' = [expiry EXCEPT ![k] = tx[c].expiry]
       /\ asked' = IF status[k] = "live"
                   THEN [asked EXCEPT ![o] =
                           [scopes |-> IF "scopes" \in tx[c].names THEN tx[c].scopes
                                       ELSE asked[o].scopes,
                            expiry |-> IF "expiry" \in tx[c].names THEN tx[c].expiry
                                       ELSE asked[o].expiry]]
                   ELSE asked
    /\ Close(c)
    /\ UNCHANGED <<status, origin, now, revoked, tangled>>

\* A key that is revoked already is revoked again.
Revoke(k) ==
    /\ status[k] # "none"
    /\ status' = [status EXCEPT ![k] = "revoked"]
    /\ revoked' = IF status[k] = "live" THEN revoked \cup {origin[k]} ELSE revoked
    /\ Tangle(k, Contended(k))
    /\ UNCHANGED <<scopes, expiry, origin, now, tx, asked>>

\* Whether the key is revoked is not looked at.
OpenRotate(c, k) ==
    /\ status[k] # "none"
    /\ Open(c, [op |-> "rotate", k |-> k, scopes |-> scopes[k], expiry |-> expiry[k]])
    /\ Tangle(k, Contended(k) \/ status[k] = "revoked")
    /\ UNCHANGED <<rows, now, asked, revoked>>

\* Mutant: the successor never expires.
CommitRotateForever(c, n) ==
    /\ tx[c].op = "rotate"
    /\ LET k == tx[c].k IN
       /\ Insert(n, origin[k], tx[c].scopes, Never)
       /\ status' = [status EXCEPT ![k] = "revoked", ![n] = "live"]
    /\ Close(c)
    /\ UNCHANGED <<now, lineages>>

\* Mutant: the rotated key is left alone.
CommitRotateOnly(c, n) ==
    /\ tx[c].op = "rotate"
    /\ Insert(n, origin[tx[c].k], tx[c].scopes, tx[c].expiry)
    /\ status' = [status EXCEPT ![n] = "live"]
    /\ Close(c)
    /\ UNCHANGED <<now, lineages>>

\* The successor inherits what the row held when it was read.
CommitRotate(c, n) ==
    /\ tx[c].op = "rotate"
    /\ LET k == tx[c].k IN
       /\ Insert(n, origin[k], tx[c].scopes, tx[c].expiry)
       /\ status' = [status EXCEPT ![k] = "revoked", ![n] = "live"]
    /\ Close(c)
    /\ UNCHANGED <<now, lineages>>

-----------------------------------------------------------------------------
(* The proxy, and the rest.                                                *)

\* The scope a call to the proxy needs, by the first part of its path.
Required(prefix) ==
    CASE prefix \in {"auth", "payments"} -> "admin"
      [] prefix = "waf" -> "read:waf"
      [] prefix = "siem" -> "read:siem"
      [] prefix = "compliance" -> "read:compliance"
      [] OTHER -> "read:scans"

\* requireScope: the presented key is looked up among those not revoked.
Admits(k, prefix) ==
    /\ status[k] = "live"
    /\ expiry[k] = Never \/ expiry[k] >= now
    /\ {"admin", Required(prefix)} \cap scopes[k] # {}

Tick ==
    /\ now < MaxNow
    /\ now' = now + 1
    /\ UNCHANGED <<rows, tx, lineages>>

KeyCall(c) ==
    \/ \E k \in Keys, g \in Grants, e \in Expiries, names \in SUBSET {"scopes", "expiry"} :
          OpenUpdate(c, k, names, g, e)
    \/ CommitUpdate(c)
    \/ \E k \in Keys : OpenRotate(c, k)
    \/ \E n \in Keys : CommitRotate(c, n)
    \/ Rollback(c)

KeysNext ==
    \/ \E c \in Clients : KeyCall(c)
    \/ \E n \in Keys, g \in Grants, e \in Expiries : Create(n, g, e)
    \/ \E k \in Keys : Revoke(k)
    \/ Tick

KeysSpec == KeysInit /\ [][KeysNext]_keyVars

-----------------------------------------------------------------------------
(* A key and its successors are one credential: at most one of them works, *)
(* and none once it was revoked, unless changes of the lineage overlapped  *)
(* or a revoked key was rotated, neither of which rotateApiKey looks for.  *)
OneLiveKey ==
    \A j, k \in Keys :
        /\ status[j] = "live" /\ status[k] = "live" /\ origin[j] = origin[k]
               => j = k \/ origin[k] \in tangled
        /\ status[k] = "live" => origin[k] \notin revoked \ tangled

(* The key that works has the scopes and the expiry that were asked for    *)
(* last, through updates of either and through rotations: "rotating an     *)
(* expiring key must never silently issue a permanent key" (rotateApiKey). *)
(* Two updates that overlap may undo one another, as each writes all.      *)
KeptAsAsked ==
    \A k \in Keys : status[k] = "live" /\ origin[k] \notin tangled =>
        asked[origin[k]] = [scopes |-> scopes[k], expiry |-> expiry[k]]
================================================================================
