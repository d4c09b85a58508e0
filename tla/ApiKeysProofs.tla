----------------------------- MODULE ApiKeysProofs -----------------------------
(***************************************************************************)
(* Proofs about ApiKeys and about KeyDesk, the browser tab in front of it, *)
(* for any keys, clients, scopes and expiry dates.                         *)
(*                                                                         *)
(* What a request has read of a row is still true at its commit as long as *)
(* it is alone in the lineage of the row; when it is not, the lineage is   *)
(* tangled.  Both are part of the inductive invariant, and so is that a    *)
(* lineage is named by a row that exists, which makes a new one fresh.     *)
(*                                                                         *)
(* The same one level up, from the click to the commit: a call of the tab  *)
(* is at a live row and the only one in its lineage, or the lineage is one *)
(* that was changed in haste; and an open transaction has such a call, or  *)
(* is of others.                                                           *)
(***************************************************************************)
EXTENDS KeyDesk, TLAPS

Lineages ==
    /\ \A k \in Keys : status[k] # "none" => status[origin[k]] # "none"
    /\ \A k \in Keys : status[k] = "none" => origin[k] = k
    /\ \A o \in revoked \cup tangled : status[o] # "none"

\* What the request of c read of its row is what the row holds.
ReadsHold(c) ==
    LET k == tx[c].k IN
    /\ tx[c].op = "rotate" =>
          status[k] = "live" /\ tx[c].scopes = scopes[k] /\ tx[c].expiry = expiry[k]
    /\ tx[c].op = "update" =>
          /\ "scopes" \notin tx[c].names => tx[c].scopes = scopes[k]
          /\ "expiry" \notin tx[c].names => tx[c].expiry = expiry[k]

TxsHold ==
    \A c \in Clients : tx[c] # Idle =>
        /\ status[tx[c].k] # "none"
        /\ origin[tx[c].k] \notin tangled => ReadsHold(c)

Alone ==
    \A c, d \in Clients :
        tx[c] # Idle /\ tx[d] # Idle /\ c # d /\ origin[tx[c].k] = origin[tx[d].k]
            => origin[tx[c].k] \in tangled

Inv == KeysTypeOK /\ Lineages /\ TxsHold /\ Alone /\ OneLiveKey /\ KeptAsAsked

LEMMA TxTyped ==
    ASSUME NEW q \in Txs
    PROVE  \/ q = Idle
           \/ /\ q # Idle
              /\ q.op \in {"update", "rotate"}
              /\ q.k \in Keys /\ q.scopes \in Scopes /\ q.expiry \in Nat
              /\ q.op = "update" => q.names \in SUBSET {"scopes", "expiry"}
<1>1. CASE q # Idle
  <2>1. \/ q \in [op : {"update"}, k : Keys, names : SUBSET {"scopes", "expiry"},
                  scopes : Scopes, expiry : Nat]
        \/ q \in [op : {"rotate"}, k : Keys, scopes : Scopes, expiry : Nat]
    BY <1>1 DEF Txs
  <2> QED BY <1>1, <2>1
<1> QED BY <1>1

LEMMA IdleTyped == Idle \in Txs /\ Idle.op = "idle"
BY DEF Txs, Idle

\* The rows a request is at.
LEMMA TxFacts ==
    ASSUME KeysTypeOK, NEW c \in Clients
    PROVE  \/ tx[c] = Idle
           \/ /\ tx[c] # Idle
              /\ tx[c].op \in {"update", "rotate"}
              /\ tx[c].k \in Keys /\ tx[c].scopes \in Scopes /\ tx[c].expiry \in Nat
              /\ origin[tx[c].k] \in Keys
<1>1. tx[c] \in Txs
  BY DEF KeysTypeOK
<1> QED BY <1>1, TxTyped DEF KeysTypeOK

LEMMA GrantsAreScopes ==
    /\ \A g \in Grants : g \in Scopes
    /\ \A e \in Expiries : e \in Nat
BY ApiKeysAssumption DEF Scopes

\* A lineage becomes tangled, and nothing is untangled.
LEMMA Tangled ==
    ASSUME KeysTypeOK, NEW k \in Keys, NEW when \in BOOLEAN, Tangle(k, when)
    PROVE  /\ tangled \subseteq tangled' /\ tangled' \subseteq Keys
           /\ \A o \in tangled' : o \in tangled \/ o = origin[k]
           /\ when => origin[k] \in tangled'
BY DEF Tangle, KeysTypeOK

-------------------------------------------------------------------------------
\* A request reads a row: it is alone, or the lineage is tangled.
LEMMA OpenStep ==
    ASSUME Inv, NEW c \in Clients, NEW q \in Txs, q # Idle, status[q.k] # "none",
           Open(c, q), NEW when \in BOOLEAN, Contended(q.k) => when, Tangle(q.k, when),
           origin[q.k] \notin tangled' =>
              /\ q.op = "rotate" => status[q.k] = "live" /\ q.scopes = scopes[q.k]
                                    /\ q.expiry = expiry[q.k]
              /\ q.op = "update" => /\ "scopes" \notin q.names => q.scopes = scopes[q.k]
                                    /\ "expiry" \notin q.names => q.expiry = expiry[q.k],
           UNCHANGED <<rows, now, asked, revoked>>
    PROVE  Inv'
<1> USE DEF rows
<1>1. q.k \in Keys
  BY TxTyped
<1>2. /\ tangled \subseteq tangled' /\ tangled' \subseteq Keys
      /\ \A o \in tangled' : o \in tangled \/ o = origin[q.k]
      /\ when => origin[q.k] \in tangled'
  BY <1>1, Tangled DEF Inv
<1>3. /\ tx[c] = Idle /\ tx' \in [Clients -> Txs]
      /\ tx'[c] = q /\ \A d \in Clients : d # c => tx'[d] = tx[d]
  BY DEF Open, Inv, KeysTypeOK
<1>4. KeysTypeOK'
  BY <1>2, <1>3 DEF Inv, KeysTypeOK
<1>5. Lineages'
  BY <1>1, <1>2 DEF Inv, Lineages, KeysTypeOK
<1>6. TxsHold'
  <2> SUFFICES ASSUME NEW d \in Clients, tx'[d] # Idle
               PROVE  /\ status[tx'[d].k] # "none"
                      /\ origin[tx'[d].k] \notin tangled' => ReadsHold(d)'
    BY DEF TxsHold
  <2>1. CASE d = c
    BY <1>3, <2>1 DEF ReadsHold
  <2>2. CASE d # c
    <3>1. tx'[d] = tx[d] /\ status[tx[d].k] # "none"
      BY <1>3, <2>2 DEF Inv, TxsHold
    <3>2. origin[tx[d].k] \notin tangled' => ReadsHold(d)
      BY <1>2, <1>3, <2>2 DEF Inv, TxsHold
    <3> QED BY <3>1, <3>2 DEF ReadsHold
  <2> QED BY <2>1, <2>2
<1>7. Alone'
  <2> SUFFICES ASSUME NEW d \in Clients, NEW e \in Clients,
                      tx'[d] # Idle, tx'[e] # Idle, d # e,
                      origin[tx'[d].k] = origin[tx'[e].k]
               PROVE  origin[tx'[d].k] \in tangled'
    BY DEF Alone
  <2>1. CASE d # c /\ e # c
    BY <1>2, <1>3, <2>1 DEF Inv, Alone
  <2>2. CASE d = c \/ e = c
    <3>1. Contended(q.k)
      BY <1>3, <2>2 DEF Contended
    <3> QED BY <1>2, <1>3, <2>2, <3>1
  <2> QED BY <2>1, <2>2
<1>8. OneLiveKey' /\ KeptAsAsked'
  BY <1>2 DEF Inv, OneLiveKey, KeptAsAsked
<1> QED BY <1>4, <1>5, <1>6, <1>7, <1>8 DEF Inv

\* A rotation reads its row, which is live or makes the lineage tangled.
LEMMA OpenRotateStep ==
    ASSUME Inv, NEW c \in Clients, NEW k \in Keys, OpenRotate(c, k)
    PROVE  Inv'
<1> DEFINE q == [op |-> "rotate", k |-> k, scopes |-> scopes[k], expiry |-> expiry[k]]
           when == Contended(k) \/ status[k] = "revoked"
<1>1. q \in Txs
  BY DEF Inv, KeysTypeOK, Txs
<1>2. q # Idle /\ when \in BOOLEAN
  BY DEF Idle, Contended
<1>3. origin[k] \notin tangled' => status[k] = "live"
  <2>1. when => origin[k] \in tangled'
    BY <1>2, Tangled DEF OpenRotate, Inv
  <2> QED BY <2>1 DEF OpenRotate, Inv, KeysTypeOK, Statuses
<1> QED BY <1>1, <1>2, <1>3, OpenStep DEF OpenRotate

\* A step that leaves the keys alone.
LEMMA KeysStay ==
    ASSUME Inv, UNCHANGED keyVars
    PROVE  Inv'
BY DEF keyVars, rows, lineages, Inv, KeysTypeOK, Lineages, TxsHold, ReadsHold,
       Alone, OneLiveKey, KeptAsAsked

\* A request ends without a trace.
LEMMA RollbackStep ==
    ASSUME Inv, NEW c \in Clients, Rollback(c)
    PROVE  Inv'
<1> USE DEF rows, lineages
<1>1. tx' = [tx EXCEPT ![c] = Idle] /\ UNCHANGED <<rows, now, lineages>>
  BY DEF Rollback, Close
<1>2. /\ tx' \in [Clients -> Txs] /\ tx'[c] = Idle
      /\ \A d \in Clients : d # c => tx'[d] = tx[d]
  BY <1>1, IdleTyped DEF Inv, KeysTypeOK
<1>3. KeysTypeOK' /\ Lineages' /\ OneLiveKey' /\ KeptAsAsked'
  BY <1>1, <1>2 DEF Inv, KeysTypeOK, Lineages, OneLiveKey, KeptAsAsked
<1>4. TxsHold'
  BY <1>1, <1>2 DEF Inv, TxsHold, ReadsHold
<1>5. Alone'
  BY <1>1, <1>2 DEF Inv, Alone
<1> QED BY <1>3, <1>4, <1>5 DEF Inv

LEMMA CommitUpdateStep ==
    ASSUME Inv, NEW c \in Clients, CommitUpdate(c)
    PROVE  Inv'
<1> DEFINE k == tx[c].k
           o == origin[k]
<1>1. /\ tx[c].op = "update" /\ tx[c] # Idle
      /\ k \in Keys /\ o \in Keys
      /\ tx[c].scopes \in Scopes /\ tx[c].expiry \in Nat
  BY TxFacts, IdleTyped DEF Inv, CommitUpdate
<1> HIDE DEF k
<1>2. /\ scopes' = [scopes EXCEPT ![k] = tx[c].scopes]
      /\ expiry' = [expiry EXCEPT ![k] = tx[c].expiry]
      /\ tx' = [tx EXCEPT ![c] = Idle]
      /\ UNCHANGED <<status, origin, now, revoked, tangled>>
  BY DEF CommitUpdate, Close, k
<1>3. asked' = IF status[k] = "live"
               THEN [asked EXCEPT ![o] =
                       [scopes |-> IF "scopes" \in tx[c].names THEN tx[c].scopes
                                   ELSE asked[o].scopes,
                        expiry |-> IF "expiry" \in tx[c].names THEN tx[c].expiry
                                   ELSE asked[o].expiry]]
               ELSE asked
  BY DEF CommitUpdate, k
<1>4. /\ tx' \in [Clients -> Txs] /\ tx'[c] = Idle
      /\ \A d \in Clients : d # c => tx'[d] = tx[d]
  BY <1>2, IdleTyped DEF Inv, KeysTypeOK
<1>5. /\ scopes' \in [Keys -> Scopes] /\ expiry' \in [Keys -> Nat]
      /\ scopes'[k] = tx[c].scopes /\ expiry'[k] = tx[c].expiry
      /\ \A j \in Keys : j # k => scopes'[j] = scopes[j] /\ expiry'[j] = expiry[j]
  BY <1>1, <1>2 DEF Inv, KeysTypeOK
<1>6. asked[o].scopes \in Scopes /\ asked[o].expiry \in Nat
  BY <1>1 DEF Inv, KeysTypeOK
<1>7. asked' \in [Keys -> [scopes : Scopes, expiry : Nat]]
  BY <1>1, <1>3, <1>6 DEF Inv, KeysTypeOK
<1>8. KeysTypeOK'
  BY <1>2, <1>4, <1>5, <1>7 DEF Inv, KeysTypeOK
<1>9. Lineages' /\ OneLiveKey'
  BY <1>2 DEF Inv, Lineages, OneLiveKey
<1>10. TxsHold'
  <2> SUFFICES ASSUME NEW d \in Clients, tx'[d] # Idle
               PROVE  /\ status[tx'[d].k] # "none"
                      /\ origin[tx'[d].k] \notin tangled => ReadsHold(d)'
    BY <1>2 DEF TxsHold
  <2>1. /\ d # c /\ tx'[d] = tx[d] /\ tx[d] # Idle
        /\ tx[d].k \in Keys /\ status[tx[d].k] # "none"
    BY <1>4, TxFacts DEF Inv, TxsHold
  <2>2. ASSUME origin[tx[d].k] \notin tangled
        PROVE  ReadsHold(d)'
    <3>1. ReadsHold(d)
      BY <2>1, <2>2 DEF Inv, TxsHold
    <3>2. tx[d].k # k
      BY <1>1, <2>1, <2>2 DEF Inv, Alone, k
    <3> QED BY <1>2, <1>5, <2>1, <3>1, <3>2 DEF ReadsHold
  <2> QED BY <2>1, <2>2
<1>11. Alone'
  BY <1>2, <1>4 DEF Inv, Alone
<1>12. KeptAsAsked'
  <2> SUFFICES ASSUME NEW j \in Keys, status[j] = "live", origin[j] \notin tangled
               PROVE  asked'[origin[j]] = [scopes |-> scopes'[j], expiry |-> expiry'[j]]
    BY <1>2 DEF KeptAsAsked
  <2>1. asked[origin[j]] = [scopes |-> scopes[j], expiry |-> expiry[j]]
    BY DEF Inv, KeptAsAsked
  <2>2. CASE j = k
    <3>1. ReadsHold(c)
      BY <1>1, <2>2 DEF Inv, TxsHold, k
    <3>2. asked'[o] = [scopes |-> IF "scopes" \in tx[c].names THEN tx[c].scopes
                                  ELSE asked[o].scopes,
                       expiry |-> IF "expiry" \in tx[c].names THEN tx[c].expiry
                                  ELSE asked[o].expiry]
      BY <1>1, <1>3, <2>2 DEF Inv, KeysTypeOK
    <3>3. asked[o].scopes = scopes[k] /\ asked[o].expiry = expiry[k]
      BY <2>1, <2>2
    <3>4. /\ "scopes" \notin tx[c].names => tx[c].scopes = scopes[k]
          /\ "expiry" \notin tx[c].names => tx[c].expiry = expiry[k]
      BY <1>1, <3>1 DEF ReadsHold, k
    <3> QED BY <1>5, <2>2, <3>2, <3>3, <3>4
  <2>3. CASE j # k
    <3>1. status[k] = "live" => origin[j] # o
      BY <1>1, <2>3 DEF Inv, OneLiveKey
    <3>2. origin[j] \in Keys
      BY DEF Inv, KeysTypeOK
    <3>3. asked'[origin[j]] = asked[origin[j]]
      BY <1>1, <1>3, <3>1, <3>2 DEF Inv, KeysTypeOK
    <3> QED BY <1>5, <2>1, <2>3, <3>3
  <2> QED BY <2>2, <2>3
<1> QED BY <1>8, <1>9, <1>10, <1>11, <1>12 DEF Inv

LEMMA CommitRotateStep ==
    ASSUME Inv, NEW c \in Clients, NEW n \in Keys, CommitRotate(c, n)
    PROVE  Inv'
<1> DEFINE k == tx[c].k
           o == origin[k]
<1>1. /\ tx[c].op = "rotate" /\ tx[c] # Idle
      /\ k \in Keys /\ o \in Keys
      /\ tx[c].scopes \in Scopes /\ tx[c].expiry \in Nat
  BY TxFacts, IdleTyped DEF Inv, CommitRotate
<1> HIDE DEF k
<1>2. /\ status[n] = "none"
      /\ scopes' = [scopes EXCEPT ![n] = tx[c].scopes]
      /\ expiry' = [expiry EXCEPT ![n] = tx[c].expiry]
      /\ origin' = [origin EXCEPT ![n] = o]
      /\ status' = [status EXCEPT ![k] = "revoked", ![n] = "live"]
      /\ tx' = [tx EXCEPT ![c] = Idle]
      /\ UNCHANGED <<now, asked, revoked, tangled>>
  BY DEF CommitRotate, Insert, Close, k, lineages
<1>3. status[k] # "none" /\ k # n /\ o # n /\ status[o] # "none"
  BY <1>1, <1>2 DEF Inv, TxsHold, Lineages, k
<1>4. /\ status' \in [Keys -> Statuses]
      /\ status'[n] = "live" /\ status'[k] = "revoked"
      /\ \A j \in Keys : j # n /\ j # k => status'[j] = status[j]
  BY <1>1, <1>2, <1>3 DEF Inv, KeysTypeOK, Statuses
<1>5. /\ scopes' \in [Keys -> Scopes] /\ expiry' \in [Keys -> Nat]
      /\ origin' \in [Keys -> Keys]
      /\ scopes'[n] = tx[c].scopes /\ expiry'[n] = tx[c].expiry /\ origin'[n] = o
      /\ \A j \in Keys : j # n => /\ scopes'[j] = scopes[j] /\ expiry'[j] = expiry[j]
                                  /\ origin'[j] = origin[j]
  BY <1>1, <1>2 DEF Inv, KeysTypeOK
<1>6. /\ tx' \in [Clients -> Txs] /\ tx'[c] = Idle
      /\ \A d \in Clients : d # c => tx'[d] = tx[d]
  BY <1>2, IdleTyped DEF Inv, KeysTypeOK
<1>7. KeysTypeOK'
  BY <1>2, <1>4, <1>5, <1>6 DEF Inv, KeysTypeOK
<1>8. \A j \in Keys : status[j] # "none" => status'[j] # "none"
  BY <1>3, <1>4
<1>9. Lineages'
  <2>1. \A j \in Keys : status'[j] # "none" => status'[origin'[j]] # "none"
    <3> SUFFICES ASSUME NEW j \in Keys, status'[j] # "none"
                 PROVE  status'[origin'[j]] # "none"
      OBVIOUS
    <3>1. CASE j = n
      BY <1>1, <1>3, <1>5, <1>8, <3>1
    <3>2. CASE j # n
      <4>1. status[j] # "none"
        BY <1>3, <1>4, <3>2
      <4>2. origin[j] \in Keys /\ status[origin[j]] # "none"
        BY <4>1 DEF Inv, KeysTypeOK, Lineages
      <4> QED BY <1>5, <1>8, <3>2, <4>2
    <3> QED BY <3>1, <3>2
  <2>2. \A j \in Keys : status'[j] = "none" => origin'[j] = j
    BY <1>3, <1>4, <1>5 DEF Inv, Lineages
  <2>3. \A p \in revoked' \cup tangled' : status'[p] # "none"
    BY <1>2, <1>8 DEF Inv, KeysTypeOK, Lineages
  <2> QED BY <2>1, <2>2, <2>3 DEF Lineages
<1>10. ASSUME NEW d \in Clients, tx'[d] # Idle
       PROVE  /\ d # c /\ tx'[d] = tx[d] /\ tx[d] # Idle
              /\ tx[d].k \in Keys /\ status[tx[d].k] # "none" /\ tx[d].k # n
              /\ origin'[tx[d].k] = origin[tx[d].k]
  <2>1. d # c /\ tx'[d] = tx[d] /\ tx[d] # Idle
    BY <1>6, <1>10
  <2>2. tx[d].k \in Keys /\ status[tx[d].k] # "none"
    BY <2>1, TxFacts DEF Inv, TxsHold
  <2>3. tx[d].k # n
    BY <1>2, <2>2
  <2> QED BY <1>5, <2>1, <2>2, <2>3
<1>11. TxsHold'
  <2> SUFFICES ASSUME NEW d \in Clients, tx'[d] # Idle
               PROVE  /\ status'[tx'[d].k] # "none"
                      /\ origin'[tx'[d].k] \notin tangled => ReadsHold(d)'
    BY <1>2 DEF TxsHold
  <2>1. status'[tx'[d].k] # "none"
    BY <1>8, <1>10
  <2>2. ASSUME origin'[tx'[d].k] \notin tangled
        PROVE  ReadsHold(d)'
    <3>1. origin[tx[d].k] \notin tangled /\ ReadsHold(d)
      BY <1>10, <2>2 DEF Inv, TxsHold
    <3>2. tx[d].k # k
      BY <1>1, <1>10, <3>1 DEF Inv, Alone, k
    <3> QED BY <1>4, <1>5, <1>10, <3>1, <3>2 DEF ReadsHold
  <2> QED BY <2>1, <2>2
<1>12. Alone'
  <2> SUFFICES ASSUME NEW d \in Clients, NEW e \in Clients,
                      tx'[d] # Idle, tx'[e] # Idle, d # e,
                      origin'[tx'[d].k] = origin'[tx'[e].k]
               PROVE  origin'[tx'[d].k] \in tangled
    BY <1>2 DEF Alone
  <2> QED BY <1>10 DEF Inv, Alone
<1>13. o \notin tangled => /\ status[k] = "live"
                           /\ tx[c].scopes = scopes[k] /\ tx[c].expiry = expiry[k]
  BY <1>1 DEF Inv, TxsHold, ReadsHold, k
<1>14. OneLiveKey'
  <2>1. ASSUME NEW i \in Keys, NEW j \in Keys, status'[i] = "live", status'[j] = "live",
               origin'[i] = origin'[j], i # j
        PROVE  origin'[j] \in tangled
    <3>1. CASE i # n /\ j # n
      <4>1. status[i] = "live" /\ status[j] = "live" /\ origin[i] = origin[j]
        BY <1>4, <1>5, <2>1, <3>1
      <4> QED BY <1>5, <2>1, <3>1, <4>1 DEF Inv, OneLiveKey
    <3>2. ASSUME NEW m \in Keys, m # n, status'[m] = "live", origin'[m] = o
          PROVE  o \in tangled
      <4>1. m # k /\ status[m] = "live" /\ origin[m] = o
        BY <1>4, <1>5, <3>2
      <4> QED BY <1>1, <1>13, <4>1 DEF Inv, OneLiveKey
    <3>3. CASE i = n
      BY <1>5, <2>1, <3>2, <3>3
    <3>4. CASE j = n
      BY <1>5, <2>1, <3>2, <3>4
    <3> QED BY <3>1, <3>3, <3>4
  <2>2. ASSUME NEW j \in Keys, status'[j] = "live"
        PROVE  origin'[j] \notin revoked \ tangled
    <3>1. CASE j = n
      BY <1>1, <1>5, <1>13, <3>1 DEF Inv, OneLiveKey
    <3>2. CASE j # n
      BY <1>4, <1>5, <2>2, <3>2 DEF Inv, OneLiveKey
    <3> QED BY <3>1, <3>2
  <2> QED BY <1>2, <2>1, <2>2 DEF OneLiveKey
<1>15. KeptAsAsked'
  <2> SUFFICES ASSUME NEW j \in Keys, status'[j] = "live", origin'[j] \notin tangled
               PROVE  asked[origin'[j]] = [scopes |-> scopes'[j], expiry |-> expiry'[j]]
    BY <1>2 DEF KeptAsAsked
  <2>1. CASE j = n
    <3>1. asked[o] = [scopes |-> scopes[k], expiry |-> expiry[k]]
      BY <1>1, <1>5, <1>13, <2>1 DEF Inv, KeptAsAsked
    <3> QED BY <1>5, <1>13, <2>1, <3>1
  <2>2. CASE j # n
    BY <1>4, <1>5, <2>2 DEF Inv, KeptAsAsked
  <2> QED BY <2>1, <2>2
<1> QED BY <1>7, <1>9, <1>11, <1>12, <1>14, <1>15 DEF Inv

\* A new row opens a lineage of its own, for nothing has the name of a row
\* that does not exist.
LEMMA CreateStep ==
    ASSUME Inv, NEW n \in Keys, NEW g \in Scopes, NEW e \in Nat, Create(n, g, e)
    PROVE  Inv'
<1>1. /\ status[n] = "none"
      /\ scopes' = [scopes EXCEPT ![n] = g]
      /\ expiry' = [expiry EXCEPT ![n] = e]
      /\ origin' = [origin EXCEPT ![n] = n]
      /\ status' = [status EXCEPT ![n] = "live"]
      /\ asked' = [asked EXCEPT ![n] = [scopes |-> g, expiry |-> e]]
      /\ UNCHANGED <<now, tx, revoked, tangled>>
  BY DEF Create, Insert
<1>2. KeysTypeOK'
  BY <1>1 DEF Inv, KeysTypeOK, Statuses
<1>3. origin[n] = n /\ origin' = origin
  BY <1>1 DEF Inv, KeysTypeOK, Lineages
<1>4. /\ status'[n] = "live" /\ scopes'[n] = g /\ expiry'[n] = e
      /\ asked'[n] = [scopes |-> g, expiry |-> e]
      /\ \A j \in Keys : j # n => /\ status'[j] = status[j] /\ scopes'[j] = scopes[j]
                                  /\ expiry'[j] = expiry[j] /\ asked'[j] = asked[j]
  BY <1>1 DEF Inv, KeysTypeOK
<1>5. \A j \in Keys : j # n /\ status[j] # "none" => origin[j] \in Keys /\ origin[j] # n
  BY <1>1 DEF Inv, KeysTypeOK, Lineages
<1>6. n \notin tangled /\ n \notin revoked
  BY <1>1 DEF Inv, Lineages
<1>7. Lineages'
  <2>1. \A j \in Keys : origin[j] \in Keys
    BY DEF Inv, KeysTypeOK
  <2> QED BY <1>1, <1>3, <1>4, <2>1 DEF Inv, Lineages, KeysTypeOK
<1>8. TxsHold'
  <2> SUFFICES ASSUME NEW d \in Clients, tx[d] # Idle
               PROVE  /\ status'[tx[d].k] # "none"
                      /\ origin[tx[d].k] \notin tangled => ReadsHold(d)'
    BY <1>1, <1>3 DEF TxsHold
  <2>1. tx[d].k \in Keys /\ tx[d].k # n /\ status[tx[d].k] # "none"
    BY <1>1, TxFacts DEF Inv, TxsHold
  <2> QED BY <1>1, <1>4, <2>1 DEF Inv, TxsHold, ReadsHold
<1>9. Alone'
  BY <1>1, <1>3 DEF Inv, Alone
<1>10. OneLiveKey'
  <2>1. \A j \in Keys : j # n /\ status'[j] = "live" => status[j] = "live" /\ origin[j] # n
    BY <1>4, <1>5
  <2> QED BY <1>1, <1>3, <1>6, <2>1 DEF Inv, OneLiveKey
<1>11. KeptAsAsked'
  <2> SUFFICES ASSUME NEW j \in Keys, status'[j] = "live", origin[j] \notin tangled
               PROVE  asked'[origin[j]] = [scopes |-> scopes'[j], expiry |-> expiry'[j]]
    BY <1>1, <1>3 DEF KeptAsAsked
  <2>1. CASE j = n
    BY <1>3, <1>4, <2>1
  <2>2. CASE j # n
    BY <1>4, <1>5, <2>2 DEF Inv, KeptAsAsked
  <2> QED BY <2>1, <2>2
<1> QED BY <1>2, <1>7, <1>8, <1>9, <1>10, <1>11 DEF Inv

LEMMA RevokeStep ==
    ASSUME Inv, NEW k \in Keys, Revoke(k)
    PROVE  Inv'
<1>1. /\ status[k] # "none"
      /\ status' = [status EXCEPT ![k] = "revoked"]
      /\ revoked' = IF status[k] = "live" THEN revoked \cup {origin[k]} ELSE revoked
      /\ Tangle(k, Contended(k))
      /\ UNCHANGED <<scopes, expiry, origin, now, tx, asked>>
  BY DEF Revoke
<1>2. /\ tangled \subseteq tangled' /\ tangled' \subseteq Keys
      /\ \A o \in tangled' : o \in tangled \/ o = origin[k]
      /\ Contended(k) => origin[k] \in tangled'
  <2>1. Contended(k) \in BOOLEAN
    BY DEF Contended
  <2> QED BY <1>1, <2>1, Tangled DEF Inv
<1>3. origin[k] \in Keys /\ status[origin[k]] # "none"
  BY <1>1 DEF Inv, KeysTypeOK, Lineages
<1>4. /\ status' \in [Keys -> Statuses] /\ status'[k] = "revoked"
      /\ \A j \in Keys : j # k => status'[j] = status[j]
  BY <1>1 DEF Inv, KeysTypeOK, Statuses
<1>5. KeysTypeOK'
  BY <1>1, <1>2, <1>3, <1>4 DEF Inv, KeysTypeOK
<1>6. \A j \in Keys : status'[j] # "none" <=> status[j] # "none"
  BY <1>1, <1>4
<1>7. Lineages'
  <2>1. \A j \in Keys : origin[j] \in Keys
    BY DEF Inv, KeysTypeOK
  <2>2. \A o \in revoked' \cup tangled' : o \in Keys /\ status[o] # "none"
    BY <1>1, <1>2, <1>3 DEF Inv, Lineages, KeysTypeOK
  <2> QED BY <1>1, <1>6, <2>1, <2>2 DEF Inv, Lineages
<1>8. TxsHold'
  <2> SUFFICES ASSUME NEW d \in Clients, tx[d] # Idle
               PROVE  /\ status'[tx[d].k] # "none"
                      /\ origin[tx[d].k] \notin tangled' => ReadsHold(d)'
    BY <1>1 DEF TxsHold
  <2>1. tx[d].k \in Keys /\ status[tx[d].k] # "none"
    BY TxFacts DEF Inv, TxsHold
  <2>2. ASSUME origin[tx[d].k] \notin tangled'
        PROVE  ReadsHold(d)'
    <3>1. tx[d].k # k
      BY <1>2, <2>2 DEF Contended
    <3>2. ReadsHold(d)
      BY <1>2, <2>2 DEF Inv, TxsHold
    <3> QED BY <1>1, <1>4, <2>1, <3>1, <3>2 DEF ReadsHold
  <2> QED BY <1>6, <2>1, <2>2
<1>9. Alone'
  BY <1>1, <1>2 DEF Inv, Alone
<1>10. OneLiveKey'
  <2>1. \A j \in Keys : status'[j] = "live" => j # k /\ status[j] = "live"
    BY <1>4
  <2>2. ASSUME NEW j \in Keys, status'[j] = "live"
        PROVE  origin[j] \notin revoked' \ tangled'
    <3>1. origin[j] \notin revoked \ tangled'
      BY <1>2, <2>1, <2>2 DEF Inv, OneLiveKey
    <3>2. status[k] = "live" /\ origin[j] = origin[k] => origin[j] \in tangled'
      BY <1>2, <2>1, <2>2 DEF Inv, OneLiveKey
    <3> QED BY <1>1, <3>1, <3>2
  <2>3. ASSUME NEW i \in Keys, NEW j \in Keys, status'[i] = "live", status'[j] = "live",
               origin[i] = origin[j], i # j
        PROVE  origin[j] \in tangled'
    BY <1>2, <2>1, <2>3 DEF Inv, OneLiveKey
  <2> QED BY <1>1, <2>2, <2>3 DEF OneLiveKey
<1>11. KeptAsAsked'
  BY <1>1, <1>2, <1>4 DEF Inv, KeptAsAsked
<1> QED BY <1>5, <1>7, <1>8, <1>9, <1>10, <1>11 DEF Inv

-------------------------------------------------------------------------------
\* No row exists, and no request is open.
LEMMA KeysStart == KeysInit => Inv
<1> SUFFICES ASSUME KeysInit PROVE Inv
  OBVIOUS
<1>1. KeysTypeOK
  BY IdleTyped DEF KeysInit, KeysTypeOK, Statuses, Scopes, Never
<1> QED BY <1>1 DEF KeysInit, Inv, Lineages, TxsHold, Alone, OneLiveKey, KeptAsAsked

\* The inductive invariant.
THEOREM Invariance == KeysSpec => []Inv
<1>1. KeysInit => Inv
  BY KeysStart
<1>2. Inv /\ [KeysNext]_keyVars => Inv'
  <2> SUFFICES ASSUME Inv, [KeysNext]_keyVars PROVE Inv'
    OBVIOUS
  <2>1. ASSUME NEW c \in Clients, NEW k \in Keys, NEW g \in Grants, NEW e \in Expiries,
               NEW names \in SUBSET {"scopes", "expiry"}, OpenUpdate(c, k, names, g, e)
        PROVE  Inv'
    <3> DEFINE q == [op |-> "update", k |-> k, names |-> names,
                     scopes |-> IF "scopes" \in names THEN g ELSE scopes[k],
                     expiry |-> IF "expiry" \in names THEN e ELSE expiry[k]]
    <3>1. g \in Scopes /\ e \in Nat /\ scopes[k] \in Scopes /\ expiry[k] \in Nat
      BY GrantsAreScopes DEF Inv, KeysTypeOK
    <3>2. q \in Txs
      BY <3>1 DEF Txs
    <3>3. q # Idle /\ Contended(k) \in BOOLEAN
      BY DEF Idle, Contended
    <3> QED BY <2>1, <3>2, <3>3, OpenStep DEF OpenUpdate
  <2>2. ASSUME NEW c \in Clients, NEW k \in Keys, OpenRotate(c, k)
        PROVE  Inv'
    BY <2>2, OpenRotateStep
  <2>3. CASE Tick
    <3>1. now' \in Nat /\ UNCHANGED <<rows, tx, lineages>>
      BY <2>3 DEF Tick, Inv, KeysTypeOK
    <3> QED BY <3>1 DEF rows, lineages, Inv, KeysTypeOK, Lineages, TxsHold, ReadsHold,
                        Alone, OneLiveKey, KeptAsAsked
  <2>4. CASE UNCHANGED keyVars
    BY <2>4, KeysStay
  <2> QED BY <2>1, <2>2, <2>3, <2>4, CommitUpdateStep, CommitRotateStep, RollbackStep,
             CreateStep, RevokeStep, GrantsAreScopes DEF KeysNext, KeyCall
<1> QED BY <1>1, <1>2, PTL DEF KeysSpec

\* Rows, open requests and the history of lineages keep their types.
THEOREM TypeCorrect == KeysSpec => []KeysTypeOK
BY Invariance, PTL DEF Inv

\* One key of a lineage works at most, and none after its revocation, unless
\* changes of the lineage overlapped or a revoked key was rotated
\* (rotateApiKey, revokeApiKey).
THEOREM OneLiveKeyHolds == KeysSpec => []OneLiveKey
BY Invariance, PTL DEF Inv

\* The key that works has the scopes and the expiry asked for last, through
\* updates and rotations that do not overlap (updateApiKey, rotateApiKey).
THEOREM KeptAsAskedHolds == KeysSpec => []KeptAsAsked
BY Invariance, PTL DEF Inv

-------------------------------------------------------------------------------
(* The browser tab.  A call of the desk is on its way to change a lineage  *)
(* from the click to the commit, and its transaction is open in between.   *)

Changing(c) == call[c].stage = "sent" /\ call[c].op \in {"rotate", "revoke"}

\* The list is of rows that exist, though they may have changed.
ListedInv == \A k \in Keys : listed[k] # "none" => status[k] # "none"

CallsFit ==
    \A c \in Clients : Changing(c) =>
        /\ status[call[c].k] # "none"
        /\ origin[call[c].k] \notin hasty => status[call[c].k] = "live"

\* A transaction is of a call of a page, or of a program elsewhere.
TxsFit ==
    \A c \in Clients : tx[c] # Idle =>
        /\ tx[c].op = "rotate"
        /\ \/ call[c] = NoCall /\ origin[tx[c].k] \in hasty
           \/ Changing(c) /\ call[c].op = "rotate" /\ call[c].k = tx[c].k

\* Two calls on one lineage were made in haste.
Sole ==
    \A c, d \in Clients :
        Changing(c) /\ Changing(d) /\ c # d /\ origin[call[c].k] = origin[call[d].k]
            => origin[call[c].k] \in hasty

HasteInv == CallsFit /\ TxsFit /\ Sole /\ TangledInHaste

DeskInv == TypeOK /\ Inv /\ ListedInv /\ HasteInv /\ WizardInOrder

\* The fields of a call, by its operation.
LEMMA CallTyped ==
    ASSUME NEW q \in Calls
    PROVE  /\ q.from \in {"nobody", "table", "form", "wizard"}
           /\ q.op \in {"none", "rotate", "revoke", "create", "test"}
           /\ q.stage \in {"none", "sent", "done", "failed"}
           /\ q.k \in Keys \cup {NoKey}
           /\ q.op = "none" => q = NoCall
           /\ q.stage = "none" => q = NoCall
           /\ q.op # "none" => q # NoCall
           /\ q.op \in {"rotate", "revoke"} => q.k \in Keys /\ q.from \in {"table", "nobody"}
           /\ q.op = "test" => q.k \in Keys /\ q.from = "wizard"
           /\ q.op = "create" /\ q.stage = "sent" =>
                 /\ q.from \in {"form", "wizard", "nobody"} /\ q.k = NoKey
                 /\ q.scopes \in Scopes /\ q.expiry \in Nat
           /\ q.op = "create" /\ q.stage # "sent" => q.from \in {"form", "wizard"}
<1> DEFINE
      Q1 == [from : {"table", "nobody"}, op : {"rotate", "revoke"},
             stage : {"sent", "done", "failed"}, k : Keys]
      Q2 == [from : {"form", "wizard", "nobody"}, op : {"create"},
             stage : {"sent"}, k : {NoKey}, scopes : Scopes, expiry : Nat]
      Q3 == [from : {"form", "wizard"}, op : {"create"},
             stage : {"done", "failed"}, k : Keys \cup {NoKey}]
      Q4 == [from : {"wizard"}, op : {"test"}, stage : {"sent", "done", "failed"}, k : Keys]
<1>1. q = NoCall \/ q \in Q1 \/ q \in Q2 \/ q \in Q3 \/ q \in Q4
  BY DEF Calls
<1>2. CASE q = NoCall
  BY <1>2 DEF NoCall
<1>3. CASE q \in Q1
  BY <1>3 DEF NoCall
<1>4. CASE q \in Q2
  BY <1>4 DEF NoCall
<1>5. CASE q \in Q3
  BY <1>5 DEF NoCall
<1>6. CASE q \in Q4
  BY <1>6 DEF NoCall
<1> QED BY <1>1, <1>2, <1>3, <1>4, <1>5, <1>6

\* A call with nobody waiting is still a call.
LEMMA ForsakenTyped ==
    ASSUME NEW q \in Calls
    PROVE  /\ Forsaken(q) \in Calls
           /\ q.stage = "sent" /\ q.op \in {"rotate", "revoke"} =>
                 /\ Forsaken(q).stage = "sent" /\ Forsaken(q).op = q.op /\ Forsaken(q).k = q.k
           /\ Forsaken(q).stage = "sent" /\ Forsaken(q).op \in {"rotate", "revoke"} =>
                 q.stage = "sent" /\ q.op \in {"rotate", "revoke"}
           /\ q = NoCall => Forsaken(q) = NoCall
<1>1. NoCall \in Calls /\ NoCall.stage = "none" /\ NoCall.op = "none"
  BY DEF Calls, NoCall
<1>2. CASE ~(q.stage = "sent" /\ q.op # "test")
  BY <1>1, <1>2 DEF Forsaken
<1>3. CASE q.stage = "sent" /\ q.op # "test"
  <2>1. q # NoCall /\ Forsaken(q) = [q EXCEPT !.from = "nobody"]
    BY <1>1, <1>3 DEF Forsaken
  <2>2. CASE q \in [from : {"table", "nobody"}, op : {"rotate", "revoke"},
                    stage : {"sent", "done", "failed"}, k : Keys]
    <3>1. /\ Forsaken(q) \in [from : {"table", "nobody"}, op : {"rotate", "revoke"},
                              stage : {"sent", "done", "failed"}, k : Keys]
          /\ Forsaken(q).stage = q.stage /\ Forsaken(q).op = q.op /\ Forsaken(q).k = q.k
      BY <2>1, <2>2
    <3> QED BY <1>3, <2>1, <2>2, <3>1 DEF Calls
  <2>3. CASE q \in [from : {"form", "wizard", "nobody"}, op : {"create"},
                    stage : {"sent"}, k : {NoKey}, scopes : Scopes, expiry : Nat]
    <3>1. /\ Forsaken(q) \in [from : {"form", "wizard", "nobody"}, op : {"create"},
                    stage : {"sent"}, k : {NoKey}, scopes : Scopes, expiry : Nat]
          /\ Forsaken(q).op = "create" /\ q.op = "create"
      BY <2>1, <2>3
    <3> QED BY <2>1, <2>3, <3>1 DEF Calls
  <2> QED BY <1>1, <1>3, <2>1, <2>2, <2>3 DEF Calls
<1> QED BY <1>2, <1>3

LEMMA ReplyTyped ==
    ASSUME TypeOK, NEW c \in Clients, call[c].stage = "sent",
           NEW s \in {"done", "failed"}, NEW k \in Keys \cup {NoKey},
           call[c].op # "create" => k \in Keys,
           Reply(c, s, k)
    PROVE  /\ call' \in [Clients -> Calls]
           /\ call'[c].stage # "sent"
           /\ \A d \in Clients : d # c => call'[d] = call[d]
<1>1. call[c] \in Calls
  BY DEF TypeOK
<1> DEFINE r == [from |-> call[c].from, op |-> call[c].op, stage |-> s, k |-> k]
<1>2. CASE call[c].from = "nobody"
  <2>1. call' = [call EXCEPT ![c] = NoCall]
    BY <1>2 DEF Reply
  <2>2. NoCall \in Calls /\ NoCall.stage = "none"
    BY DEF Calls, NoCall
  <2> QED BY <2>1, <2>2 DEF TypeOK
<1>3. CASE call[c].from # "nobody"
  <2>1. call' = [call EXCEPT ![c] = r]
    BY <1>3 DEF Reply
  <2>2. \/ call[c].op \in {"rotate", "revoke"} /\ call[c].from = "table" /\ k \in Keys
        \/ call[c].op = "create" /\ call[c].from \in {"form", "wizard"}
        \/ call[c].op = "test" /\ call[c].from = "wizard" /\ k \in Keys
    BY <1>1, <1>3, CallTyped DEF NoCall
  <2>3. r \in Calls /\ r.stage = s
    BY <2>2 DEF Calls
  <2> QED BY <2>1, <2>3 DEF TypeOK
<1> QED BY <1>2, <1>3

LEMMA StepsShown ==
    /\ DOMAIN Steps = 1 .. 4 /\ Len(Steps) = 4
    /\ \A i \in 1 .. 4 : Steps[i] \in {"key", "first-call", "webhook", "production"}
BY DEF Steps

\* Each step of the tab, of its calls and of others is one of the keys, or
\* leaves the keys alone.
LEMMA KeysStep ==
    ASSUME TypeOK, Inv, [Next]_vars
    PROVE  Inv'
<1>1. CASE UNCHANGED keyVars
  BY <1>1, KeysStay
<1>2. ASSUME NEW c \in Clients, Serve(c)
      PROVE  Inv'
  <2>1. call[c] \in Calls
    BY DEF TypeOK
  <2>2. ASSUME NEW n \in Keys, ServeCreate(c, n)
        PROVE  Inv'
    <3>1. call[c].scopes \in Scopes /\ call[c].expiry \in Nat
      BY <2>1, <2>2, CallTyped DEF ServeCreate, Sent
    <3> QED BY <2>2, <3>1, CreateStep DEF ServeCreate
  <2>3. ASSUME NEW n \in Keys, FinishRotate(c, n)
        PROVE  Inv'
    BY <2>3, CommitRotateStep DEF FinishRotate
  <2>4. CASE ServeRevoke(c)
    <3>1. call[c].k \in Keys
      BY <2>1, <2>4, CallTyped DEF ServeRevoke, Sent
    <3> QED BY <2>4, <3>1, RevokeStep DEF ServeRevoke
  <2>5. CASE ServeRotate(c)
    <3>1. call[c].k \in Keys
      BY <2>1, <2>5, CallTyped DEF ServeRotate, Sent
    <3> QED BY <2>5, <3>1, OpenRotateStep DEF ServeRotate
  <2>6. CASE ServeTest(c)
    BY <2>6, KeysStay DEF ServeTest
  <2>7. CASE ServeNot(c)
    BY <2>7, KeysStay, RollbackStep DEF ServeNot
  <2> QED BY <1>2, <2>2, <2>3, <2>4, <2>5, <2>6, <2>7 DEF Serve
<1>3. ASSUME NEW c \in Clients, Elsewhere(c)
      PROVE  Inv'
  BY <1>3, OpenRotateStep, RevokeStep, CommitRotateStep, RollbackStep DEF Elsewhere
<1>4. ASSUME NEW c \in Clients, Answer(c) \/ Lose(c)
      PROVE  UNCHANGED keyVars
  BY <1>4 DEF Answer, Lose
<1>5. Table => UNCHANGED keyVars
  BY DEF Table, ClickRotate, ClickRevoke, SubmitForm, Click, Refresh
<1>6. Wizard => UNCHANGED keyVars
  BY DEF Wizard, WizardCreate, WizardTest, Continue, Reset
<1>7. ASSUME NEW p \in {"keys", "onboarding"}, Visit(p)
      PROVE  UNCHANGED keyVars
  BY <1>7 DEF Visit
<1>8. UNCHANGED vars => UNCHANGED keyVars
  BY DEF vars
<1> QED BY <1>1, <1>2, <1>3, <1>4, <1>5, <1>6, <1>7, <1>8 DEF Next

\* What the wizard has ticked off only changes with its position.
LEMMA WizardStep ==
    ASSUME TypeOK, WizardInOrder, [Next]_vars
    PROVE  WizardInOrder'
<1> USE StepsShown
<1>1. CASE UNCHANGED <<step, completed, apiKey>>
  BY <1>1 DEF WizardInOrder
<1>2. CASE Continue
  <2>1. step \in 1 .. 4 /\ created \in Keys \cup {NoKey}
    BY DEF TypeOK
  <2>2. /\ completed' = completed \cup {Steps[step]}
        /\ step' = IF step < 4 THEN step + 1 ELSE step
    BY <1>2 DEF Continue, MarkComplete
  <2>3. completed = {Steps[i] : i \in 1 .. step - 1} => completed' = {Steps[i] : i \in 1 .. step}
    <3> SUFFICES ASSUME completed = {Steps[i] : i \in 1 .. step - 1}
                 PROVE  completed' = {Steps[i] : i \in 1 .. step}
      OBVIOUS
    <3>1. 1 .. step = (1 .. step - 1) \cup {step}
      BY <2>1
    <3> QED BY <2>2, <3>1
  <2>4. completed = {Steps[i] : i \in 1 .. step} /\ step = 4 =>
           completed' = completed /\ step' = step
    BY <2>1, <2>2
  <2>5. \/ completed' = {Steps[i] : i \in 1 .. step' - 1}
        \/ step' = 4 /\ completed' = {Steps[i] : i \in 1 .. step'}
    <3>1. CASE completed = {Steps[i] : i \in 1 .. step - 1} /\ step < 4
      <4>1. step' - 1 = step
        BY <2>1, <2>2, <3>1
      <4> QED BY <2>3, <3>1, <4>1
    <3>2. CASE completed = {Steps[i] : i \in 1 .. step - 1} /\ step = 4
      BY <2>2, <2>3, <3>2
    <3>3. CASE completed = {Steps[i] : i \in 1 .. step} /\ step = 4
      BY <2>4, <3>3
    <3> QED BY <2>1, <3>1, <3>2, <3>3 DEF WizardInOrder
  <2>6. step' > 1 /\ apiKey' # NoKey
    <3>1. step' > 1
      BY <2>1, <2>2
    <3>2. CASE step = 1
      BY <1>2, <3>1, <3>2 DEF Continue, FreeSteps, Steps
    <3>3. CASE step # 1
      BY <1>2, <2>1, <3>1, <3>3 DEF Continue, WizardInOrder
    <3> QED BY <3>2, <3>3
  <2> QED BY <2>5, <2>6 DEF WizardInOrder
<1>3. ASSUME step' = 1, completed' = {}, apiKey' = NoKey
      PROVE  WizardInOrder'
  <2>1. {Steps[i] : i \in 1 .. 1 - 1} = {}
    OBVIOUS
  <2> QED BY <1>3, <2>1 DEF WizardInOrder
<1>4. CASE Reset
  BY <1>3, <1>4 DEF Reset
<1>5. ASSUME NEW p \in {"keys", "onboarding"}, Visit(p)
      PROVE  WizardInOrder'
  BY <1>3, <1>5 DEF Visit
<1>6. Table => UNCHANGED <<step, completed, apiKey>>
  BY DEF Table, ClickRotate, ClickRevoke, SubmitForm, Click, Refresh, wizard
<1>7. ASSUME NEW c \in Clients, WizardCreate(c) \/ WizardTest(c)
      PROVE  UNCHANGED <<step, completed, apiKey>>
  BY <1>7 DEF WizardCreate, WizardTest, wizard
<1>8. ASSUME NEW c \in Clients, Serve(c) \/ Answer(c) \/ Lose(c) \/ Elsewhere(c)
      PROVE  UNCHANGED <<step, completed, apiKey>>
  BY <1>8 DEF Serve, Answer, Lose, Elsewhere, wizard, RotateAnswered, RevokeAnswered,
              FormAnswered, WizardAnswered
<1>9. UNCHANGED vars => UNCHANGED <<step, completed, apiKey>>
  BY DEF vars, wizard
<1> QED BY <1>1, <1>2, <1>4, <1>5, <1>6, <1>7, <1>8, <1>9 DEF Next, Wizard

\* The calls after a step: those that are there, and no others.
LEMMA CallsTyped ==
    ASSUME TypeOK, Inv, WizardInOrder, Next
    PROVE  call' \in [Clients -> Calls]
<1>1. call \in [Clients -> Calls] /\ NoCall \in Calls
  BY DEF TypeOK, Calls
<1>2. ASSUME NEW c \in Clients, NEW q \in Calls, call' = [call EXCEPT ![c] = q]
      PROVE  call' \in [Clients -> Calls]
  BY <1>1, <1>2
<1>3. ASSUME NEW c \in Clients, Serve(c)
      PROVE  call' \in [Clients -> Calls]
  <2>1. call[c] \in Calls
    BY <1>1
  <2>2. ASSUME NEW n \in Keys, ServeCreate(c, n)
        PROVE  call' \in [Clients -> Calls]
    BY <2>2, ReplyTyped DEF ServeCreate, Sent
  <2>3. ASSUME NEW n \in Keys, FinishRotate(c, n)
        PROVE  call' \in [Clients -> Calls]
    BY <2>3, ReplyTyped DEF FinishRotate, Sent
  <2>4. CASE ServeRevoke(c)
    BY <2>1, <2>4, CallTyped, ReplyTyped DEF ServeRevoke, Sent
  <2>5. CASE ServeRotate(c)
    BY <1>1, <2>5 DEF ServeRotate
  <2>6. CASE ServeTest(c)
    <3>1. call[c].k \in Keys
      BY <2>1, <2>6, CallTyped DEF ServeTest, Sent
    <3>2. CASE Admits(call[c].k, "scans")
      BY <2>6, <3>1, <3>2, ReplyTyped DEF ServeTest, Sent
    <3>3. CASE ~ Admits(call[c].k, "scans")
      BY <2>6, <3>1, <3>3, ReplyTyped DEF ServeTest, Sent
    <3> QED BY <3>2, <3>3
  <2>7. CASE ServeNot(c)
    <3>1. call[c].k \in Keys \cup {NoKey} /\ (call[c].op # "create" => call[c].k \in Keys)
      BY <2>1, <2>7, CallTyped DEF ServeNot, NoCall
    <3> QED BY <2>7, <3>1, ReplyTyped DEF ServeNot
  <2> QED BY <1>3, <2>2, <2>3, <2>4, <2>5, <2>6, <2>7 DEF Serve
<1>4. ASSUME NEW c \in Clients, NEW k \in Keys, ClickRotate(c, k) \/ ClickRevoke(c, k)
      PROVE  call' \in [Clients -> Calls]
  <2>1. /\ [from |-> "table", op |-> "rotate", stage |-> "sent", k |-> k] \in Calls
        /\ [from |-> "table", op |-> "revoke", stage |-> "sent", k |-> k] \in Calls
    BY DEF Calls
  <2> QED BY <1>2, <1>4, <2>1 DEF ClickRotate, ClickRevoke, Send
<1>5. ASSUME NEW c \in Clients, NEW chosen \in Grants, NEW e \in Expiries,
             SubmitForm(c, chosen, e)
      PROVE  call' \in [Clients -> Calls]
  <2>1. Posted(chosen) \in Scopes /\ e \in Nat
    BY GrantsAreScopes DEF Posted, Scopes, AllScopes
  <2>2. [from |-> "form", op |-> "create", stage |-> "sent", k |-> NoKey,
         scopes |-> Posted(chosen), expiry |-> e] \in Calls
    BY <2>1 DEF Calls
  <2> QED BY <1>2, <1>5, <2>2 DEF SubmitForm, Send
<1>6. ASSUME NEW c \in Clients, WizardCreate(c)
      PROVE  call' \in [Clients -> Calls]
  <2>1. [from |-> "wizard", op |-> "create", stage |-> "sent", k |-> NoKey,
         scopes |-> WizardScopes, expiry |-> Never] \in Calls
    BY DEF Calls, WizardScopes, Scopes, AllScopes, Never
  <2> QED BY <1>2, <1>6, <2>1 DEF WizardCreate, Send
<1>7. ASSUME NEW c \in Clients, WizardTest(c)
      PROVE  call' \in [Clients -> Calls]
  <2>1. apiKey \in Keys
    BY <1>7 DEF WizardTest, WizardInOrder, TypeOK
  <2>2. [from |-> "wizard", op |-> "test", stage |-> "sent", k |-> apiKey] \in Calls
    BY <2>1 DEF Calls
  <2> QED BY <1>2, <1>7, <2>2 DEF WizardTest, Send
<1>8. ASSUME Unmount("test")
      PROVE  call' \in [Clients -> Calls]
  BY <1>1, <1>8, ForsakenTyped DEF Unmount
<1>9. ASSUME NEW p \in {"keys", "onboarding"}, Visit(p)
      PROVE  call' \in [Clients -> Calls]
  BY <1>1, <1>9, ForsakenTyped DEF Visit
<1>10. ASSUME NEW c \in Clients, Lose(c)
       PROVE  call' \in [Clients -> Calls]
  BY <1>1, <1>2, <1>10, ForsakenTyped DEF Lose
<1>11. ASSUME NEW c \in Clients, Answer(c)
       PROVE  call' \in [Clients -> Calls]
  BY <1>1, <1>2, <1>11 DEF Answer
<1>12. Click \/ Refresh \/ (\E c \in Clients : Elsewhere(c)) => call' = call
  BY DEF Click, Refresh, Elsewhere
<1> QED BY <1>1, <1>3, <1>4, <1>5, <1>6, <1>7, <1>8, <1>9, <1>10, <1>11, <1>12
        DEF Next, Table, Wizard, Continue, Reset

LEMMA TypeStep ==
    ASSUME TypeOK, Inv, WizardInOrder, [Next]_vars
    PROVE  TypeOK'
<1> USE StepsShown
<1>1. KeysTypeOK'
  BY KeysStep DEF Inv
<1>2. CASE UNCHANGED vars
  BY <1>1, <1>2 DEF vars, table, wizard, TypeOK
<1>3. CASE Next
  <2>1. call' \in [Clients -> Calls]
    BY <1>3, CallsTyped
  <2>2. page' \in {"keys", "onboarding"}
    BY <1>3 DEF Next, Visit, TypeOK
  <2> DEFINE TableTyped == /\ listed \in [Keys -> Statuses]
                           /\ refreshing \in {"no", "yes"}
                           /\ {rotating, deleting, dialog} \subseteq Keys \cup {NoKey}
                           /\ form \in {"closed", "open"}
             WizardTyped == /\ step \in 1 .. 4
                            /\ completed \subseteq {Steps[i] : i \in 1 .. 4}
                            /\ {created, apiKey} \subseteq Keys \cup {NoKey}
                            /\ response \in {"none", "accepted", "refused"}
  <2>3. TableTyped /\ WizardTyped /\ hasty \subseteq Keys
    BY DEF TypeOK
  <2>4. SUFFICES TableTyped' /\ WizardTyped' /\ hasty' \subseteq Keys
    BY <1>1, <2>1, <2>2, StepsShown DEF TypeOK
  <2>5. status \in [Keys -> Statuses] /\ origin \in [Keys -> Keys]
    BY DEF Inv, KeysTypeOK
  <2>6. "none" \in Statuses
    BY DEF Statuses
  <2>7. ASSUME NEW c \in Clients, NEW k \in Keys, ClickRotate(c, k) \/ ClickRevoke(c, k)
        PROVE  TableTyped' /\ WizardTyped' /\ hasty' \subseteq Keys
    BY <2>3, <2>5, <2>7 DEF ClickRotate, ClickRevoke, NoteHaste, wizard
  <2>8. ASSUME NEW c \in Clients, NEW chosen \in Grants, NEW e \in Expiries,
               SubmitForm(c, chosen, e)
        PROVE  TableTyped' /\ WizardTyped' /\ hasty' \subseteq Keys
    BY <2>3, <2>8 DEF SubmitForm, table, wizard
  <2>9. CASE Click
    BY <2>3, <2>9 DEF Click, wizard
  <2>10. CASE Refresh
    BY <2>3, <2>5, <2>10 DEF Refresh, ListApiKeys, wizard
  <2>11. ASSUME NEW c \in Clients, WizardCreate(c) \/ WizardTest(c)
         PROVE  TableTyped' /\ WizardTyped' /\ hasty' \subseteq Keys
    BY <2>3, <2>11 DEF WizardCreate, WizardTest, table, wizard
  <2>12. CASE Continue
    <3>1. Steps[step] \in {Steps[i] : i \in 1 .. 4}
      BY <2>3
    <3>2. /\ step' \in 1 .. 4
          /\ completed' \subseteq {Steps[i] : i \in 1 .. 4}
      BY <2>3, <2>12, <3>1 DEF Continue, MarkComplete
    <3> QED BY <2>3, <2>12, <3>2 DEF Continue, table
  <2>13. CASE Reset
    BY <2>3, <2>13 DEF Reset, table
  <2>14. ASSUME NEW p \in {"keys", "onboarding"}, Visit(p)
         PROVE  TableTyped' /\ WizardTyped' /\ hasty' \subseteq Keys
    BY <2>3, <2>5, <2>6, <2>14 DEF Visit, ListApiKeys
  <2>15. ASSUME NEW c \in Clients, Serve(c)
         PROVE  TableTyped' /\ WizardTyped' /\ hasty' \subseteq Keys
    BY <2>3, <2>15 DEF Serve, table, wizard
  <2>16. ASSUME NEW c \in Clients, Elsewhere(c)
         PROVE  TableTyped' /\ WizardTyped' /\ hasty' \subseteq Keys
    BY <2>3, <2>5, <2>16 DEF Elsewhere, table, wizard
  <2>17. ASSUME NEW c \in Clients, Lose(c)
         PROVE  TableTyped' /\ WizardTyped' /\ hasty' \subseteq Keys
    BY <2>3, <2>17 DEF Lose, wizard
  <2>18. ASSUME NEW c \in Clients, Answer(c)
         PROVE  TableTyped' /\ WizardTyped' /\ hasty' \subseteq Keys
    <3>1. call[c] \in Calls /\ call[c].k \in Keys \cup {NoKey}
      BY CallTyped DEF TypeOK
    <3> QED BY <2>3, <2>18, <3>1 DEF Answer, RotateAnswered, RevokeAnswered, FormAnswered,
                                     WizardAnswered, table, wizard
  <2> HIDE DEF TableTyped, WizardTyped
  <2> QED BY <1>3, <2>7, <2>8, <2>9, <2>10, <2>11, <2>12, <2>13, <2>14, <2>15, <2>16, <2>17,
             <2>18 DEF Next, Table, Wizard
<1> QED BY <1>2, <1>3

\* A row that exists does not go away.
LEMMA RowsRemain ==
    ASSUME TypeOK, Inv, [Next]_vars
    PROVE  \A k \in Keys : status[k] # "none" =>
              status'[k] # "none" /\ origin'[k] = origin[k]
<1>1. status \in [Keys -> Statuses] /\ origin \in [Keys -> Keys]
  BY DEF Inv, KeysTypeOK
<1>2. CASE UNCHANGED keyVars
  BY <1>2 DEF keyVars, rows
<1>3. ASSUME NEW n \in Keys, NEW g, NEW e, Create(n, g, e)
      PROVE  \A k \in Keys : status[k] # "none" =>
                status'[k] # "none" /\ origin'[k] = origin[k]
  BY <1>1, <1>3 DEF Create, Insert
<1>4. ASSUME NEW k \in Keys, Revoke(k)
      PROVE  \A j \in Keys : status[j] # "none" =>
                status'[j] # "none" /\ origin'[j] = origin[j]
  BY <1>1, <1>4 DEF Revoke
<1>5. ASSUME NEW c \in Clients, NEW n \in Keys, CommitRotate(c, n)
      PROVE  \A k \in Keys : status[k] # "none" =>
                status'[k] # "none" /\ origin'[k] = origin[k]
  <2>1. \A k \in Keys : k # n => origin'[k] = origin[k]
    BY <1>1, <1>5 DEF CommitRotate, Insert
  <2>2. \A k \in Keys : status[k] # "none" => k # n
    BY <1>5 DEF CommitRotate, Insert
  <2>3. \A k \in Keys : status'[k] = status[k] \/ status'[k] \in {"revoked", "live"}
    BY <1>1, <1>5 DEF CommitRotate
  <2> QED BY <2>1, <2>2, <2>3
<1>6. ASSUME NEW c \in Clients, Rollback(c) \/ \E k \in Keys : OpenRotate(c, k)
      PROVE  UNCHANGED <<status, origin>>
  BY <1>6 DEF Rollback, OpenRotate, rows
<1>7. ASSUME NEW c \in Clients, Serve(c)
      PROVE  \A k \in Keys : status[k] # "none" =>
                status'[k] # "none" /\ origin'[k] = origin[k]
  <2>1. CASE ServeTest(c) \/ ServeNot(c)
    BY <1>2, <1>6, <2>1 DEF ServeTest, ServeNot
  <2>2. CASE ServeRevoke(c) \/ ServeRotate(c)
    <3>1. call[c].k \in Keys
      BY <2>2, CallTyped DEF TypeOK, ServeRevoke, ServeRotate, Sent
    <3> QED BY <1>4, <1>6, <2>2, <3>1 DEF ServeRevoke, ServeRotate
  <2> QED BY <1>3, <1>5, <1>7, <2>1, <2>2 DEF Serve, ServeCreate, FinishRotate
<1>8. ASSUME NEW c \in Clients, Elsewhere(c)
      PROVE  \A k \in Keys : status[k] # "none" =>
                status'[k] # "none" /\ origin'[k] = origin[k]
  BY <1>4, <1>5, <1>6, <1>8 DEF Elsewhere
<1>9. CASE Table \/ Wizard
  BY <1>2, <1>9 DEF Table, ClickRotate, ClickRevoke, SubmitForm, Click, Refresh,
                    Wizard, WizardCreate, WizardTest, Continue, Reset
<1>10. ASSUME NEW c \in Clients, Answer(c) \/ Lose(c)
       PROVE  UNCHANGED keyVars
  BY <1>10 DEF Answer, Lose
<1>11. ASSUME NEW p \in {"keys", "onboarding"}, Visit(p)
       PROVE  UNCHANGED keyVars
  BY <1>11 DEF Visit
<1>12. UNCHANGED vars => UNCHANGED keyVars
  BY DEF vars
<1> QED BY <1>2, <1>7, <1>8, <1>9, <1>10, <1>11, <1>12 DEF Next

\* The list shows rows that existed when it was made, and rows remain.
LEMMA ListedStep ==
    ASSUME TypeOK, Inv, ListedInv, [Next]_vars
    PROVE  ListedInv'
<1>1. \A k \in Keys : status[k] # "none" => status'[k] # "none"
  BY RowsRemain
<1>2. listed' = listed \/ listed' = status \/ listed' = [k \in Keys |-> "none"]
  <2>1. UNCHANGED vars => listed' = listed
    BY DEF vars, table
  <2>2. Table => listed' = listed \/ listed' = status
    BY DEF Table, ClickRotate, ClickRevoke, SubmitForm, Click, Refresh, table, ListApiKeys
  <2>3. Wizard => listed' = listed
    BY DEF Wizard, WizardCreate, WizardTest, Continue, Reset, table
  <2>4. ASSUME NEW p \in {"keys", "onboarding"}, Visit(p)
        PROVE  listed' = status \/ listed' = [k \in Keys |-> "none"]
    BY <2>4 DEF Visit, ListApiKeys
  <2>5. ASSUME NEW c \in Clients, Serve(c) \/ Answer(c) \/ Lose(c) \/ Elsewhere(c)
        PROVE  listed' = listed
    BY <2>5 DEF Serve, Answer, Lose, Elsewhere, table, RotateAnswered, RevokeAnswered,
                FormAnswered, WizardAnswered
  <2> QED BY <2>1, <2>2, <2>3, <2>4, <2>5 DEF Next
<1> QED BY <1>1, <1>2 DEF ListedInv

\* Whatever a step does to calls that are there, it keeps what is known of
\* them if the lineages it disturbs become hasty ones.
LEMMA HasteKept ==
    ASSUME TypeOK, Inv, HasteInv, hasty \subseteq hasty', tangled' \subseteq hasty',
           \A k \in Keys : status[k] # "none" =>
              status'[k] # "none" /\ origin'[k] = origin[k],
           \A d \in Clients : Changing(d)' =>
              /\ Changing(d) /\ call'[d].k = call[d].k
              /\ origin[call[d].k] \notin hasty' => status'[call[d].k] = status[call[d].k],
           \A d \in Clients : tx'[d] # Idle =>
              \/ /\ tx'[d] = tx[d]
                 /\ call[d] = NoCall => call'[d] = NoCall
                 /\ Changing(d) => /\ Changing(d)' /\ call'[d].op = call[d].op
                                   /\ call'[d].k = call[d].k
              \/ /\ tx'[d].op = "rotate"
                 /\ \/ call'[d] = NoCall /\ origin'[tx'[d].k] \in hasty'
                    \/ Changing(d)' /\ call'[d].op = "rotate" /\ call'[d].k = tx'[d].k
    PROVE  HasteInv'
<1>1. \A d \in Clients : Changing(d) => call[d].k \in Keys
  BY CallTyped DEF TypeOK, Changing
<1>2. CallsFit'
  BY <1>1 DEF HasteInv, CallsFit
<1>3. TxsFit'
  <2> SUFFICES ASSUME NEW d \in Clients, tx'[d] # Idle
               PROVE  /\ tx'[d].op = "rotate"
                      /\ \/ call'[d] = NoCall /\ origin'[tx'[d].k] \in hasty'
                         \/ Changing(d)' /\ call'[d].op = "rotate" /\ call'[d].k = tx'[d].k
    BY DEF TxsFit
  <2>1. CASE tx'[d] = tx[d] /\ (call[d] = NoCall => call'[d] = NoCall)
             /\ (Changing(d) => Changing(d)' /\ call'[d].op = call[d].op
                                /\ call'[d].k = call[d].k)
    <3>1. tx[d] # Idle /\ tx[d].k \in Keys /\ status[tx[d].k] # "none"
      BY <2>1, TxFacts DEF Inv, TxsHold
    <3> QED BY <2>1, <3>1 DEF HasteInv, TxsFit
  <2> QED BY <2>1
<1>4. Sole'
  <2> SUFFICES ASSUME NEW d \in Clients, NEW e \in Clients, Changing(d)', Changing(e)', d # e,
                      origin'[call'[d].k] = origin'[call'[e].k]
               PROVE  origin'[call'[d].k] \in hasty'
    BY DEF Sole
  <2>1. /\ Changing(d) /\ Changing(e)
        /\ call'[d].k = call[d].k /\ call'[e].k = call[e].k
        /\ origin'[call[d].k] = origin[call[d].k] /\ origin'[call[e].k] = origin[call[e].k]
    BY <1>1 DEF HasteInv, CallsFit
  <2> QED BY <2>1 DEF HasteInv, Sole
<1> QED BY <1>2, <1>3, <1>4 DEF HasteInv, TangledInHaste

\* A step that leaves the keys alone, and at most forgets calls.
LEMMA HasteStays ==
    ASSUME TypeOK, Inv, HasteInv, UNCHANGED keyVars, UNCHANGED hasty,
           \A d \in Clients : Changing(d)' =>
              Changing(d) /\ call'[d].k = call[d].k,
           \A d \in Clients : tx[d] # Idle =>
              /\ call[d] = NoCall => call'[d] = NoCall
              /\ Changing(d) => /\ Changing(d)' /\ call'[d].op = call[d].op
                                /\ call'[d].k = call[d].k
    PROVE  HasteInv'
BY HasteKept DEF keyVars, rows, lineages, HasteInv, TangledInHaste

\* A click that changes a key is on a live one and beside no other call, or it
\* is made in haste.
LEMMA ClickStep ==
    ASSUME TypeOK, Inv, ListedInv, HasteInv, NEW c \in Clients, NEW k \in Keys,
           listed[k] = "live", NEW op \in {"rotate", "revoke"},
           Send(c, [from |-> "table", op |-> op, stage |-> "sent", k |-> k]),
           NoteHaste(c, k), UNCHANGED keyVars
    PROVE  HasteInv'
<1> USE DEF keyVars, rows, lineages
<1> DEFINE r == [from |-> "table", op |-> op, stage |-> "sent", k |-> k]
<1>1. /\ call[c] = NoCall /\ tx[c] = Idle
      /\ call'[c] = r
      /\ \A d \in Clients : d # c => call'[d] = call[d]
  BY DEF Send, TypeOK
<1>2. r.k = k /\ r.stage = "sent" /\ r.op = op
  OBVIOUS
<1> HIDE DEF r
<1>3. hasty \subseteq hasty' /\ (Behind(k) \/ Beside(c, k) => origin[k] \in hasty')
  BY DEF NoteHaste
<1>4. status[k] # "none" /\ (status[k] = "live" \/ origin[k] \in hasty')
  <2>1. status[k] # "live" => Behind(k)
    BY DEF Behind
  <2> QED BY <1>3, <2>1 DEF ListedInv
<1>5. \A d \in Clients : Changing(d) => call[d].k \in Keys
  BY CallTyped DEF TypeOK, Changing
<1>6. \A d \in Clients : d # c => (Changing(d)' <=> Changing(d))
  BY <1>1 DEF Changing
<1>7. CallsFit'
  <2> SUFFICES ASSUME NEW d \in Clients, Changing(d)'
               PROVE  /\ status[call'[d].k] # "none"
                      /\ origin[call'[d].k] \notin hasty' => status[call'[d].k] = "live"
    BY DEF CallsFit
  <2>1. CASE d = c
    BY <1>1, <1>2, <1>4, <2>1
  <2>2. CASE d # c
    BY <1>1, <1>3, <1>6, <2>2 DEF HasteInv, CallsFit
  <2> QED BY <2>1, <2>2
<1>8. TxsFit'
  <2> SUFFICES ASSUME NEW d \in Clients, tx[d] # Idle
               PROVE  /\ tx[d].op = "rotate"
                      /\ \/ call'[d] = NoCall /\ origin[tx[d].k] \in hasty'
                         \/ Changing(d)' /\ call'[d].op = "rotate" /\ call'[d].k = tx[d].k
    BY DEF TxsFit
  <2> QED BY <1>1, <1>3, <1>6 DEF HasteInv, TxsFit
<1>9. Sole'
  <2>1. ASSUME NEW d \in Clients, d # c, Changing(d), origin[call[d].k] = origin[k]
        PROVE  origin[k] \in hasty'
    BY <1>3, <1>5, <2>1 DEF Beside
  <2> SUFFICES ASSUME NEW d \in Clients, NEW e \in Clients, Changing(d)', Changing(e)', d # e,
                      origin[call'[d].k] = origin[call'[e].k]
               PROVE  origin[call'[d].k] \in hasty'
    BY DEF Sole
  <2>2. CASE d = c
    BY <1>1, <1>2, <1>6, <2>1, <2>2
  <2>3. CASE e = c
    BY <1>1, <1>2, <1>6, <2>1, <2>3
  <2>4. CASE d # c /\ e # c
    BY <1>1, <1>3, <1>6, <2>4 DEF HasteInv, Sole
  <2> QED BY <2>2, <2>3, <2>4
<1> QED BY <1>3, <1>7, <1>8, <1>9 DEF HasteInv, TangledInHaste

\* The service, or the database, answers a call of a page.
LEMMA ServeHasteStep ==
    ASSUME TypeOK, Inv, HasteInv, NEW c \in Clients, Serve(c),
           \A k \in Keys : status[k] # "none" =>
              status'[k] # "none" /\ origin'[k] = origin[k]
    PROVE  HasteInv'
<1> USE DEF keyVars, rows, lineages
<1>1. /\ call[c] \in Calls /\ UNCHANGED hasty
      /\ tangled \subseteq hasty
      /\ status \in [Keys -> Statuses] /\ tx \in [Clients -> Txs]
  BY DEF TypeOK, Serve, HasteInv, TangledInHaste, Inv, KeysTypeOK
<1>2. \A d \in Clients : Changing(d) => call[d].k \in Keys /\ call[d] # NoCall
  BY CallTyped DEF TypeOK, Changing, NoCall
\* The call of c was the only one at its lineage that is not in haste.
<1>3. ASSUME NEW k \in Keys, Changing(c), call[c].k = k, Contended(k), tx[c] = Idle
      PROVE  origin[k] \in hasty
  <2>1. PICK d \in Clients : tx[d] # Idle /\ origin[tx[d].k] = origin[k]
    BY <1>3 DEF Contended
  <2> QED BY <1>3, <2>1 DEF HasteInv, TxsFit, Sole
<1>4. ASSUME NEW d \in Clients, d # c, Changing(d), Changing(c),
             origin[call[d].k] \notin hasty
      PROVE  call[d].k # call[c].k
  BY <1>4 DEF HasteInv, Sole
<1>5. ASSUME NEW n \in Keys, ServeCreate(c, n)
      PROVE  HasteInv'
  <2>1. /\ call'[c].stage # "sent"
        /\ \A d \in Clients : d # c => call'[d] = call[d]
    BY <1>5, ReplyTyped DEF ServeCreate, Sent
  <2>2. call[c].op = "create" /\ call[c] # NoCall /\ status[n] = "none"
    BY <1>1, <1>5, CallTyped DEF ServeCreate, Sent, Create, Insert
  <2>3. tx[c] = Idle /\ UNCHANGED <<tx, tangled>>
    BY <1>5, <2>2 DEF ServeCreate, Create, HasteInv, TxsFit
  <2>4. \A k \in Keys : k # n => status'[k] = status[k]
    BY <1>1, <1>5 DEF ServeCreate, Create
  <2>5. \A d \in Clients : Changing(d)' => Changing(d) /\ call'[d] = call[d] /\ call[d].k # n
    BY <2>1, <2>2 DEF Changing, HasteInv, CallsFit
  <2>6. \A d \in Clients : tx'[d] # Idle => tx'[d] = tx[d] /\ call'[d] = call[d]
    BY <2>1, <2>3
  <2> QED BY <1>1, <1>2, <2>3, <2>4, <2>5, <2>6, HasteKept DEF Changing
<1>6. ASSUME NEW n \in Keys, FinishRotate(c, n)
      PROVE  HasteInv'
  <2>1. /\ call'[c].stage # "sent"
        /\ \A d \in Clients : d # c => call'[d] = call[d]
    BY <1>6, ReplyTyped DEF FinishRotate, Sent
  <2>2. /\ Changing(c) /\ tx[c].op = "rotate" /\ tx[c] # Idle
    BY <1>6, IdleTyped DEF FinishRotate, Sent, Changing, CommitRotate
  <2>3. tx[c].k = call[c].k
    BY <1>2, <2>2 DEF HasteInv, TxsFit
  <2>4. /\ status' = [status EXCEPT ![call[c].k] = "revoked", ![n] = "live"]
        /\ status[n] = "none" /\ tx' = [tx EXCEPT ![c] = Idle] /\ UNCHANGED tangled
    BY <1>6, <2>3 DEF FinishRotate, CommitRotate, Insert, Close
  <2>5. \A k \in Keys : k # n /\ k # call[c].k => status'[k] = status[k]
    BY <1>1, <2>4
  <2>6. \A d \in Clients : Changing(d)' =>
           /\ d # c /\ Changing(d) /\ call'[d] = call[d]
           /\ origin[call[d].k] \notin hasty' => status'[call[d].k] = status[call[d].k]
    <3> SUFFICES ASSUME NEW d \in Clients, Changing(d)'
                 PROVE  /\ d # c /\ Changing(d) /\ call'[d] = call[d]
                        /\ origin[call[d].k] \notin hasty' =>
                              status'[call[d].k] = status[call[d].k]
      OBVIOUS
    <3>1. d # c /\ Changing(d) /\ call'[d] = call[d]
      BY <2>1 DEF Changing
    <3>2. call[d].k \in Keys /\ call[d].k # n
      BY <1>2, <2>4, <3>1 DEF HasteInv, CallsFit
    <3> QED BY <1>1, <1>4, <2>2, <2>5, <3>1, <3>2
  <2>7. \A d \in Clients : tx'[d] # Idle => tx'[d] = tx[d] /\ call'[d] = call[d]
    BY <1>1, <2>1, <2>4
  <2> QED BY <1>1, <1>2, <2>4, <2>6, <2>7, HasteKept DEF Changing
<1>7. CASE ServeRevoke(c)
  <2>1. /\ Changing(c) /\ call[c].k \in Keys
    BY <1>2, <1>7 DEF ServeRevoke, Sent, Changing
  <2>2. /\ call'[c].stage # "sent"
        /\ \A d \in Clients : d # c => call'[d] = call[d]
    BY <1>7, <2>1, ReplyTyped DEF ServeRevoke, Sent
  <2>3. tx[c] = Idle /\ UNCHANGED tx
    BY <1>2, <1>7, <2>1 DEF ServeRevoke, Sent, Revoke, HasteInv, TxsFit
  <2>4. \A k \in Keys : k # call[c].k => status'[k] = status[k]
    BY <1>1, <1>7 DEF ServeRevoke, Revoke
  <2>5. tangled' \subseteq hasty
    <3>1. Tangle(call[c].k, Contended(call[c].k))
      BY <1>7 DEF ServeRevoke, Revoke
    <3> QED BY <1>1, <1>3, <2>1, <2>3, <3>1 DEF Tangle
  <2>6. \A d \in Clients : Changing(d)' =>
           /\ d # c /\ Changing(d) /\ call'[d] = call[d]
           /\ origin[call[d].k] \notin hasty' => status'[call[d].k] = status[call[d].k]
    <3> SUFFICES ASSUME NEW d \in Clients, Changing(d)'
                 PROVE  /\ d # c /\ Changing(d) /\ call'[d] = call[d]
                        /\ origin[call[d].k] \notin hasty' =>
                              status'[call[d].k] = status[call[d].k]
      OBVIOUS
    <3>1. d # c /\ Changing(d) /\ call'[d] = call[d]
      BY <2>2 DEF Changing
    <3> QED BY <1>1, <1>2, <1>4, <2>1, <2>4, <3>1
  <2>7. \A d \in Clients : tx'[d] # Idle => tx'[d] = tx[d] /\ call'[d] = call[d]
    BY <2>2, <2>3
  <2> QED BY <1>1, <1>2, <2>5, <2>6, <2>7, HasteKept DEF Changing
<1>8. CASE ServeRotate(c)
  <2> DEFINE k == call[c].k
             q == [op |-> "rotate", k |-> k, scopes |-> scopes[k], expiry |-> expiry[k]]
  <2>1. /\ Changing(c) /\ call[c].op = "rotate" /\ k \in Keys
    BY <1>2, <1>8 DEF ServeRotate, Sent, Changing
  <2>2. /\ tx[c] = Idle /\ tx' = [tx EXCEPT ![c] = q]
        /\ UNCHANGED <<call, status>>
        /\ Tangle(k, Contended(k) \/ status[k] = "revoked")
    BY <1>8 DEF ServeRotate, OpenRotate, Open
  <2>3. tx'[c] = q /\ \A d \in Clients : d # c => tx'[d] = tx[d]
    BY <1>1, <2>2
  <2>4. tangled' \subseteq hasty
    <3>1. status[k] = "revoked" => origin[k] \in hasty
      BY <2>1 DEF HasteInv, CallsFit
    <3> QED BY <1>1, <1>3, <2>1, <2>2, <3>1 DEF Tangle
  <2>5. q.op = "rotate" /\ q.k = call[c].k
    OBVIOUS
  <2>6. \A d \in Clients : Changing(d)' <=> Changing(d)
    BY <2>2 DEF Changing
  <2> HIDE DEF k, q
  <2>7. \A d \in Clients : tx'[d] # Idle =>
           \/ tx'[d] = tx[d] /\ call'[d] = call[d]
           \/ /\ tx'[d].op = "rotate" /\ Changing(d)' /\ call'[d].op = "rotate"
              /\ call'[d].k = tx'[d].k
    BY <2>1, <2>2, <2>3, <2>5, <2>6
  <2> QED BY <1>1, <1>2, <2>2, <2>4, <2>6, <2>7, HasteKept
<1>9. ASSUME call'[c].stage # "sent", \A d \in Clients : d # c => call'[d] = call[d],
             tx'[c] = Idle, \A d \in Clients : d # c => tx'[d] = tx[d],
             UNCHANGED <<status, tangled>>
      PROVE  HasteInv'
  <2>1. \A d \in Clients : Changing(d)' => Changing(d) /\ call'[d] = call[d]
    BY <1>9 DEF Changing
  <2>2. \A d \in Clients : tx'[d] # Idle => tx'[d] = tx[d] /\ call'[d] = call[d]
    BY <1>9
  <2> QED BY <1>1, <1>9, <2>1, <2>2, HasteKept DEF Changing
<1>10. CASE ServeTest(c)
  <2>1. call[c].op = "test" /\ call[c].k \in Keys /\ call[c].stage = "sent" /\ call[c] # NoCall
    BY <1>1, <1>10, CallTyped DEF ServeTest, Sent
  <2>2. tx[c] = Idle
    BY <2>1 DEF HasteInv, TxsFit, Changing
  <2>3. /\ call'[c].stage # "sent"
        /\ \A d \in Clients : d # c => call'[d] = call[d]
    <3>1. CASE Admits(call[c].k, "scans")
      BY <1>10, <2>1, <3>1, ReplyTyped DEF ServeTest
    <3>2. CASE ~ Admits(call[c].k, "scans")
      BY <1>10, <2>1, <3>2, ReplyTyped DEF ServeTest
    <3> QED BY <3>1, <3>2
  <2> QED BY <1>9, <1>10, <2>2, <2>3 DEF ServeTest
<1>11. CASE ServeNot(c)
  <2>1. call[c].k \in Keys \cup {NoKey} /\ (call[c].op # "create" => call[c].k \in Keys)
    BY <1>1, <1>11, CallTyped DEF ServeNot, NoCall
  <2>2. /\ call'[c].stage # "sent"
        /\ \A d \in Clients : d # c => call'[d] = call[d]
    BY <1>11, <2>1, ReplyTyped DEF ServeNot
  <2>3. /\ tx'[c] = Idle /\ \A d \in Clients : d # c => tx'[d] = tx[d]
        /\ UNCHANGED <<status, tangled>>
    BY <1>1, <1>11 DEF ServeNot, Rollback, Close
  <2> QED BY <1>9, <2>2, <2>3
<1> QED BY <1>5, <1>6, <1>7, <1>8, <1>10, <1>11 DEF Serve

\* What is done elsewhere to a lineage is noted as haste.
LEMMA ElsewhereHasteStep ==
    ASSUME TypeOK, Inv, HasteInv, NEW c \in Clients, Elsewhere(c),
           \A k \in Keys : status[k] # "none" =>
              status'[k] # "none" /\ origin'[k] = origin[k]
    PROVE  HasteInv'
<1> USE DEF keyVars, rows, lineages
<1>1. /\ call[c] = NoCall /\ UNCHANGED call
      /\ tangled \subseteq hasty
      /\ status \in [Keys -> Statuses] /\ tx \in [Clients -> Txs]
  BY DEF TypeOK, Elsewhere, HasteInv, TangledInHaste, Inv, KeysTypeOK
<1>2. /\ \A d \in Clients : Changing(d) => call[d].k \in Keys
      /\ \A d \in Clients : Changing(d)' <=> Changing(d)
      /\ ~ Changing(c)
  <2>1. NoCall.stage = "none"
    BY DEF NoCall
  <2> QED BY <1>1, <2>1, CallTyped DEF TypeOK, Changing
<1>3. ASSUME NEW k \in Keys, OpenRotate(c, k), hasty' = hasty \cup {origin[k]}
      PROVE  HasteInv'
  <2> DEFINE q == [op |-> "rotate", k |-> k, scopes |-> scopes[k], expiry |-> expiry[k]]
  <2>1. /\ tx' = [tx EXCEPT ![c] = q] /\ UNCHANGED <<status, origin>>
        /\ Tangle(k, Contended(k) \/ status[k] = "revoked")
    BY <1>3 DEF OpenRotate, Open
  <2>2. tx'[c] = q /\ q.op = "rotate" /\ q.k = k /\ \A d \in Clients : d # c => tx'[d] = tx[d]
    BY <1>1, <2>1
  <2> HIDE DEF q
  <2>3. tangled' \subseteq hasty'
    BY <1>1, <1>3, <2>1 DEF Tangle
  <2>4. \A d \in Clients : tx'[d] # Idle =>
           \/ tx'[d] = tx[d] /\ call'[d] = call[d]
           \/ tx'[d].op = "rotate" /\ call'[d] = NoCall /\ origin'[tx'[d].k] \in hasty'
    BY <1>1, <1>3, <2>1, <2>2
  <2> QED BY <1>1, <1>2, <1>3, <2>1, <2>3, <2>4, HasteKept
<1>4. ASSUME NEW k \in Keys, Revoke(k), hasty' = hasty \cup {origin[k]}
      PROVE  HasteInv'
  <2>1. UNCHANGED tx /\ Tangle(k, Contended(k)) /\ status' = [status EXCEPT ![k] = "revoked"]
    BY <1>4 DEF Revoke
  <2>2. tangled' \subseteq hasty'
    BY <1>1, <1>4, <2>1 DEF Tangle
  <2>3. \A j \in Keys : origin[j] \notin hasty' => status'[j] = status[j]
    BY <1>1, <1>4, <2>1
  <2> QED BY <1>1, <1>2, <1>4, <2>1, <2>2, <2>3, HasteKept
<1>5. ASSUME NEW n \in Keys, CommitRotate(c, n), UNCHANGED hasty
      PROVE  HasteInv'
  <2>1. tx[c].op = "rotate" /\ tx[c] # Idle
    BY <1>5, IdleTyped DEF CommitRotate
  <2>2. origin[tx[c].k] \in hasty
    BY <1>2, <2>1 DEF HasteInv, TxsFit
  <2>3. /\ status' = [status EXCEPT ![tx[c].k] = "revoked", ![n] = "live"]
        /\ status[n] = "none" /\ tx' = [tx EXCEPT ![c] = Idle] /\ UNCHANGED tangled
    BY <1>5 DEF CommitRotate, Insert, Close
  <2>4. \A d \in Clients : Changing(d) /\ origin[call[d].k] \notin hasty' =>
           status'[call[d].k] = status[call[d].k]
    <3> SUFFICES ASSUME NEW d \in Clients, Changing(d), origin[call[d].k] \notin hasty
                 PROVE  status'[call[d].k] = status[call[d].k]
      BY <1>5
    <3>1. call[d].k \in Keys /\ call[d].k # n /\ call[d].k # tx[c].k
      BY <1>2, <2>2, <2>3 DEF HasteInv, CallsFit
    <3> QED BY <1>1, <2>3, <3>1
  <2>5. \A d \in Clients : tx'[d] # Idle => tx'[d] = tx[d]
    BY <1>1, <2>3
  <2> QED BY <1>1, <1>2, <1>5, <2>3, <2>4, <2>5, HasteKept
<1>6. ASSUME Rollback(c), UNCHANGED hasty
      PROVE  HasteInv'
  <2>1. tx' = [tx EXCEPT ![c] = Idle] /\ UNCHANGED <<status, origin, tangled>>
    BY <1>6 DEF Rollback, Close
  <2>2. \A d \in Clients : tx'[d] # Idle => tx'[d] = tx[d]
    BY <1>1, <2>1
  <2> QED BY <1>1, <1>2, <1>6, <2>1, <2>2, HasteKept
<1> QED BY <1>3, <1>4, <1>5, <1>6 DEF Elsewhere

LEMMA HasteStep ==
    ASSUME TypeOK, Inv, ListedInv, HasteInv, [Next]_vars
    PROVE  HasteInv'
<1>1. \A k \in Keys : status[k] # "none" => status'[k] # "none" /\ origin'[k] = origin[k]
  BY RowsRemain
<1>2. /\ call \in [Clients -> Calls] /\ NoCall \in Calls
      /\ NoCall.stage = "none" /\ NoCall.op = "none"
  BY DEF TypeOK, Calls, NoCall
<1>3. ASSUME UNCHANGED <<keyVars, hasty, call>>
      PROVE  HasteInv'
  BY <1>3, HasteStays DEF Changing
\* One client, with no transaction, sends a call that changes no key, or hears
\* of its own.
<1>4. ASSUME NEW c \in Clients, NEW q, UNCHANGED <<keyVars, hasty>>,
             call' = [call EXCEPT ![c] = q], ~ (q.stage = "sent" /\ q.op \in {"rotate", "revoke"}),
             tx[c] = Idle
      PROVE  HasteInv'
  <2>1. call'[c] = q /\ \A d \in Clients : d # c => call'[d] = call[d]
    BY <1>2, <1>4
  <2> QED BY <1>4, <2>1, HasteStays DEF Changing
<1>5. ASSUME NEW c \in Clients, NEW k \in Keys, ClickRotate(c, k) \/ ClickRevoke(c, k)
      PROVE  HasteInv'
  BY <1>5, ClickStep DEF ClickRotate, ClickRevoke
<1>6. ASSUME NEW c \in Clients, NEW chosen \in Grants, NEW e \in Expiries,
             SubmitForm(c, chosen, e)
      PROVE  HasteInv'
  <2> DEFINE q == [from |-> "form", op |-> "create", stage |-> "sent", k |-> NoKey,
                   scopes |-> Posted(chosen), expiry |-> e]
  <2>1. q.op = "create"
    OBVIOUS
  <2>2. tx[c] = Idle /\ call' = [call EXCEPT ![c] = q] /\ UNCHANGED <<keyVars, hasty>>
    BY <1>6 DEF SubmitForm, Send
  <2> HIDE DEF q
  <2> QED BY <1>4, <2>1, <2>2
<1>7. ASSUME NEW c \in Clients, WizardCreate(c)
      PROVE  HasteInv'
  <2> DEFINE q == [from |-> "wizard", op |-> "create", stage |-> "sent", k |-> NoKey,
                   scopes |-> WizardScopes, expiry |-> Never]
  <2>1. q.op = "create"
    OBVIOUS
  <2>2. tx[c] = Idle /\ call' = [call EXCEPT ![c] = q] /\ UNCHANGED <<keyVars, hasty>>
    BY <1>7 DEF WizardCreate, Send
  <2> HIDE DEF q
  <2> QED BY <1>4, <2>1, <2>2
<1>8. ASSUME NEW c \in Clients, WizardTest(c)
      PROVE  HasteInv'
  <2> DEFINE q == [from |-> "wizard", op |-> "test", stage |-> "sent", k |-> apiKey]
  <2>1. q.op = "test"
    OBVIOUS
  <2>2. tx[c] = Idle /\ call' = [call EXCEPT ![c] = q] /\ UNCHANGED <<keyVars, hasty>>
    BY <1>8 DEF WizardTest, Send
  <2> HIDE DEF q
  <2> QED BY <1>4, <2>1, <2>2
<1>9. ASSUME NEW c \in Clients, Answer(c)
      PROVE  HasteInv'
  <2>1. call[c].stage # "sent" /\ call[c] # NoCall
    BY <1>2, <1>9 DEF Answer
  <2>2. tx[c] = Idle
    BY <2>1 DEF HasteInv, TxsFit, Changing
  <2> QED BY <1>2, <1>4, <1>9, <2>2 DEF Answer
\* Calls that nobody waits for any more are served all the same.
<1>10. ASSUME UNCHANGED <<keyVars, hasty>>,
              \A d \in Clients : call'[d] = call[d] \/ call'[d] = Forsaken(call[d])
       PROVE  HasteInv'
  <2>1. ASSUME NEW d \in Clients
        PROVE  /\ Changing(d)' => Changing(d)
               /\ Changing(d) => /\ Changing(d)' /\ call'[d].op = call[d].op
                                 /\ call'[d].k = call[d].k
               /\ call[d] = NoCall => call'[d] = NoCall
    <3>1. call[d] \in Calls
      BY <1>2
    <3>2. CASE call'[d] = call[d]
      BY <3>2 DEF Changing
    <3>3. CASE call'[d] = Forsaken(call[d])
      BY <3>1, <3>3, ForsakenTyped DEF Changing
    <3> QED BY <1>10, <3>2, <3>3
  <2> QED BY <1>10, <2>1, HasteStays
<1>11. ASSUME NEW c \in Clients, Lose(c)
       PROVE  HasteInv'
  <2>1. call' = [call EXCEPT ![c] = Forsaken(call[c])] /\ UNCHANGED <<keyVars, hasty>>
    BY <1>11 DEF Lose
  <2>2. \A d \in Clients : call'[d] = call[d] \/ call'[d] = Forsaken(call[d])
    BY <1>2, <2>1
  <2> QED BY <1>10, <2>1, <2>2
<1>12. ASSUME NEW p \in {"keys", "onboarding"}, Visit(p)
       PROVE  HasteInv'
  BY <1>10, <1>12 DEF Visit
<1>13. CASE Continue \/ Reset
  BY <1>10, <1>13 DEF Continue, Reset, Unmount
<1>14. CASE Click \/ Refresh
  BY <1>3, <1>14 DEF Click, Refresh
<1>15. CASE UNCHANGED vars
  BY <1>3, <1>15 DEF vars
<1>16. ASSUME NEW c \in Clients, Serve(c) \/ Elsewhere(c)
       PROVE  HasteInv'
  BY <1>1, <1>16, ServeHasteStep, ElsewhereHasteStep
<1> QED BY <1>5, <1>6, <1>7, <1>8, <1>9, <1>11, <1>12, <1>13, <1>14, <1>15, <1>16
        DEF Next, Table, Wizard

\* The inductive invariant of the tab with the service behind it.
THEOREM DeskInvariance == Spec => []DeskInv
<1>1. Init => DeskInv
  <2> SUFFICES ASSUME Init PROVE DeskInv
    OBVIOUS
  <2>1. Inv
    BY KeysStart DEF Init
  <2>2. NoCall \in Calls /\ NoCall.stage = "none"
    BY DEF NoCall, Calls
  <2>3. TypeOK
    <3>1. call \in [Clients -> Calls] /\ listed \in [Keys -> Statuses]
      BY <2>2 DEF Init, Statuses
    <3> QED BY <2>1, <3>1, StepsShown DEF Init, TypeOK, Inv
  <2>4. ListedInv
    BY DEF Init, ListedInv
  <2>5. /\ \A c \in Clients : ~ Changing(c) /\ tx[c] = Idle
        /\ tangled = {}
    BY <2>2 DEF Init, KeysInit, Changing
  <2>6. HasteInv
    BY <2>5 DEF HasteInv, CallsFit, TxsFit, Sole, TangledInHaste
  <2>7. WizardInOrder
    <3>1. step = 1 /\ completed = {} /\ apiKey = NoKey
      BY DEF Init
    <3> QED BY <3>1 DEF WizardInOrder
  <2> QED BY <2>1, <2>3, <2>4, <2>6, <2>7 DEF DeskInv
<1>2. DeskInv /\ [Next]_vars => DeskInv'
  BY TypeStep, KeysStep, ListedStep, HasteStep, WizardStep DEF DeskInv
<1> QED BY <1>1, <1>2, PTL DEF Spec

\* The tab's state and its calls keep their types.
THEOREM DeskTypeCorrect == Spec => []TypeOK
BY DeskInvariance, PTL DEF DeskInv

\* A lineage that the table's buttons tangle was clicked on while the list was
\* behind or beside another call, or was changed by others (ApiKeyTable).
THEOREM TangledInHasteHolds == Spec => []TangledInHaste
BY DeskInvariance, PTL DEF DeskInv, HasteInv

\* The wizard has ticked off the steps before the one it is on, and has a key
\* past the first, whatever it waits for when it is reset (OnboardingWizard).
THEOREM WizardInOrderHolds == Spec => []WizardInOrder
BY DeskInvariance, PTL DEF DeskInv

\* Of the keys of a lineage that was never changed in haste, one works at most,
\* with the scopes and the expiry last asked for, and none after a revocation.
Unhurried ==
    /\ \A j, k \in Keys :
          status[j] = "live" /\ status[k] = "live" /\ origin[j] = origin[k]
             => j = k \/ origin[k] \in hasty
    /\ \A k \in Keys :
          status[k] = "live" /\ origin[k] \notin hasty =>
             /\ origin[k] \notin revoked
             /\ asked[origin[k]] = [scopes |-> scopes[k], expiry |-> expiry[k]]

\* What the pages promise their user, who waits for the list: the sum of what
\* the service keeps of lineages that are not tangled and of how the table
\* keeps them so (ApiKeyTable, rotateApiKey, revokeApiKey).
THEOREM UnhurriedHolds == Spec => []Unhurried
<1>1. DeskInv => Unhurried
  BY DEF DeskInv, Inv, HasteInv, TangledInHaste, OneLiveKey, KeptAsAsked, Unhurried
<1> QED BY <1>1, DeskInvariance, PTL

\* The service with every list of scopes and every expiry date admitted.
Wide == INSTANCE ApiKeys WITH Grants <- (SUBSET AllScopes) \ {{}}, Expiries <- Nat

\* A creation names some scope.
Named == \A c \in Clients : Sent(c, "create") => call[c].scopes # {}

\* The two services differ in what they admit, not in what they do.
LEMMA SameKeys ==
    /\ \A n, g, e : Create(n, g, e) <=> Wide!Create(n, g, e)
    /\ \A k : Revoke(k) <=> Wide!Revoke(k)
    /\ \A c, k : OpenRotate(c, k) <=> Wide!OpenRotate(c, k)
    /\ \A c, n : CommitRotate(c, n) <=> Wide!CommitRotate(c, n)
    /\ \A c : Rollback(c) <=> Wide!Rollback(c)
    /\ KeysInit <=> Wide!KeysInit
    /\ keyVars = Wide!keyVars
    /\ Scopes = SUBSET AllScopes
<1> USE DEF rows, lineages, Wide!rows, Wide!lineages
<1>1. \A n, g, e : Create(n, g, e) <=> Wide!Create(n, g, e)
  BY DEF Create, Insert, Wide!Create, Wide!Insert
<1>2. \A k : Revoke(k) <=> Wide!Revoke(k)
  BY DEF Revoke, Tangle, Contended, Idle, Wide!Revoke, Wide!Tangle, Wide!Contended, Wide!Idle
<1>3. \A c, k : OpenRotate(c, k) <=> Wide!OpenRotate(c, k)
  BY DEF OpenRotate, Open, Tangle, Contended, Idle,
         Wide!OpenRotate, Wide!Open, Wide!Tangle, Wide!Contended, Wide!Idle
<1>4. \A c, n : CommitRotate(c, n) <=> Wide!CommitRotate(c, n)
  BY DEF CommitRotate, Insert, Close, Idle,
         Wide!CommitRotate, Wide!Insert, Wide!Close, Wide!Idle
<1>5. \A c : Rollback(c) <=> Wide!Rollback(c)
  BY DEF Rollback, Close, Idle, Wide!Rollback, Wide!Close, Wide!Idle
<1>6. KeysInit <=> Wide!KeysInit
  BY DEF KeysInit, Never, Idle, Wide!KeysInit, Wide!Never, Wide!Idle
<1>7. keyVars = Wide!keyVars
  BY DEF keyVars, Wide!keyVars
<1> QED BY <1>1, <1>2, <1>3, <1>4, <1>5, <1>6, <1>7 DEF Scopes

\* The form and the wizard send no empty list.
LEMMA NamedStep ==
    ASSUME TypeOK, Named, [Next]_vars
    PROVE  Named'
<1>1. call \in [Clients -> Calls] /\ NoCall.op = "none"
  BY DEF TypeOK, NoCall
<1>2. ASSUME NEW c \in Clients, NEW q, call' = [call EXCEPT ![c] = q],
             q.op = "create" /\ q.stage = "sent" => q.scopes # {}
      PROVE  Named'
  BY <1>1, <1>2 DEF Named, Sent
<1>3. ASSUME UNCHANGED call
      PROVE  Named'
  BY <1>3 DEF Named, Sent
<1>4. ASSUME NEW q \in Calls, Forsaken(q).op = "create", Forsaken(q).stage = "sent"
      PROVE  q.op = "create" /\ q.stage = "sent" /\ Forsaken(q).scopes = q.scopes
  <2>1. q.stage = "sent" /\ q.op # "test" /\ Forsaken(q) = [q EXCEPT !.from = "nobody"]
    BY <1>1, <1>4 DEF Forsaken
  <2>2. \/ q \in [from : {"table", "nobody"}, op : {"rotate", "revoke"},
                  stage : {"sent", "done", "failed"}, k : Keys]
        \/ q \in [from : {"form", "wizard", "nobody"}, op : {"create"},
                  stage : {"sent"}, k : {NoKey}, scopes : Scopes, expiry : Nat]
        \/ q \in [from : {"form", "wizard"}, op : {"create"},
                  stage : {"done", "failed"}, k : Keys \cup {NoKey}]
    BY <1>1, <1>4, <2>1 DEF Calls, NoCall
  <2> QED BY <1>4, <2>1, <2>2
<1>5. ASSUME \A d \in Clients : call'[d] = call[d] \/ call'[d] = Forsaken(call[d])
      PROVE  Named'
  BY <1>1, <1>4, <1>5 DEF Named, Sent
<1>6. ASSUME NEW c \in Clients, NEW s \in {"done", "failed"}, NEW k, Reply(c, s, k)
      PROVE  Named'
  <2> DEFINE r == [from |-> call[c].from, op |-> call[c].op, stage |-> s, k |-> k]
  <2>1. r.stage # "sent"
    OBVIOUS
  <2>2. call' = [call EXCEPT ![c] = NoCall] \/ call' = [call EXCEPT ![c] = r]
    BY <1>6 DEF Reply
  <2> HIDE DEF r
  <2> QED BY <1>1, <1>2, <2>1, <2>2
<1>7. ASSUME NEW c \in Clients, Serve(c)
      PROVE  Named'
  BY <1>3, <1>6, <1>7 DEF Serve, ServeCreate, FinishRotate, ServeRevoke, ServeRotate,
                          ServeTest, ServeNot
<1>8. ASSUME NEW c \in Clients, NEW k \in Keys, ClickRotate(c, k) \/ ClickRevoke(c, k)
      PROVE  Named'
  BY <1>2, <1>8 DEF ClickRotate, ClickRevoke, Send
<1>9. ASSUME NEW c \in Clients, NEW chosen \in Grants, NEW e \in Expiries,
             SubmitForm(c, chosen, e)
      PROVE  Named'
  <2>1. Posted(chosen) # {}
    BY ApiKeysAssumption DEF Posted
  <2> QED BY <1>2, <1>9, <2>1 DEF SubmitForm, Send
<1>10. ASSUME NEW c \in Clients, WizardCreate(c) \/ WizardTest(c)
       PROVE  Named'
  <2>1. WizardScopes # {}
    BY DEF WizardScopes
  <2> QED BY <1>2, <1>10, <2>1 DEF WizardCreate, WizardTest, Send
<1>11. ASSUME NEW c \in Clients, Answer(c)
       PROVE  Named'
  BY <1>1, <1>2, <1>11 DEF Answer
<1>12. ASSUME NEW c \in Clients, Lose(c)
       PROVE  Named'
  BY <1>1, <1>5, <1>12 DEF Lose
<1>13. ASSUME NEW p \in {"keys", "onboarding"}, Visit(p)
       PROVE  Named'
  BY <1>5, <1>13 DEF Visit
<1>14. CASE Continue \/ Reset
  BY <1>5, <1>14 DEF Continue, Reset, Unmount
<1>15. Click \/ Refresh \/ UNCHANGED vars \/ (\E c \in Clients : Elsewhere(c)) => UNCHANGED call
  BY DEF Click, Refresh, vars, Elsewhere
<1> QED BY <1>3, <1>7, <1>8, <1>9, <1>10, <1>11, <1>12, <1>13, <1>14, <1>15
        DEF Next, Table, Wizard

\* What the tab, and others beside it, do to the keys the service offers to
\* everyone: a call made in steps, given up or lost in between, changes a key
\* as one request does or not at all (apiClient, the routes of api-keys).
THEOREM DeskUsesTheKeys == Spec => Wide!KeysSpec
<1>1. Init => Wide!KeysInit
  BY SameKeys DEF Init
<1>2. Init => Named
  BY DEF Init, Named, Sent, NoCall
<1>3. ASSUME TypeOK, Named, [Next]_vars
      PROVE  [Wide!KeysNext]_(Wide!keyVars)
  <2>1. UNCHANGED keyVars => UNCHANGED Wide!keyVars
    BY SameKeys DEF keyVars, rows, lineages, Wide!keyVars, Wide!rows, Wide!lineages
  <2>2. ASSUME NEW c \in Clients, Serve(c)
        PROVE  Wide!KeysNext \/ UNCHANGED keyVars
    <3>1. call[c] \in Calls
      BY <1>3 DEF TypeOK
    <3>2. ASSUME NEW n \in Keys, ServeCreate(c, n)
          PROVE  Wide!KeysNext
      <4>1. call[c].scopes \in (SUBSET AllScopes) \ {{}} /\ call[c].expiry \in Nat
        BY <1>3, <3>1, <3>2, CallTyped DEF ServeCreate, Sent, Named, Scopes
      <4> QED BY <3>2, <4>1, SameKeys DEF ServeCreate, Wide!KeysNext
    <3>3. ASSUME NEW n \in Keys, FinishRotate(c, n)
          PROVE  Wide!KeysNext
      BY <3>3, SameKeys DEF FinishRotate, Wide!KeysNext, Wide!KeyCall
    <3>4. CASE ServeRevoke(c) \/ ServeRotate(c)
      <4>1. call[c].k \in Keys
        BY <3>1, <3>4, CallTyped DEF ServeRevoke, ServeRotate, Sent
      <4> QED BY <3>4, <4>1, SameKeys DEF ServeRevoke, ServeRotate, Wide!KeysNext, Wide!KeyCall
    <3>5. CASE ServeTest(c) \/ ServeNot(c)
      BY <3>5, SameKeys DEF ServeTest, ServeNot, Wide!KeysNext, Wide!KeyCall
    <3> QED BY <2>2, <3>2, <3>3, <3>4, <3>5 DEF Serve
  <2>3. ASSUME NEW c \in Clients, Elsewhere(c)
        PROVE  Wide!KeysNext
    BY <2>3, SameKeys DEF Elsewhere, Wide!KeysNext, Wide!KeyCall
  <2>4. /\ Table => UNCHANGED keyVars
        /\ Wizard => UNCHANGED keyVars
    BY DEF Table, ClickRotate, ClickRevoke, SubmitForm, Click, Refresh,
           Wizard, WizardCreate, WizardTest, Continue, Reset
  <2>5. ASSUME NEW c \in Clients, Answer(c) \/ Lose(c)
        PROVE  UNCHANGED keyVars
    BY <2>5 DEF Answer, Lose
  <2>6. ASSUME NEW p \in {"keys", "onboarding"}, Visit(p)
        PROVE  UNCHANGED keyVars
    BY <2>6 DEF Visit
  <2>7. UNCHANGED vars => UNCHANGED keyVars
    BY DEF vars
  <2> QED BY <1>3, <2>1, <2>2, <2>3, <2>4, <2>5, <2>6, <2>7 DEF Next
<1>4. TypeOK /\ Named /\ [Next]_vars => Named'
  BY NamedStep
<1> QED BY <1>1, <1>2, <1>3, <1>4, DeskTypeCorrect, PTL DEF Spec, Wide!KeysSpec
================================================================================
