----------------------------- MODULE AssetRegistry -----------------------------
(***************************************************************************)
(* The asset inventory of one organization: assets are created by hand or  *)
(* imported from a file under an idempotency key, their ownership is       *)
(* verified by challenges, and they are retired.                           *)
(*                                                                         *)
(* As everywhere in the portal a call is an interactive transaction at     *)
(* READ COMMITTED that writes by id what it decided from earlier reads.    *)
(* An import is many of them: one per row, and two for its record.  The    *)
(* partial unique index on (type, canonicalIdentifier) of the assets that  *)
(* are not retired is the only thing that stops two overlapping inserts.   *)
(***************************************************************************)
EXTENDS Naturals, Sequences, FiniteSets

CONSTANTS Identifiers,   \* the pairs of a type and a canonical identifier
          NoIdentifier,  \* the identifier of a row that does not exist
          Malformed,     \* a row of a file that validateRow refuses
          Files,         \* the files that may be imported: sequences of rows
          Assets,        \* the names of the Asset rows that may be created
          Challenges,    \* the AssetVerification rows, numbered by createdAt
          NoAsset,       \* the asset of a challenge that does not exist
          Keys,          \* the idempotency keys
          Clients        \* the users; each has at most one call in progress

ASSUME RegistryAssumption ==
    /\ NoIdentifier \notin Identifiers
    /\ Malformed \notin Identifiers
    /\ NoAsset \notin Assets
    /\ Challenges \subseteq Nat
    /\ Files \subseteq Seq(Identifiers \cup {Malformed})

VARIABLES identifier,   \* Asset.canonicalIdentifier, with the type
          life,         \* Asset.lifecycleState
          verification, \* Asset.verificationState
          subject,      \* AssetVerification.assetId
          challenge,    \* AssetVerification.status
          overdue,      \* the challenges issued more than 24 hours ago
          proofs,       \* the tokens each asset was verified with
          recorded,     \* the keys with an AssetImport row
          summary,      \* AssetImport.summary (the rows it counts)
          answers,      \* what the imports of each key have answered
          tx            \* what the call of a client has read so far

assetVars == <<identifier, life, verification>>
challengeVars == <<subject, challenge, overdue, proofs>>
importVars == <<recorded, summary, answers>>
vars == <<assetVars, challengeVars, importVars, tx>>

-----------------------------------------------------------------------------
Lives == {"none", "pending_verification", "active", "retired"}

Summaries == [created : SUBSET Identifiers, duplicates : SUBSET Identifiers,
              invalid : SUBSET (Identifiers \cup {Malformed})]

NoRows == [created |-> {}, duplicates |-> {}, invalid |-> {}]

Idle == [op |-> "idle"]

Txs ==
    {Idle}
    \cup [op : {"create"}, i : Identifiers]
    \cup [op : {"challenge"}, a : Assets, ch : Challenges]
    \cup [op : {"verify"}, a : Assets, ch : Challenges, token : Challenges,
          phase : {"pending", "passed"}]
    \cup [op : {"import"}, k : Keys, rest : Seq(Identifiers \cup {Malformed}),
          sum : Summaries, phase : {"row", "insert", "lookup", "record"}]

TypeOK ==
    /\ identifier \in [Assets -> Identifiers \cup {NoIdentifier}]
    /\ life \in [Assets -> Lives]
    /\ verification \in [Assets -> {"unverified", "pending", "verified"}]
    /\ subject \in [Challenges -> Assets \cup {NoAsset}]
    /\ challenge \in [Challenges -> {"none", "pending", "expired", "verified"}]
    /\ overdue \subseteq Challenges
    /\ proofs \in [Assets -> SUBSET Challenges]
    /\ recorded \subseteq Keys
    /\ summary \in [Keys -> Summaries]
    /\ answers \in [Keys -> SUBSET Summaries]
    /\ tx \in [Clients -> Txs]

Init ==
    /\ identifier = [a \in Assets |-> NoIdentifier]
    /\ life = [a \in Assets |-> "none"]
    /\ verification = [a \in Assets |-> "unverified"]
    /\ subject = [ch \in Challenges |-> NoAsset]
    /\ challenge = [ch \in Challenges |-> "none"]
    /\ overdue = {}
    /\ proofs = [a \in Assets |-> {}]
    /\ recorded = {}
    /\ summary = [k \in Keys |-> NoRows]
    /\ answers = [k \in Keys |-> {}]
    /\ tx = [c \in Clients |-> Idle]

-----------------------------------------------------------------------------
Open(c, read) == tx[c] = Idle /\ tx' = [tx EXCEPT ![c] = read]

Close(c) == tx' = [tx EXCEPT ![c] = Idle]

\* A guard throws, an index refuses a write, the transaction fails, or the
\* process dies.  What earlier transactions of the call committed stays.
Rollback(c) ==
    /\ tx[c] # Idle
    /\ Close(c)
    /\ UNCHANGED <<assetVars, challengeVars, importVars>>

-----------------------------------------------------------------------------
(* createAsset and retireAsset.                                            *)

Exists(a) == life[a] # "none"

LiveAssets == {a \in Assets : life[a] \in {"pending_verification", "active"}}

Live(i) == {a \in LiveAssets : identifier[a] = i}

\* Mutant: there is no partial unique index.
InsertUnchecked(i) == \E a \in Assets :
    /\ ~ Exists(a)
    /\ identifier' = [identifier EXCEPT ![a] = i]
    /\ life' = [life EXCEPT ![a] = "pending_verification"]
    /\ UNCHANGED <<verification, challengeVars>>

Insert(i) == \E a \in Assets :
    /\ ~ Exists(a)
    /\ Live(i) = {}
    /\ identifier' = [identifier EXCEPT ![a] = i]
    /\ life' = [life EXCEPT ![a] = "pending_verification"]
    /\ UNCHANGED <<verification, challengeVars>>

OpenCreate(c, i) ==
    /\ Live(i) = {}
    /\ Open(c, [op |-> "create", i |-> i])
    /\ UNCHANGED <<assetVars, challengeVars, importVars>>

CommitCreate(c) ==
    /\ tx[c].op = "create"
    /\ Insert(tx[c].i)
    /\ Close(c)
    /\ UNCHANGED importVars

\* It decides nothing from what it reads, and no row is ever deleted: the
\* call comes to its write.
Retire(a) ==
    /\ Exists(a)
    /\ life' = [life EXCEPT ![a] = "retired"]
    /\ UNCHANGED <<identifier, verification, challengeVars, importVars, tx>>

-----------------------------------------------------------------------------
(* createVerificationChallenge and verifyAssetToken.                       *)

\* Later than every challenge that exists or is being created.
Newest(ch) ==
    /\ \A x \in Challenges : challenge[x] # "none" => x < ch
    /\ \A d \in Clients : tx[d].op = "challenge" => tx[d].ch < ch

OpenChallenge(c, a, ch) ==
    /\ life[a] \notin {"none", "retired"}
    /\ Newest(ch)
    /\ Open(c, [op |-> "challenge", a |-> a, ch |-> ch])
    /\ UNCHANGED <<assetVars, challengeVars, importVars>>

CommitChallenge(c) ==
    /\ tx[c].op = "challenge"
    /\ subject' = [subject EXCEPT ![tx[c].ch] = tx[c].a]
    /\ challenge' = [challenge EXCEPT ![tx[c].ch] = "pending"]
    /\ verification' = [verification EXCEPT ![tx[c].a] = "pending"]
    /\ Close(c)
    /\ UNCHANGED <<identifier, life, overdue, proofs, importVars>>

\* A day passes since the challenge was issued.
Age(ch) ==
    /\ challenge[ch] # "none"
    /\ overdue' = overdue \cup {ch}
    /\ UNCHANGED <<assetVars, subject, challenge, proofs, importVars, tx>>

\* Mutant: the pending challenges are not filtered by asset.
PendingOfAny(a) == {ch \in Challenges : challenge[ch] = "pending"}

Pending(a) == {ch \in Challenges : challenge[ch] = "pending" /\ subject[ch] = a}

LatestPending(a) == {ch \in Pending(a) : \A x \in Pending(a) : x <= ch}

\* The client presents the token of some challenge.
OpenVerify(c, a, token) ==
    /\ \E ch \in LatestPending(a) :
          Open(c, [op |-> "verify", a |-> a, ch |-> ch, token |-> token, phase |-> "pending"])
    /\ UNCHANGED <<assetVars, challengeVars, importVars>>

\* The asset is read: it is not retired, the challenge not expired, and the
\* token the one that was issued with it.
PassVerify(c) ==
    /\ tx[c].op = "verify"
    /\ tx[c].phase = "pending"
    /\ life[tx[c].a] # "retired"
    /\ tx[c].ch \notin overdue
    /\ tx[c].token = tx[c].ch
    /\ tx' = [tx EXCEPT ![c] = [op |-> "verify", a |-> tx[c].a, ch |-> tx[c].ch,
                                token |-> tx[c].token, phase |-> "passed"]]
    /\ UNCHANGED <<assetVars, challengeVars, importVars>>

\* Mutant: the asset's own state is set to the "expired" that the schema lists
\* and no code writes.
ExpireVerifyAsset(c) ==
    /\ tx[c].op = "verify"
    /\ tx[c].phase = "pending"
    /\ life[tx[c].a] # "retired"
    /\ tx[c].ch \in overdue
    /\ challenge' = [challenge EXCEPT ![tx[c].ch] = "expired"]
    /\ verification' = [verification EXCEPT ![tx[c].a] = "expired"]
    /\ Close(c)
    /\ UNCHANGED <<identifier, life, subject, overdue, proofs, importVars>>

\* "expired" is written in a transaction of its own, and the call throws.
ExpireVerify(c) ==
    /\ tx[c].op = "verify"
    /\ tx[c].phase = "pending"
    /\ life[tx[c].a] # "retired"
    /\ tx[c].ch \in overdue
    /\ challenge' = [challenge EXCEPT ![tx[c].ch] = "expired"]
    /\ Close(c)
    /\ UNCHANGED <<assetVars, subject, overdue, proofs, importVars>>

\* Mutant: the index looks at inserts only.
CommitVerifyUnindexed(c) ==
    /\ tx[c].op = "verify"
    /\ tx[c].phase = "passed"
    /\ challenge' = [challenge EXCEPT ![tx[c].ch] = "verified"]
    /\ verification' = [verification EXCEPT ![tx[c].a] = "verified"]
    /\ life' = [life EXCEPT ![tx[c].a] = "active"]
    /\ proofs' = [proofs EXCEPT ![tx[c].a] = @ \cup {tx[c].token}]
    /\ Close(c)
    /\ UNCHANGED <<identifier, subject, overdue, importVars>>

\* The two blind updates; the index admits no second live asset.
CommitVerify(c) ==
    /\ tx[c].op = "verify"
    /\ tx[c].phase = "passed"
    /\ Live(identifier[tx[c].a]) \subseteq {tx[c].a}
    /\ challenge' = [challenge EXCEPT ![tx[c].ch] = "verified"]
    /\ verification' = [verification EXCEPT ![tx[c].a] = "verified"]
    /\ life' = [life EXCEPT ![tx[c].a] = "active"]
    /\ proofs' = [proofs EXCEPT ![tx[c].a] = @ \cup {tx[c].token}]
    /\ Close(c)
    /\ UNCHANGED <<identifier, subject, overdue, importVars>>

-----------------------------------------------------------------------------
(* applyImport.                                                            *)

OpenImport(c, k, file) ==
    /\ k \notin recorded
    /\ Open(c, [op |-> "import", k |-> k, rest |-> file, sum |-> NoRows, phase |-> "row"])
    /\ UNCHANGED <<assetVars, challengeVars, importVars>>

Answer(k, s) == answers' = [answers EXCEPT ![k] = @ \cup {s}]

\* A key with a record is answered from it, whatever the file.
ReplayImport(c, k) ==
    /\ tx[c] = Idle
    /\ k \in recorded
    /\ Answer(k, summary[k])
    /\ UNCHANGED <<assetVars, challengeVars, recorded, summary, tx>>

AtRow(c, phase) == tx[c].op = "import" /\ tx[c].phase = phase /\ tx[c].rest # <<>>

Row(c) == Head(tx[c].rest)

\* The rows of the file decided before: the set "seen" of the code.
Seen(s) == s.created \cup s.duplicates \cup s.invalid

Listed(s, list, row) == [s EXCEPT ![list] = s[list] \cup {row}]

\* The row is put in one of the lists, and the next one is taken.
Decide(c, list) ==
    tx' = [tx EXCEPT ![c] = [op |-> "import", k |-> tx[c].k, rest |-> Tail(tx[c].rest),
                             sum |-> Listed(tx[c].sum, list, Row(c)), phase |-> "row"]]

Continue(c, phase) ==
    tx' = [tx EXCEPT ![c] = [op |-> "import", k |-> tx[c].k, rest |-> tx[c].rest,
                             sum |-> tx[c].sum, phase |-> phase]]

InvalidRow(c) ==
    /\ AtRow(c, "row")
    /\ Row(c) = Malformed
    /\ Decide(c, "invalid")
    /\ UNCHANGED <<assetVars, challengeVars, importVars>>

\* The row occurred in the file before, or createAsset finds a live asset.
DuplicateRow(c) ==
    /\ AtRow(c, "row")
    /\ Row(c) # Malformed
    /\ Row(c) \in Seen(tx[c].sum) \/ Live(Row(c)) # {}
    /\ Decide(c, "duplicates")
    /\ UNCHANGED <<assetVars, challengeVars, importVars>>

NewRow(c) ==
    /\ AtRow(c, "row")
    /\ Row(c) # Malformed
    /\ Row(c) \notin Seen(tx[c].sum)
    /\ Live(Row(c)) = {}
    /\ Continue(c, "insert")
    /\ UNCHANGED <<assetVars, challengeVars, importVars>>

InsertRow(c) ==
    /\ AtRow(c, "insert")
    /\ Insert(Row(c))
    /\ Decide(c, "created")
    /\ UNCHANGED importVars

\* The index refuses the insert (P2002).
ClashRow(c) ==
    /\ AtRow(c, "insert")
    /\ Live(Row(c)) # {}
    /\ Continue(c, "lookup")
    /\ UNCHANGED <<assetVars, challengeVars, importVars>>

\* findExisting, in a transaction of its own, finds the asset it clashed with.
LookupRow(c) ==
    /\ AtRow(c, "lookup")
    /\ Live(Row(c)) # {}
    /\ Decide(c, "duplicates")
    /\ UNCHANGED <<assetVars, challengeVars, importVars>>

AtFreshRow(c) ==
    /\ AtRow(c, "row") \/ AtRow(c, "insert") \/ AtRow(c, "lookup")
    /\ Row(c) # Malformed
    /\ Row(c) \notin Seen(tx[c].sum)

\* Mutant: a row whose insert fails is taken for a duplicate.
FailRowAsDuplicate(c) ==
    /\ AtFreshRow(c)
    /\ Decide(c, "duplicates")
    /\ UNCHANGED <<assetVars, challengeVars, importVars>>

\* createAsset throws anything but DuplicateAssetError: one of its transactions
\* failed, or the asset that the insert clashed with is gone again.
FailRow(c) ==
    /\ AtFreshRow(c)
    /\ Decide(c, "invalid")
    /\ UNCHANGED <<assetVars, challengeVars, importVars>>

AtEnd(c, phase) == tx[c].op = "import" /\ tx[c].phase = phase /\ tx[c].rest = <<>>

\* Mutant: the loser of a race answers what it has done itself.
LoseImportOwn(c) ==
    /\ AtEnd(c, "row")
    /\ tx[c].k \in recorded
    /\ Answer(tx[c].k, tx[c].sum)
    /\ Close(c)
    /\ UNCHANGED <<assetVars, challengeVars, recorded, summary>>

\* Another import with the same key was recorded meanwhile.
LoseImport(c) ==
    /\ AtEnd(c, "row")
    /\ tx[c].k \in recorded
    /\ Answer(tx[c].k, summary[tx[c].k])
    /\ Close(c)
    /\ UNCHANGED <<assetVars, challengeVars, recorded, summary>>

OpenRecord(c) ==
    /\ AtEnd(c, "row")
    /\ tx[c].k \notin recorded
    /\ Continue(c, "record")
    /\ UNCHANGED <<assetVars, challengeVars, importVars>>

\* @@unique([organizationId, idempotencyKey]) refuses a second record, and the
\* call fails.
CommitRecord(c) ==
    /\ AtEnd(c, "record")
    /\ tx[c].k \notin recorded
    /\ recorded' = recorded \cup {tx[c].k}
    /\ summary' = [summary EXCEPT ![tx[c].k] = tx[c].sum]
    /\ Answer(tx[c].k, tx[c].sum)
    /\ Close(c)
    /\ UNCHANGED <<assetVars, challengeVars>>

-----------------------------------------------------------------------------
AssetCall(c) ==
    \/ Rollback(c)
    \/ \E i \in Identifiers : OpenCreate(c, i)
    \/ CommitCreate(c)
    \/ \E a \in Assets, ch \in Challenges : OpenChallenge(c, a, ch) \/ OpenVerify(c, a, ch)
    \/ CommitChallenge(c)
    \/ PassVerify(c) \/ ExpireVerify(c) \/ CommitVerify(c)

ImportCall(c) ==
    \/ \E k \in Keys : ReplayImport(c, k) \/ \E file \in Files : OpenImport(c, k, file)
    \/ InvalidRow(c) \/ DuplicateRow(c) \/ NewRow(c)
    \/ InsertRow(c) \/ ClashRow(c) \/ LookupRow(c) \/ FailRow(c)
    \/ LoseImport(c) \/ OpenRecord(c) \/ CommitRecord(c)

Next ==
    \/ \E c \in Clients : AssetCall(c) \/ ImportCall(c)
    \/ \E a \in Assets : Retire(a)
    \/ \E ch \in Challenges : Age(ch)

Spec == Init /\ [][Next]_vars

-----------------------------------------------------------------------------
(* Properties.                                                             *)

\* Two live assets never have the same identifier, although creations, import
\* rows and verifications of retired assets overlap.
UniqueLive == \A a, b \in LiveAssets : identifier[a] = identifier[b] => a = b

\* An active or verified asset was verified with the token of a challenge
\* that was issued for it, whatever challenges overlap with the verification.
ActiveIsProven ==
    \A a \in Assets : life[a] = "active" \/ verification[a] = "verified" =>
        \E ch \in proofs[a] : subject[ch] = a

\* Every answer to an idempotency key is the stored record of that key, also
\* when imports of the key overlap, fail half-way and are repeated.
AnswersAgree ==
    \A k \in Keys : \A s \in answers[k] : k \in recorded /\ s = summary[k]

\* A row that a recorded import does not report as invalid has an asset.
ImportAccounts ==
    \A k \in recorded :
        \A i \in (summary[k].created \cup summary[k].duplicates) \ summary[k].invalid :
            \E a \in Assets : Exists(a) /\ identifier[a] = i

Shown == INSTANCE Inventory WITH live <- LiveAssets

\* The registry keeps what Inventory states.
KeepsInventory == Shown!Spec
================================================================================
