-------------------------- MODULE AssetRegistryProofs --------------------------
(***************************************************************************)
(* What AssetRegistry keeps for any number of identifiers, assets,         *)
(* challenges, keys and clients, and for any files.                        *)
(*                                                                         *)
(* The invariant adds to the properties what a call in progress relies on: *)
(* the challenge it is about to insert is new, the one it verifies was     *)
(* issued for its asset, and the rows it has accounted for have assets.    *)
(***************************************************************************)
EXTENDS AssetRegistry, TLAPS

Known(i) == \E a \in Assets : Exists(a) /\ identifier[a] = i

Accounted(s) == \A i \in (s.created \cup s.duplicates) \ s.invalid : Known(i)

\* An asset has an identifier from its creation on, and a challenge an asset.
RowInv ==
    /\ \A a \in Assets : Exists(a) <=> identifier[a] \in Identifiers
    /\ \A a \in Assets : ~ Exists(a) => identifier[a] = NoIdentifier
    /\ \A a \in Assets : \A ch \in proofs[a] : challenge[ch] # "none"
    /\ \A ch \in Challenges : challenge[ch] # "none" =>
          subject[ch] \in Assets /\ Exists(subject[ch])

\* What the call in progress of a client has read is still true.
TxOk(c) ==
    /\ tx[c].op = "challenge" => Exists(tx[c].a) /\ challenge[tx[c].ch] = "none"
    /\ tx[c].op = "verify" =>
          /\ challenge[tx[c].ch] # "none"
          /\ subject[tx[c].ch] = tx[c].a
          /\ tx[c].phase = "passed" => Exists(tx[c].a) /\ tx[c].token = tx[c].ch
    /\ tx[c].op = "import" => Accounted(tx[c].sum)

\* No two calls insert the same challenge.
DistinctChallenges ==
    \A c, d \in Clients :
        tx[c].op = "challenge" /\ tx[d].op = "challenge" /\ tx[c].ch = tx[d].ch => c = d

TxInv == (\A c \in Clients : TxOk(c)) /\ DistinctChallenges

Inv ==
    /\ TypeOK
    /\ RowInv
    /\ TxInv
    /\ UniqueLive
    /\ ActiveIsProven
    /\ AnswersAgree
    /\ ImportAccounts

-----------------------------------------------------------------------------
(* Types.                                                                  *)

LEMMA IdleTyped ==
    ASSUME TypeOK, NEW c \in Clients
    PROVE  [tx EXCEPT ![c] = Idle] \in [Clients -> Txs]
BY DEF TypeOK, Txs

LEMMA TxTyped ==
    ASSUME TypeOK, NEW c \in Clients
    PROVE  /\ tx[c].op = "create" => tx[c].i \in Identifiers
           /\ tx[c].op = "challenge" => tx[c].a \in Assets /\ tx[c].ch \in Challenges
           /\ tx[c].op = "verify" =>
                 /\ tx[c].a \in Assets
                 /\ tx[c].ch \in Challenges
                 /\ tx[c].token \in Challenges
           /\ tx[c].op = "import" =>
                 /\ tx[c].k \in Keys
                 /\ tx[c].rest \in Seq(Identifiers \cup {Malformed})
                 /\ tx[c].sum \in Summaries
<1>1. tx[c] \in Txs
  BY DEF TypeOK
<1> QED BY <1>1 DEF Txs, Idle

LEMMA InitTyped == Init => TypeOK
BY RegistryAssumption DEF Init, TypeOK, Txs, Lives, Summaries, NoRows

\* The row at hand is a member of its file, and so are the rows after it.
LEMMA RowTyped ==
    ASSUME TypeOK, NEW c \in Clients, tx[c].op = "import", tx[c].rest # <<>>
    PROVE  /\ Row(c) \in Identifiers \cup {Malformed}
           /\ Tail(tx[c].rest) \in Seq(Identifiers \cup {Malformed})
<1>1. tx[c].rest \in Seq(Identifiers \cup {Malformed})
  BY TxTyped
<1> QED BY <1>1 DEF Row

\* Deciding a row puts it in one list of the summary.
LEMMA DecideTyped ==
    ASSUME TypeOK, NEW c \in Clients, tx[c].op = "import", tx[c].rest # <<>>,
           NEW list \in {"created", "duplicates", "invalid"},
           Row(c) # Malformed \/ list = "invalid",
           Decide(c, list)
    PROVE  /\ tx' \in [Clients -> Txs]
           /\ \E s \in Summaries :
                 /\ tx' = [tx EXCEPT ![c] = [op |-> "import", k |-> tx[c].k,
                                             rest |-> Tail(tx[c].rest), sum |-> s,
                                             phase |-> "row"]]
                 /\ s.created = tx[c].sum.created \cup (IF list = "created" THEN {Row(c)} ELSE {})
                 /\ s.duplicates =
                       tx[c].sum.duplicates \cup (IF list = "duplicates" THEN {Row(c)} ELSE {})
                 /\ s.invalid = tx[c].sum.invalid \cup (IF list = "invalid" THEN {Row(c)} ELSE {})
<1> DEFINE s == Listed(tx[c].sum, list, Row(c))
<1>1. /\ tx[c].k \in Keys
      /\ tx[c].sum \in Summaries
      /\ tx \in [Clients -> Txs]
  BY TxTyped DEF TypeOK
<1>2. /\ Row(c) \in Identifiers \cup {Malformed}
      /\ Tail(tx[c].rest) \in Seq(Identifiers \cup {Malformed})
  BY RowTyped
<1>3. s \in Summaries
  BY <1>1, <1>2 DEF Summaries, Listed
<1>4. tx' = [tx EXCEPT ![c] = [op |-> "import", k |-> tx[c].k, rest |-> Tail(tx[c].rest),
                               sum |-> s, phase |-> "row"]]
  BY DEF Decide
<1>5. /\ s.created = tx[c].sum.created \cup (IF list = "created" THEN {Row(c)} ELSE {})
      /\ s.duplicates = tx[c].sum.duplicates \cup (IF list = "duplicates" THEN {Row(c)} ELSE {})
      /\ s.invalid = tx[c].sum.invalid \cup (IF list = "invalid" THEN {Row(c)} ELSE {})
  BY <1>1 DEF Summaries, Listed
<1>6. [op |-> "import", k |-> tx[c].k, rest |-> Tail(tx[c].rest), sum |-> s,
       phase |-> "row"] \in Txs
  BY <1>1, <1>2, <1>3 DEF Txs
<1>7. tx' \in [Clients -> Txs]
  BY <1>1, <1>4, <1>6
<1> QED BY <1>3, <1>4, <1>5, <1>7

LEMMA ContinueTyped ==
    ASSUME TypeOK, NEW c \in Clients, tx[c].op = "import",
           NEW phase \in {"row", "insert", "lookup", "record"}, Continue(c, phase)
    PROVE  /\ tx' \in [Clients -> Txs]
           /\ tx' = [tx EXCEPT ![c] = [op |-> "import", k |-> tx[c].k, rest |-> tx[c].rest,
                                       sum |-> tx[c].sum, phase |-> phase]]
<1>1. /\ tx[c].k \in Keys
      /\ tx[c].rest \in Seq(Identifiers \cup {Malformed})
      /\ tx[c].sum \in Summaries
      /\ tx \in [Clients -> Txs]
  BY TxTyped DEF TypeOK
<1>2. tx' = [tx EXCEPT ![c] = [op |-> "import", k |-> tx[c].k, rest |-> tx[c].rest,
                               sum |-> tx[c].sum, phase |-> phase]]
  BY DEF Continue
<1>3. [op |-> "import", k |-> tx[c].k, rest |-> tx[c].rest, sum |-> tx[c].sum,
       phase |-> phase] \in Txs
  BY <1>1 DEF Txs
<1> QED BY <1>1, <1>2, <1>3

\* A row that is being inserted is one that validateRow has accepted.
RowsOk ==
    \A c \in Clients : tx[c].op = "import" /\ tx[c].phase \in {"insert", "lookup"} =>
        tx[c].rest # <<>> /\ Row(c) \in Identifiers

LEMMA RowsStep ==
    ASSUME TypeOK, RowsOk, Next
    PROVE  RowsOk'
<1>0. tx \in [Clients -> Txs]
  BY DEF TypeOK
<1>1. ASSUME NEW c \in Clients, AssetCall(c) PROVE RowsOk'
  <2>1. CASE Close(c)
    BY <1>0, <2>1 DEF Close, Idle, RowsOk, Row
  <2>2. ASSUME NEW read, Open(c, read), read.op # "import" PROVE RowsOk'
    BY <1>0, <2>2 DEF Open, RowsOk, Row
  <2>3. CASE PassVerify(c)
    BY <1>0, <2>3 DEF PassVerify, RowsOk, Row
  <2>4. ASSUME NEW i \in Identifiers, OpenCreate(c, i) PROVE RowsOk'
    BY <2>2, <2>4 DEF OpenCreate
  <2>5. ASSUME NEW a \in Assets, NEW ch \in Challenges, OpenChallenge(c, a, ch) PROVE RowsOk'
    BY <2>2, <2>5 DEF OpenChallenge
  <2>6. ASSUME NEW a \in Assets, NEW token \in Challenges, OpenVerify(c, a, token) PROVE RowsOk'
    BY <2>2, <2>6 DEF OpenVerify
  <2>7. CASE Rollback(c) \/ CommitCreate(c) \/ CommitChallenge(c) \/ ExpireVerify(c)
             \/ CommitVerify(c)
    BY <2>1, <2>7 DEF Rollback, CommitCreate, CommitChallenge, ExpireVerify, CommitVerify
  <2> QED BY <1>1, <2>3, <2>4, <2>5, <2>6, <2>7 DEF AssetCall
<1>2. ASSUME NEW c \in Clients, ImportCall(c) PROVE RowsOk'
  <2>1. CASE Close(c)
    BY <1>0, <2>1 DEF Close, Idle, RowsOk, Row
  <2>2. ASSUME NEW k \in Keys, NEW file \in Files, OpenImport(c, k, file) PROVE RowsOk'
    BY <1>0, <2>2 DEF OpenImport, Open, RowsOk, Row
  <2>3. ASSUME NEW k \in Keys, ReplayImport(c, k) PROVE RowsOk'
    BY <2>3 DEF ReplayImport, RowsOk, Row
  <2>4. ASSUME NEW list, Decide(c, list) PROVE RowsOk'
    BY <1>0, <2>4 DEF Decide, RowsOk, Row
  <2>5. ASSUME AtRow(c, "row"), Row(c) # Malformed, Continue(c, "insert") PROVE RowsOk'
    <3>1. tx[c].rest # <<>> /\ Row(c) \in Identifiers
      BY <2>5, RowTyped DEF AtRow
    <3> QED BY <1>0, <2>5, <3>1 DEF Continue, RowsOk, Row
  <2>6. ASSUME AtRow(c, "insert"), Continue(c, "lookup") PROVE RowsOk'
    <3>1. tx[c].rest # <<>> /\ Row(c) \in Identifiers
      BY <2>6 DEF AtRow, RowsOk
    <3> QED BY <1>0, <2>6, <3>1 DEF Continue, RowsOk, Row
  <2>7. ASSUME Continue(c, "record") PROVE RowsOk'
    BY <1>0, <2>7 DEF Continue, RowsOk, Row
  <2>8. CASE InvalidRow(c) \/ DuplicateRow(c) \/ InsertRow(c) \/ LookupRow(c) \/ FailRow(c)
    BY <2>4, <2>8 DEF InvalidRow, DuplicateRow, InsertRow, LookupRow, FailRow
  <2>9. CASE NewRow(c) \/ ClashRow(c) \/ OpenRecord(c)
    BY <2>5, <2>6, <2>7, <2>9 DEF NewRow, ClashRow, OpenRecord
  <2>10. CASE LoseImport(c) \/ CommitRecord(c)
    BY <2>1, <2>10 DEF LoseImport, CommitRecord
  <2> QED BY <1>2, <2>2, <2>3, <2>8, <2>9, <2>10 DEF ImportCall
<1>3. ASSUME NEW a \in Assets, Retire(a) PROVE RowsOk'
  BY <1>3 DEF Retire, RowsOk, Row
<1>4. ASSUME NEW ch \in Challenges, Age(ch) PROVE RowsOk'
  BY <1>4 DEF Age, RowsOk, Row
<1> QED BY <1>1, <1>2, <1>3, <1>4 DEF Next

LEMMA AssetCallTyped ==
    ASSUME TypeOK, NEW c \in Clients, AssetCall(c)
    PROVE  TypeOK'
<1>1. CASE Rollback(c)
  BY <1>1, IdleTyped DEF Rollback, Close, TypeOK, assetVars, challengeVars, importVars
<1>2. ASSUME NEW i \in Identifiers, OpenCreate(c, i) PROVE TypeOK'
  BY <1>2 DEF OpenCreate, Open, TypeOK, Txs, assetVars, challengeVars, importVars
<1>3. CASE CommitCreate(c)
  <2>1. tx[c].i \in Identifiers
    BY <1>3, TxTyped DEF CommitCreate
  <2>2. PICK a \in Assets :
            /\ identifier' = [identifier EXCEPT ![a] = tx[c].i]
            /\ life' = [life EXCEPT ![a] = "pending_verification"]
            /\ UNCHANGED <<verification, challengeVars>>
    BY <1>3 DEF CommitCreate, Insert
  <2> QED BY <1>3, <2>1, <2>2, IdleTyped
          DEF CommitCreate, Close, TypeOK, Lives, challengeVars, importVars
<1>4. ASSUME NEW a \in Assets, NEW ch \in Challenges, OpenChallenge(c, a, ch) PROVE TypeOK'
  BY <1>4 DEF OpenChallenge, Open, TypeOK, Txs, assetVars, challengeVars, importVars
<1>5. ASSUME NEW a \in Assets, NEW token \in Challenges, OpenVerify(c, a, token) PROVE TypeOK'
  <2>1. PICK ch \in LatestPending(a) :
            tx' = [tx EXCEPT ![c] = [op |-> "verify", a |-> a, ch |-> ch, token |-> token,
                                     phase |-> "pending"]]
    BY <1>5 DEF OpenVerify, Open
  <2>2. ch \in Challenges
    BY DEF LatestPending, Pending
  <2> QED BY <1>5, <2>1, <2>2 DEF OpenVerify, TypeOK, Txs, assetVars, challengeVars, importVars
<1>6. CASE CommitChallenge(c)
  <2>1. tx[c].a \in Assets /\ tx[c].ch \in Challenges
    BY <1>6, TxTyped DEF CommitChallenge
  <2> QED BY <1>6, <2>1, IdleTyped DEF CommitChallenge, Close, TypeOK, importVars
<1>7. CASE PassVerify(c)
  <2>1. tx[c].a \in Assets /\ tx[c].ch \in Challenges /\ tx[c].token \in Challenges
    BY <1>7, TxTyped DEF PassVerify
  <2>2. [op |-> "verify", a |-> tx[c].a, ch |-> tx[c].ch, token |-> tx[c].token,
         phase |-> "passed"] \in Txs
    BY <2>1 DEF Txs
  <2> QED BY <1>7, <2>2 DEF PassVerify, TypeOK, assetVars, challengeVars, importVars
<1>8. CASE ExpireVerify(c)
  <2>1. tx[c].ch \in Challenges
    BY <1>8, TxTyped DEF ExpireVerify
  <2> QED BY <1>8, <2>1, IdleTyped DEF ExpireVerify, Close, TypeOK, assetVars, importVars
<1>9. CASE CommitVerify(c)
  <2>1. tx[c].a \in Assets /\ tx[c].ch \in Challenges /\ tx[c].token \in Challenges
    BY <1>9, TxTyped DEF CommitVerify
  <2> QED BY <1>9, <2>1, IdleTyped DEF CommitVerify, Close, TypeOK, Lives, importVars
<1> QED BY <1>1, <1>2, <1>3, <1>4, <1>5, <1>6, <1>7, <1>8, <1>9 DEF AssetCall

LEMMA ImportCallTyped ==
    ASSUME TypeOK, RowsOk, NEW c \in Clients, ImportCall(c)
    PROVE  TypeOK'
<1>1. ASSUME NEW k \in Keys, NEW file \in Files, OpenImport(c, k, file) PROVE TypeOK'
  <2>1. NoRows \in Summaries
    BY DEF NoRows, Summaries
  <2>2. [op |-> "import", k |-> k, rest |-> file, sum |-> NoRows, phase |-> "row"] \in Txs
    BY <2>1, RegistryAssumption DEF Txs
  <2> QED BY <1>1, <2>2 DEF OpenImport, Open, TypeOK, assetVars, challengeVars, importVars
<1>2. ASSUME NEW k \in Keys, ReplayImport(c, k) PROVE TypeOK'
  BY <1>2 DEF ReplayImport, Answer, TypeOK, assetVars, challengeVars
<1>3. CASE InvalidRow(c)
  <2>1. tx' \in [Clients -> Txs]
    BY <1>3, DecideTyped DEF InvalidRow, AtRow
  <2> QED BY <1>3, <2>1 DEF InvalidRow, TypeOK, assetVars, challengeVars, importVars
<1>4. CASE DuplicateRow(c)
  <2>1. tx' \in [Clients -> Txs]
    BY <1>4, DecideTyped DEF DuplicateRow, AtRow
  <2> QED BY <1>4, <2>1 DEF DuplicateRow, TypeOK, assetVars, challengeVars, importVars
<1>5. CASE NewRow(c)
  <2>1. tx' \in [Clients -> Txs]
    BY <1>5, ContinueTyped DEF NewRow, AtRow
  <2> QED BY <1>5, <2>1 DEF NewRow, TypeOK, assetVars, challengeVars, importVars
<1>6. CASE InsertRow(c)
  <2>1. PICK a \in Assets :
            /\ Live(Row(c)) = {}
            /\ identifier' = [identifier EXCEPT ![a] = Row(c)]
            /\ life' = [life EXCEPT ![a] = "pending_verification"]
            /\ UNCHANGED <<verification, challengeVars>>
    BY <1>6 DEF InsertRow, Insert
  <2>2. Row(c) \in Identifiers
    BY <1>6 DEF InsertRow, AtRow, RowsOk
  <2>3. tx' \in [Clients -> Txs]
    BY <1>6, <2>2, RegistryAssumption, DecideTyped DEF InsertRow, AtRow
  <2> QED BY <1>6, <2>1, <2>2, <2>3 DEF InsertRow, TypeOK, Lives, challengeVars, importVars
<1>7. CASE ClashRow(c)
  <2>1. tx' \in [Clients -> Txs]
    BY <1>7, ContinueTyped DEF ClashRow, AtRow
  <2> QED BY <1>7, <2>1 DEF ClashRow, TypeOK, assetVars, challengeVars, importVars
<1>8. CASE LookupRow(c)
  <2>1. tx' \in [Clients -> Txs]
    BY <1>8, RegistryAssumption, DecideTyped DEF LookupRow, AtRow, RowsOk
  <2> QED BY <1>8, <2>1 DEF LookupRow, TypeOK, assetVars, challengeVars, importVars
<1>9. CASE FailRow(c)
  <2>1. tx' \in [Clients -> Txs]
    BY <1>9, DecideTyped DEF FailRow, AtFreshRow, AtRow
  <2> QED BY <1>9, <2>1 DEF FailRow, TypeOK, assetVars, challengeVars, importVars
<1>10. CASE LoseImport(c)
  BY <1>10, IdleTyped, TxTyped
  DEF LoseImport, AtEnd, Answer, Close, TypeOK, assetVars, challengeVars
<1>11. CASE OpenRecord(c)
  <2>1. tx' \in [Clients -> Txs]
    BY <1>11, ContinueTyped DEF OpenRecord, AtEnd
  <2> QED BY <1>11, <2>1 DEF OpenRecord, TypeOK, assetVars, challengeVars, importVars
<1>12. CASE CommitRecord(c)
  BY <1>12, IdleTyped, TxTyped
  DEF CommitRecord, AtEnd, Answer, Close, TypeOK, assetVars, challengeVars
<1> QED BY <1>1, <1>2, <1>3, <1>4, <1>5, <1>6, <1>7, <1>8, <1>9, <1>10, <1>11, <1>12
        DEF ImportCall

LEMMA StepTyped == TypeOK /\ RowsOk /\ [Next]_vars => (TypeOK /\ RowsOk)'
<1> SUFFICES ASSUME TypeOK, RowsOk, [Next]_vars PROVE TypeOK' /\ RowsOk'
  OBVIOUS
<1>1. ASSUME NEW c \in Clients, AssetCall(c) \/ ImportCall(c) PROVE TypeOK'
  BY <1>1, AssetCallTyped, ImportCallTyped
<1>2. ASSUME NEW a \in Assets, Retire(a) PROVE TypeOK'
  BY <1>2 DEF Retire, TypeOK, Lives, challengeVars, importVars
<1>3. ASSUME NEW ch \in Challenges, Age(ch) PROVE TypeOK'
  BY <1>3 DEF Age, TypeOK, assetVars, importVars
<1>4. ASSUME UNCHANGED vars PROVE TypeOK'
  BY <1>4 DEF vars, TypeOK, assetVars, challengeVars, importVars
<1>5. RowsOk'
  BY RowsStep DEF vars, RowsOk, Row
<1> QED BY <1>1, <1>2, <1>3, <1>4, <1>5 DEF Next

\* Every variable keeps its type, whatever the files and however calls overlap.
THEOREM TypeCorrect == Spec => []TypeOK
<1>1. Init => TypeOK /\ RowsOk
  BY InitTyped DEF Init, Idle, RowsOk
<1> QED BY <1>1, StepTyped, PTL DEF Spec

-----------------------------------------------------------------------------
(* What a step does to the rows of the assets and the challenges.          *)

RowStep ==
    \/ UNCHANGED <<assetVars, challengeVars>>
    \/ \E i \in Identifiers : Insert(i)
    \/ \E a \in Assets : Retire(a)
    \/ \E ch \in Challenges : Age(ch)
    \/ \E c \in Clients : CommitChallenge(c) \/ ExpireVerify(c) \/ CommitVerify(c)

LEMMA StepOfRows ==
    ASSUME TypeOK, RowsOk, [Next]_vars
    PROVE  RowStep
<1>1. ASSUME NEW c \in Clients, AssetCall(c) PROVE RowStep
  <2>1. CASE CommitCreate(c)
    <3>1. tx[c].i \in Identifiers
      BY <2>1, TxTyped DEF CommitCreate
    <3> QED BY <2>1, <3>1 DEF CommitCreate, RowStep
  <2>2. CASE CommitChallenge(c) \/ ExpireVerify(c) \/ CommitVerify(c)
    BY <2>2 DEF RowStep
  <2>3. CASE Rollback(c) \/ PassVerify(c) \/ (\E i \in Identifiers : OpenCreate(c, i))
    BY <2>3 DEF Rollback, PassVerify, OpenCreate, RowStep
  <2>4. CASE \E a \in Assets, ch \in Challenges : OpenChallenge(c, a, ch) \/ OpenVerify(c, a, ch)
    BY <2>4 DEF OpenChallenge, OpenVerify, RowStep
  <2> QED BY <1>1, <2>1, <2>2, <2>3, <2>4 DEF AssetCall
<1>2. ASSUME NEW c \in Clients, ImportCall(c) PROVE RowStep
  <2>1. CASE InsertRow(c)
    <3>1. Row(c) \in Identifiers
      BY <2>1 DEF InsertRow, AtRow, RowsOk
    <3> QED BY <2>1, <3>1 DEF InsertRow, RowStep
  <2>2. CASE \E k \in Keys : ReplayImport(c, k) \/ \E file \in Files : OpenImport(c, k, file)
    BY <2>2 DEF ReplayImport, OpenImport, RowStep, challengeVars
  <2>3. CASE InvalidRow(c) \/ DuplicateRow(c) \/ NewRow(c) \/ ClashRow(c) \/ LookupRow(c)
             \/ FailRow(c)
    BY <2>3 DEF InvalidRow, DuplicateRow, NewRow, ClashRow, LookupRow, FailRow, RowStep
  <2>4. CASE LoseImport(c) \/ OpenRecord(c) \/ CommitRecord(c)
    BY <2>4 DEF LoseImport, OpenRecord, CommitRecord, RowStep
  <2> QED BY <1>2, <2>1, <2>2, <2>3, <2>4 DEF ImportCall
<1> QED BY <1>1, <1>2 DEF Next, RowStep, vars

\* Rows exist for good; an asset keeps its identifier, a challenge its asset,
\* and no proof is lost.
LEMMA RowsStay ==
    ASSUME TypeOK, RowsOk, RowInv, TxInv, [Next]_vars
    PROVE  /\ \A a \in Assets : Exists(a) => Exists(a)' /\ identifier'[a] = identifier[a]
           /\ \A ch \in Challenges : challenge[ch] # "none" =>
                 challenge'[ch] # "none" /\ subject'[ch] = subject[ch]
           /\ \A a \in Assets : proofs[a] \subseteq proofs'[a]
<1>1. RowStep
  BY StepOfRows
<1>2. CASE UNCHANGED <<assetVars, challengeVars>>
  BY <1>2 DEF assetVars, challengeVars, Exists
<1>3. ASSUME NEW i \in Identifiers, Insert(i)
      PROVE  /\ \A a \in Assets : Exists(a) => Exists(a)' /\ identifier'[a] = identifier[a]
             /\ UNCHANGED challengeVars
  BY <1>3 DEF Insert, Exists, TypeOK
<1>4. ASSUME NEW a \in Assets, Retire(a)
      PROVE  /\ \A b \in Assets : Exists(b) => Exists(b)' /\ identifier'[b] = identifier[b]
             /\ UNCHANGED challengeVars
  BY <1>4 DEF Retire, Exists, TypeOK
<1>5. ASSUME NEW ch \in Challenges, Age(ch)
      PROVE  UNCHANGED <<assetVars, subject, challenge, proofs>>
  BY <1>5 DEF Age
<1>6. ASSUME NEW c \in Clients, CommitChallenge(c)
      PROVE  /\ \A a \in Assets : Exists(a) => Exists(a)' /\ identifier'[a] = identifier[a]
             /\ \A ch \in Challenges : challenge[ch] # "none" =>
                   challenge'[ch] # "none" /\ subject'[ch] = subject[ch]
             /\ UNCHANGED proofs
  <2>1. challenge[tx[c].ch] = "none"
    BY <1>6 DEF CommitChallenge, TxInv, TxOk
  <2> QED BY <1>6, <2>1 DEF CommitChallenge, Exists, TypeOK
<1>7. ASSUME NEW c \in Clients, ExpireVerify(c)
      PROVE  /\ UNCHANGED <<assetVars, subject, proofs>>
             /\ \A ch \in Challenges : challenge[ch] # "none" => challenge'[ch] # "none"
  BY <1>7 DEF ExpireVerify, TypeOK
<1>8. ASSUME NEW c \in Clients, CommitVerify(c)
      PROVE  /\ \A a \in Assets : Exists(a) => Exists(a)' /\ identifier'[a] = identifier[a]
             /\ \A ch \in Challenges : challenge[ch] # "none" => challenge'[ch] # "none"
             /\ UNCHANGED subject
             /\ \A a \in Assets : proofs[a] \subseteq proofs'[a]
  BY <1>8 DEF CommitVerify, Exists, TypeOK
<1>9. CASE \E c \in Clients : CommitChallenge(c) \/ ExpireVerify(c) \/ CommitVerify(c)
  BY <1>9, <1>6, <1>7, <1>8 DEF assetVars, Exists
<1>10. CASE \/ \E i \in Identifiers : Insert(i)
            \/ \E a \in Assets : Retire(a)
            \/ \E ch \in Challenges : Age(ch)
  BY <1>10, <1>3, <1>4, <1>5 DEF assetVars, challengeVars, Exists
<1> QED BY <1>1, <1>2, <1>9, <1>10 DEF RowStep

LEMMA RowInvStep ==
    ASSUME TypeOK, RowsOk, RowInv, TxInv, [Next]_vars
    PROVE  RowInv'
<1>1. RowStep
  BY StepOfRows
<1>2. CASE UNCHANGED <<assetVars, challengeVars>>
  BY <1>2 DEF assetVars, challengeVars, Exists, RowInv
<1>3. ASSUME NEW i \in Identifiers, Insert(i) PROVE RowInv'
  BY <1>3, RegistryAssumption DEF Insert, Exists, TypeOK, RowInv, challengeVars
<1>4. ASSUME NEW a \in Assets, Retire(a) PROVE RowInv'
  BY <1>4 DEF Retire, Exists, TypeOK, RowInv, challengeVars
<1>5. ASSUME NEW ch \in Challenges, Age(ch) PROVE RowInv'
  BY <1>5 DEF Age, RowInv, Exists, assetVars
<1>6. ASSUME NEW c \in Clients, CommitChallenge(c) PROVE RowInv'
  <2>1. tx[c].a \in Assets /\ tx[c].ch \in Challenges /\ Exists(tx[c].a)
    BY <1>6, TxTyped DEF CommitChallenge, TxInv, TxOk
  <2>2. UNCHANGED <<identifier, life, proofs>>
    BY <1>6 DEF CommitChallenge
  <2>3. \A ch \in Challenges : challenge'[ch] # "none" =>
            subject'[ch] \in Assets /\ Exists(subject'[ch])
    BY <1>6, <2>1 DEF CommitChallenge, TypeOK, RowInv
  <2>4. \A ch \in Challenges : challenge[ch] # "none" => challenge'[ch] # "none"
    BY <1>6, <2>1 DEF CommitChallenge, TypeOK
  <2> QED BY <2>2, <2>3, <2>4 DEF RowInv, Exists, TypeOK
<1>7. ASSUME NEW c \in Clients, ExpireVerify(c) PROVE RowInv'
  <2>1. tx[c].ch \in Challenges /\ challenge[tx[c].ch] # "none"
    BY <1>7, TxTyped DEF ExpireVerify, TxInv, TxOk
  <2>2. \A ch \in Challenges : challenge'[ch] # "none" <=> challenge[ch] # "none"
    BY <1>7, <2>1 DEF ExpireVerify, TypeOK
  <2>3. UNCHANGED <<identifier, life, subject, proofs>>
    BY <1>7 DEF ExpireVerify, assetVars
  <2> QED BY <2>2, <2>3 DEF RowInv, Exists, TypeOK
<1>8. ASSUME NEW c \in Clients, CommitVerify(c) PROVE RowInv'
  <2>1. /\ tx[c].a \in Assets
        /\ tx[c].ch \in Challenges
        /\ tx[c].token = tx[c].ch
        /\ Exists(tx[c].a)
        /\ challenge[tx[c].ch] # "none"
    BY <1>8, TxTyped DEF CommitVerify, TxInv, TxOk
  <2>2. \A a \in Assets : Exists(a)' <=> Exists(a)
    BY <1>8, <2>1 DEF CommitVerify, Exists, TypeOK
  <2>3. \A a \in Assets : \A ch \in proofs'[a] : challenge'[ch] # "none"
    BY <1>8, <2>1 DEF CommitVerify, TypeOK, RowInv
  <2>4. \A ch \in Challenges : challenge'[ch] # "none" => challenge[ch] # "none"
    BY <1>8, <2>1 DEF CommitVerify, TypeOK
  <2>5. UNCHANGED <<identifier, subject>>
    BY <1>8 DEF CommitVerify
  <2> QED BY <2>2, <2>3, <2>4, <2>5 DEF RowInv, Exists
<1> QED BY <1>1, <1>2, <1>3, <1>4, <1>5, <1>6, <1>7, <1>8 DEF RowStep

-----------------------------------------------------------------------------
(* What a call in progress has read stays true.                            *)

LEMMA KnownStays ==
    ASSUME TypeOK, RowsOk, RowInv, TxInv, [Next]_vars
    PROVE  /\ \A i : Known(i) => Known(i)'
           /\ \A s \in Summaries : Accounted(s) => Accounted(s)'
<1>1. \A i : Known(i) => Known(i)'
  BY RowsStay DEF Known
<1> QED BY <1>1 DEF Accounted

\* A call that takes no part in a step.
LEMMA Untouched ==
    ASSUME TypeOK, RowsOk, RowInv, TxInv, [Next]_vars, NEW d \in Clients, tx'[d] = tx[d]
    PROVE  TxOk(d)'
<1>0. TxOk(d)
  BY DEF TxInv
<1>1. ASSUME tx[d].op = "challenge" PROVE Exists(tx[d].a)' /\ challenge'[tx[d].ch] = "none"
  <2>1. /\ tx[d].a \in Assets
        /\ tx[d].ch \in Challenges
        /\ Exists(tx[d].a)
        /\ challenge[tx[d].ch] = "none"
    BY <1>0, <1>1, TxTyped DEF TxOk
  <2>2. Exists(tx[d].a)'
    BY <2>1, RowsStay DEF Exists
  <2>3. ASSUME NEW c \in Clients, CommitChallenge(c) PROVE challenge'[tx[d].ch] = "none"
    <3>1. tx[c].op = "challenge" /\ tx'[c] = Idle
      BY <2>3 DEF CommitChallenge, Close, TypeOK
    <3>2. c # d
      BY <1>1, <3>1 DEF Idle
    <3>3. tx[c].ch # tx[d].ch
      BY <1>1, <3>1, <3>2 DEF TxInv, DistinctChallenges
    <3> QED BY <2>1, <2>3, <3>3 DEF CommitChallenge, TypeOK
  <2>4. ASSUME NEW c \in Clients, ExpireVerify(c) \/ CommitVerify(c)
        PROVE  challenge'[tx[d].ch] = "none"
    <3>1. challenge[tx[c].ch] # "none"
      BY <2>4 DEF ExpireVerify, CommitVerify, TxInv, TxOk
    <3>2. tx[c].ch # tx[d].ch
      BY <2>1, <3>1
    <3> QED BY <2>1, <2>4, <3>2 DEF ExpireVerify, CommitVerify, TypeOK
  <2>5. ASSUME \/ UNCHANGED <<assetVars, challengeVars>>
               \/ \E i \in Identifiers : Insert(i)
               \/ \E a \in Assets : Retire(a)
               \/ \E ch \in Challenges : Age(ch)
        PROVE  challenge'[tx[d].ch] = "none"
    BY <2>1, <2>5 DEF Insert, Retire, Age, challengeVars
  <2>6. RowStep
    BY StepOfRows
  <2>7. challenge'[tx[d].ch] = "none"
    BY <2>3, <2>4, <2>5, <2>6 DEF RowStep
  <2> QED BY <2>2, <2>7
<1>2. ASSUME tx[d].op = "verify"
      PROVE  /\ challenge'[tx[d].ch] # "none"
             /\ subject'[tx[d].ch] = tx[d].a
             /\ tx[d].phase = "passed" => Exists(tx[d].a)' /\ tx[d].token = tx[d].ch
  BY <1>0, <1>2, TxTyped, RowsStay DEF TxOk
<1>3. ASSUME tx[d].op = "import" PROVE Accounted(tx[d].sum)'
  <2>1. tx[d].sum \in Summaries /\ Accounted(tx[d].sum)
    BY <1>0, <1>3, TxTyped DEF TxOk
  <2>2. PICK s \in Summaries : s = tx[d].sum
    BY <2>1
  <2>3. Accounted(s)'
    BY <2>1, <2>2, KnownStays
  <2>4. s = tx'[d].sum
    BY <2>2
  <2> QED BY <2>2, <2>3, <2>4 DEF Accounted, Known, Exists
<1> QED BY <1>1, <1>2, <1>3 DEF TxOk

LEMMA Idled ==
    ASSUME TypeOK, NEW c \in Clients, Close(c)
    PROVE  /\ \A d \in Clients \ {c} : tx'[d] = tx[d]
           /\ TxOk(c)'
           /\ tx'[c].op # "challenge"
BY DEF Close, TypeOK, Idle, TxOk

LEMMA AssetCallTx ==
    ASSUME TypeOK, RowsOk, RowInv, TxInv, NEW c \in Clients, AssetCall(c)
    PROVE  /\ \A d \in Clients \ {c} : tx'[d] = tx[d]
           /\ TxOk(c)'
           /\ \A d \in Clients \ {c} :
                 tx'[c].op = "challenge" /\ tx[d].op = "challenge" => tx'[c].ch # tx[d].ch
<1>0. tx \in [Clients -> Txs]
  BY DEF TypeOK
<1> DEFINE Goal == /\ \A d \in Clients \ {c} : tx'[d] = tx[d]
                   /\ TxOk(c)'
                   /\ \A d \in Clients \ {c} :
                         tx'[c].op = "challenge" /\ tx[d].op = "challenge"
                             => tx'[c].ch # tx[d].ch
<1>1. CASE Rollback(c) \/ CommitCreate(c) \/ CommitChallenge(c) \/ ExpireVerify(c)
           \/ CommitVerify(c)
  <2>1. Close(c)
    BY <1>1 DEF Rollback, CommitCreate, CommitChallenge, ExpireVerify, CommitVerify
  <2> QED BY <2>1, Idled
<1>2. ASSUME NEW i \in Identifiers, OpenCreate(c, i) PROVE Goal
  BY <1>0, <1>2 DEF OpenCreate, Open, TxOk
<1>3. ASSUME NEW a \in Assets, NEW ch \in Challenges, OpenChallenge(c, a, ch) PROVE Goal
  <2>1. /\ tx' = [tx EXCEPT ![c] = [op |-> "challenge", a |-> a, ch |-> ch]]
        /\ UNCHANGED <<assetVars, challengeVars>>
        /\ Exists(a)
    BY <1>3 DEF OpenChallenge, Open, Exists
  <2>2. /\ ~ ch < ch
        /\ challenge[ch] = "none"
        /\ \A d \in Clients : tx[d].op = "challenge" => tx[d].ch # ch
    BY <1>3, RegistryAssumption DEF OpenChallenge, Newest
  <2> QED BY <1>0, <2>1, <2>2 DEF TxOk, Exists, assetVars, challengeVars
<1>4. ASSUME NEW a \in Assets, NEW token \in Challenges, OpenVerify(c, a, token) PROVE Goal
  <2>1. PICK ch \in LatestPending(a) :
            tx' = [tx EXCEPT ![c] = [op |-> "verify", a |-> a, ch |-> ch, token |-> token,
                                     phase |-> "pending"]]
    BY <1>4 DEF OpenVerify, Open
  <2>2. challenge[ch] # "none" /\ subject[ch] = a
    BY DEF LatestPending, Pending
  <2> QED BY <1>0, <1>4, <2>1, <2>2 DEF OpenVerify, TxOk, challengeVars
<1>5. CASE PassVerify(c)
  <2>1. /\ tx' = [tx EXCEPT ![c] = [op |-> "verify", a |-> tx[c].a, ch |-> tx[c].ch,
                                    token |-> tx[c].token, phase |-> "passed"]]
        /\ UNCHANGED <<assetVars, challengeVars>>
        /\ tx[c].token = tx[c].ch
    BY <1>5 DEF PassVerify
  <2>2. /\ challenge[tx[c].ch] # "none"
        /\ subject[tx[c].ch] = tx[c].a
    BY <1>5 DEF PassVerify, TxInv, TxOk
  <2>3. Exists(tx[c].a)
    BY <1>5, <2>2, TxTyped DEF PassVerify, RowInv
  <2> QED BY <1>0, <2>1, <2>2, <2>3 DEF TxOk, Exists, assetVars, challengeVars
<1> QED BY <1>1, <1>2, <1>3, <1>4, <1>5 DEF AssetCall

\* A decided row has an asset, is reported as invalid, or was decided before.
LEMMA DecidedOk ==
    ASSUME TypeOK, RowsOk, RowInv, TxInv, Next,
           NEW c \in Clients, tx[c].op = "import", tx[c].rest # <<>>,
           NEW list \in {"created", "duplicates", "invalid"},
           Row(c) # Malformed \/ list = "invalid",
           Decide(c, list),
           list = "invalid" \/ Row(c) \in Seen(tx[c].sum)
               \/ \E a \in Assets : Exists(a)' /\ identifier'[a] = Row(c)
    PROVE  /\ \A d \in Clients \ {c} : tx'[d] = tx[d]
           /\ tx'[c].op # "challenge"
           /\ TxOk(c)'
<1>1. PICK s \in Summaries :
         /\ tx' = [tx EXCEPT ![c] = [op |-> "import", k |-> tx[c].k, rest |-> Tail(tx[c].rest),
                                     sum |-> s, phase |-> "row"]]
         /\ s.created = tx[c].sum.created \cup (IF list = "created" THEN {Row(c)} ELSE {})
         /\ s.duplicates =
               tx[c].sum.duplicates \cup (IF list = "duplicates" THEN {Row(c)} ELSE {})
         /\ s.invalid = tx[c].sum.invalid \cup (IF list = "invalid" THEN {Row(c)} ELSE {})
  BY DecideTyped
<1>2. tx'[c].op = "import" /\ tx'[c].sum = s /\ \A d \in Clients \ {c} : tx'[d] = tx[d]
  BY <1>1 DEF TypeOK
<1>3. \A i \in (tx[c].sum.created \cup tx[c].sum.duplicates) \ tx[c].sum.invalid : Known(i)'
  <2>1. Accounted(tx[c].sum)
    BY DEF TxInv, TxOk
  <2> QED BY <2>1, KnownStays DEF Accounted
<1>4. \A i \in (s.created \cup s.duplicates) \ s.invalid : Known(i)'
  <2> SUFFICES ASSUME NEW i \in (s.created \cup s.duplicates) \ s.invalid
               PROVE  \E a \in Assets : Exists(a)' /\ identifier'[a] = i
    BY DEF Known
  <2>1. CASE i \in (tx[c].sum.created \cup tx[c].sum.duplicates) \ tx[c].sum.invalid
    BY <1>3, <2>1 DEF Known
  <2>2. CASE i \notin (tx[c].sum.created \cup tx[c].sum.duplicates) \ tx[c].sum.invalid
    <3>1. i = Row(c) /\ list # "invalid" /\ i \notin tx[c].sum.invalid
      BY <1>1, <2>2
    <3>2. i \notin Seen(tx[c].sum)
      BY <2>2, <3>1 DEF Seen
    <3> QED BY <3>1, <3>2
  <2> QED BY <2>1, <2>2
<1>5. Accounted(tx[c].sum)'
  BY <1>2, <1>4 DEF Accounted
<1> QED BY <1>2, <1>5 DEF TxOk

LEMMA ContinuedOk ==
    ASSUME TypeOK, RowsOk, RowInv, TxInv, Next,
           NEW c \in Clients, tx[c].op = "import",
           NEW phase \in {"row", "insert", "lookup", "record"}, Continue(c, phase)
    PROVE  /\ \A d \in Clients \ {c} : tx'[d] = tx[d]
           /\ tx'[c].op # "challenge"
           /\ TxOk(c)'
<1>1. tx'[c].op = "import" /\ tx'[c].sum = tx[c].sum /\ \A d \in Clients \ {c} : tx'[d] = tx[d]
  BY ContinueTyped DEF TypeOK
<1>2. Accounted(tx[c].sum)
  BY DEF TxInv, TxOk
<1>3. Accounted(tx[c].sum)'
  <2>1. \A i \in (tx[c].sum.created \cup tx[c].sum.duplicates) \ tx[c].sum.invalid : Known(i)'
    BY <1>2, KnownStays DEF Accounted
  <2> QED BY <1>1, <2>1 DEF Accounted
<1> QED BY <1>1, <1>3 DEF TxOk

LEMMA ImportCallTx ==
    ASSUME TypeOK, RowsOk, RowInv, TxInv, Next, NEW c \in Clients, ImportCall(c), tx' # tx
    PROVE  /\ \A d \in Clients \ {c} : tx'[d] = tx[d]
           /\ tx'[c].op # "challenge"
           /\ TxOk(c)'
<1> DEFINE Goal == /\ \A d \in Clients \ {c} : tx'[d] = tx[d]
                   /\ tx'[c].op # "challenge"
                   /\ TxOk(c)'
<1>1. ASSUME NEW k \in Keys, NEW file \in Files, OpenImport(c, k, file) PROVE Goal
  BY <1>1 DEF OpenImport, Open, TypeOK, TxOk, Accounted, NoRows
<1>2. ASSUME NEW k \in Keys, ReplayImport(c, k) PROVE FALSE
  BY <1>2 DEF ReplayImport
<1>3. CASE InvalidRow(c)
  BY <1>3, DecidedOk DEF InvalidRow, AtRow
<1>4. CASE DuplicateRow(c)
  <2>1. \A a \in Live(Row(c)) : a \in Assets /\ Exists(a)' /\ identifier'[a] = Row(c)
    BY RowsStay DEF Live, LiveAssets, Exists
  <2> QED BY <1>4, <2>1, DecidedOk DEF DuplicateRow, AtRow
<1>5. CASE NewRow(c)
  BY <1>5, ContinuedOk DEF NewRow, AtRow
<1>6. CASE InsertRow(c)
  <2>1. Row(c) \in Identifiers
    BY <1>6 DEF InsertRow, AtRow, RowsOk
  <2>2. PICK a \in Assets :
            /\ identifier' = [identifier EXCEPT ![a] = Row(c)]
            /\ life' = [life EXCEPT ![a] = "pending_verification"]
    BY <1>6 DEF InsertRow, Insert
  <2>3. Exists(a)' /\ identifier'[a] = Row(c)
    BY <2>2 DEF Exists, TypeOK
  <2> QED BY <1>6, <2>1, <2>3, RegistryAssumption, DecidedOk DEF InsertRow, AtRow
<1>7. CASE ClashRow(c)
  BY <1>7, ContinuedOk DEF ClashRow, AtRow
<1>8. CASE LookupRow(c)
  <2>1. Row(c) \in Identifiers
    BY <1>8 DEF LookupRow, AtRow, RowsOk
  <2>2. \A a \in Live(Row(c)) : a \in Assets /\ Exists(a)' /\ identifier'[a] = Row(c)
    BY RowsStay DEF Live, LiveAssets, Exists
  <2> QED BY <1>8, <2>1, <2>2, RegistryAssumption, DecidedOk DEF LookupRow, AtRow
<1>9. CASE FailRow(c)
  BY <1>9, DecidedOk DEF FailRow, AtFreshRow, AtRow
<1>10. CASE OpenRecord(c)
  BY <1>10, ContinuedOk DEF OpenRecord, AtEnd
<1>11. CASE LoseImport(c) \/ CommitRecord(c)
  <2>1. Close(c)
    BY <1>11 DEF LoseImport, CommitRecord
  <2> QED BY <2>1, Idled
<1> QED BY <1>1, <1>2, <1>3, <1>4, <1>5, <1>6, <1>7, <1>8, <1>9, <1>10, <1>11 DEF ImportCall

LEMMA TxInvStep ==
    ASSUME TypeOK, RowsOk, RowInv, TxInv, [Next]_vars
    PROVE  TxInv'
<1>1. CASE tx' = tx
  <2>1. \A c \in Clients : TxOk(c)'
    BY <1>1, Untouched
  <2> QED BY <1>1, <2>1 DEF TxInv, DistinctChallenges
<1>2. ASSUME Next, NEW c \in Clients,
             \A d \in Clients \ {c} : tx'[d] = tx[d],
             TxOk(c)',
             \A d \in Clients \ {c} :
                 tx'[c].op = "challenge" /\ tx[d].op = "challenge" => tx'[c].ch # tx[d].ch
      PROVE  TxInv'
  <2>1. \A d \in Clients : TxOk(d)'
    BY <1>2, Untouched
  <2>2. DistinctChallenges'
    BY <1>2 DEF TxInv, DistinctChallenges
  <2> QED BY <2>1, <2>2 DEF TxInv
<1>3. ASSUME Next, NEW c \in Clients, AssetCall(c) PROVE TxInv'
  BY <1>2, <1>3, AssetCallTx
<1>4. ASSUME Next, tx' # tx, NEW c \in Clients, ImportCall(c) PROVE TxInv'
  BY <1>2, <1>4, ImportCallTx
<1>5. ASSUME tx' # tx, Next PROVE \E c \in Clients : AssetCall(c) \/ ImportCall(c)
  BY <1>5 DEF Next, Retire, Age
<1> QED BY <1>1, <1>3, <1>4, <1>5 DEF vars

-----------------------------------------------------------------------------
(* The properties.                                                         *)

LEMMA UniqueLiveStep ==
    ASSUME TypeOK, RowsOk, RowInv, TxInv, UniqueLive, [Next]_vars
    PROVE  UniqueLive'
<1>1. ASSUME LiveAssets' \subseteq LiveAssets, \A a \in LiveAssets : identifier'[a] = identifier[a]
      PROVE  UniqueLive'
  BY <1>1 DEF UniqueLive, LiveAssets
<1>2. ASSUME NEW a \in Assets, NEW i,
             LiveAssets' = LiveAssets \cup {a},
             identifier'[a] = i,
             \A b \in LiveAssets \ {a} : identifier'[b] = identifier[b] /\ identifier[b] # i
      PROVE  UniqueLive'
  BY <1>2 DEF UniqueLive
<1>3. CASE UNCHANGED <<assetVars, challengeVars>>
  BY <1>1, <1>3 DEF assetVars, LiveAssets
<1>4. ASSUME NEW i \in Identifiers, Insert(i) PROVE UniqueLive'
  <2>1. PICK a \in Assets :
            /\ Live(i) = {}
            /\ identifier' = [identifier EXCEPT ![a] = i]
            /\ life' = [life EXCEPT ![a] = "pending_verification"]
    BY <1>4 DEF Insert
  <2>2. LiveAssets' = LiveAssets \cup {a}
    BY <2>1 DEF LiveAssets, TypeOK
  <2>3. \A b \in LiveAssets : identifier[b] # i
    BY <2>1 DEF Live
  <2> QED BY <1>2, <2>1, <2>2, <2>3 DEF TypeOK, LiveAssets
<1>5. ASSUME NEW a \in Assets, Retire(a) PROVE UniqueLive'
  BY <1>1, <1>5 DEF Retire, LiveAssets, TypeOK
<1>6. ASSUME NEW c \in Clients, CommitVerify(c) PROVE UniqueLive'
  <2>1. tx[c].a \in Assets
    BY <1>6, TxTyped DEF CommitVerify
  <2>2. LiveAssets' = LiveAssets \cup {tx[c].a}
    BY <1>6, <2>1 DEF CommitVerify, LiveAssets, TypeOK
  <2>3. \A b \in LiveAssets \ {tx[c].a} : identifier[b] # identifier[tx[c].a]
    BY <1>6 DEF CommitVerify, Live
  <2>4. UNCHANGED identifier
    BY <1>6 DEF CommitVerify
  <2> QED BY <1>2, <2>1, <2>2, <2>3, <2>4
<1>7. ASSUME NEW ch \in Challenges, Age(ch) PROVE UniqueLive'
  BY <1>3, <1>1, <1>7 DEF Age, assetVars, LiveAssets
<1>8. ASSUME NEW c \in Clients, CommitChallenge(c) \/ ExpireVerify(c) PROVE UniqueLive'
  BY <1>1, <1>8 DEF CommitChallenge, ExpireVerify, assetVars, LiveAssets
<1> QED BY StepOfRows, <1>3, <1>4, <1>5, <1>6, <1>7, <1>8 DEF RowStep

LEMMA ActiveIsProvenStep ==
    ASSUME TypeOK, RowsOk, RowInv, TxInv, ActiveIsProven, [Next]_vars
    PROVE  ActiveIsProven'
<1>0. \A a \in Assets : (\E ch \in proofs[a] : subject[ch] = a) =>
          \E ch \in proofs'[a] : subject'[ch] = a
  <2> SUFFICES ASSUME NEW a \in Assets, NEW ch \in proofs[a], subject[ch] = a
               PROVE  ch \in proofs'[a] /\ subject'[ch] = a
    OBVIOUS
  <2>1. ch \in Challenges /\ challenge[ch] # "none"
    BY DEF TypeOK, RowInv
  <2> QED BY <2>1, RowsStay
<1>1. ASSUME \A a \in Assets : life'[a] = "active" \/ verification'[a] = "verified" =>
                 life[a] = "active" \/ verification[a] = "verified"
                     \/ \E ch \in proofs'[a] : subject'[ch] = a
      PROVE  ActiveIsProven'
  BY <1>0, <1>1 DEF ActiveIsProven
<1>2. CASE UNCHANGED <<assetVars, challengeVars>>
  BY <1>1, <1>2 DEF assetVars
<1>3. ASSUME NEW i \in Identifiers, Insert(i) PROVE ActiveIsProven'
  BY <1>1, <1>3 DEF Insert, TypeOK
<1>4. ASSUME NEW a \in Assets, Retire(a) PROVE ActiveIsProven'
  BY <1>1, <1>4 DEF Retire, TypeOK
<1>5. ASSUME NEW c \in Clients, CommitChallenge(c) PROVE ActiveIsProven'
  BY <1>1, <1>5 DEF CommitChallenge, TypeOK
<1>6. ASSUME NEW ch \in Challenges, Age(ch) PROVE ActiveIsProven'
  BY <1>1, <1>6 DEF Age, assetVars
<1>7. ASSUME NEW c \in Clients, ExpireVerify(c) PROVE ActiveIsProven'
  BY <1>1, <1>7 DEF ExpireVerify, assetVars
<1>8. ASSUME NEW c \in Clients, CommitVerify(c) PROVE ActiveIsProven'
  <2>1. tx[c].a \in Assets /\ tx[c].token = tx[c].ch /\ subject[tx[c].ch] = tx[c].a
    BY <1>8, TxTyped DEF CommitVerify, TxInv, TxOk
  <2>2. tx[c].ch \in proofs'[tx[c].a] /\ subject' = subject
    BY <1>8, <2>1 DEF CommitVerify, TypeOK
  <2>3. \A a \in Assets \ {tx[c].a} : life'[a] = life[a] /\ verification'[a] = verification[a]
    BY <1>8 DEF CommitVerify, TypeOK
  <2> QED BY <1>1, <2>1, <2>2, <2>3
<1> QED BY StepOfRows, <1>2, <1>3, <1>4, <1>5, <1>6, <1>7, <1>8 DEF RowStep

\* What a step does to the records and answers of the imports.
LEMMA StepOfRecords ==
    ASSUME [Next]_vars
    PROVE  \/ UNCHANGED importVars
           \/ \E c \in Clients, k \in Keys : ReplayImport(c, k)
           \/ \E c \in Clients : LoseImport(c) \/ CommitRecord(c)
<1>1. ASSUME NEW c \in Clients, AssetCall(c) PROVE UNCHANGED importVars
  BY <1>1 DEF AssetCall, Rollback, OpenCreate, CommitCreate, OpenChallenge, OpenVerify,
              CommitChallenge, PassVerify, ExpireVerify, CommitVerify
<1>2. ASSUME NEW c \in Clients,
             \/ \E k \in Keys, file \in Files : OpenImport(c, k, file)
             \/ InvalidRow(c) \/ DuplicateRow(c) \/ NewRow(c) \/ InsertRow(c) \/ ClashRow(c)
             \/ LookupRow(c) \/ FailRow(c) \/ OpenRecord(c)
      PROVE  UNCHANGED importVars
  BY <1>2 DEF OpenImport, InvalidRow, DuplicateRow, NewRow, InsertRow, ClashRow, LookupRow,
              FailRow, OpenRecord
<1>3. ASSUME (\E a \in Assets : Retire(a)) \/ \E ch \in Challenges : Age(ch)
      PROVE  UNCHANGED importVars
  BY <1>3 DEF Retire, Age
<1> QED BY <1>1, <1>2, <1>3 DEF Next, ImportCall, vars

LEMMA AnswersAgreeStep ==
    ASSUME TypeOK, AnswersAgree, [Next]_vars
    PROVE  AnswersAgree'
<1>1. CASE UNCHANGED importVars
  BY <1>1 DEF importVars, AnswersAgree
<1>2. ASSUME NEW c \in Clients, NEW k \in Keys, ReplayImport(c, k) PROVE AnswersAgree'
  BY <1>2 DEF ReplayImport, Answer, AnswersAgree, TypeOK
<1>3. ASSUME NEW c \in Clients, LoseImport(c) PROVE AnswersAgree'
  BY <1>3, TxTyped DEF LoseImport, AtEnd, Answer, AnswersAgree, TypeOK
<1>4. ASSUME NEW c \in Clients, CommitRecord(c) PROVE AnswersAgree'
  BY <1>4, TxTyped DEF CommitRecord, AtEnd, Answer, AnswersAgree, TypeOK
<1> QED BY StepOfRecords, <1>1, <1>2, <1>3, <1>4

LEMMA ImportAccountsStep ==
    ASSUME TypeOK, RowsOk, RowInv, TxInv, ImportAccounts, [Next]_vars
    PROVE  ImportAccounts'
<1>1. \A i : Known(i) => \E a \in Assets : Exists(a)' /\ identifier'[a] = i
  BY KnownStays DEF Known
<1>2. ASSUME recorded' = recorded, summary' = summary PROVE ImportAccounts'
  BY <1>1, <1>2 DEF ImportAccounts, Known
<1>3. ASSUME NEW c \in Clients, CommitRecord(c) PROVE ImportAccounts'
  <2>1. /\ tx[c].k \in Keys
        /\ Accounted(tx[c].sum)
    BY <1>3, TxTyped DEF CommitRecord, AtEnd, TxInv, TxOk
  <2>2. /\ recorded' = recorded \cup {tx[c].k}
        /\ summary' = [summary EXCEPT ![tx[c].k] = tx[c].sum]
    BY <1>3 DEF CommitRecord
  <2>3. \A k \in recorded' :
            \A i \in (summary'[k].created \cup summary'[k].duplicates) \ summary'[k].invalid :
                Known(i)
    BY <2>1, <2>2 DEF ImportAccounts, Accounted, Known, TypeOK
  <2> QED BY <1>1, <2>3 DEF ImportAccounts
<1> QED BY StepOfRecords, <1>2, <1>3 DEF importVars, ReplayImport, LoseImport

LEMMA InitInv == Init => Inv /\ RowsOk
<1> SUFFICES ASSUME Init PROVE Inv /\ RowsOk
  OBVIOUS
<1>1. TypeOK
  BY InitTyped
<1>2. RowsOk /\ TxInv
  BY DEF Init, Idle, RowsOk, TxInv, TxOk, DistinctChallenges
<1>3. RowInv
  BY RegistryAssumption DEF Init, RowInv, Exists
<1>4. UniqueLive /\ ActiveIsProven /\ AnswersAgree /\ ImportAccounts
  BY DEF Init, UniqueLive, LiveAssets, ActiveIsProven, AnswersAgree, ImportAccounts
<1> QED BY <1>1, <1>2, <1>3, <1>4 DEF Inv

\* What calls in progress rely on, together with the four safety properties,
\* is preserved by every step of any number of overlapping calls.
THEOREM Invariance == Spec => [](Inv /\ RowsOk)
<1>1. Inv /\ RowsOk /\ [Next]_vars => (Inv /\ RowsOk)'
  BY StepTyped, RowInvStep, TxInvStep, UniqueLiveStep, ActiveIsProvenStep, AnswersAgreeStep,
     ImportAccountsStep
  DEF Inv
<1> QED BY <1>1, InitInv, PTL DEF Spec

\* No two live assets have one identifier: neither overlapping inserts nor the
\* activation of a retired asset make a duplicate.
THEOREM UniqueLiveHolds == Spec => []UniqueLive
BY Invariance, PTL DEF Inv

\* Only an asset that presented the token of a challenge of its own is active
\* or verified.
THEOREM ActiveIsProvenHolds == Spec => []ActiveIsProven
BY Invariance, PTL DEF Inv

\* An idempotency key has one answer, however its imports overlap and fail.
THEOREM AnswersAgreeHolds == Spec => []AnswersAgree
BY Invariance, PTL DEF Inv

\* Every row that an import has recorded without an error has an asset.
THEOREM ImportAccountsHolds == Spec => []ImportAccounts
BY Invariance, PTL DEF Inv

LEMMA InventoryStep ==
    ASSUME TypeOK, RowsOk, RowInv, TxInv, [Next]_vars
    PROVE  [Shown!Next]_<<identifier, LiveAssets>>
<1>1. CASE UNCHANGED <<assetVars, challengeVars>>
  BY <1>1 DEF assetVars, LiveAssets
<1>2. ASSUME NEW i \in Identifiers, Insert(i) PROVE Shown!Next
  <2>1. PICK a \in Assets :
            /\ ~ Exists(a)
            /\ Live(i) = {}
            /\ identifier' = [identifier EXCEPT ![a] = i]
            /\ life' = [life EXCEPT ![a] = "pending_verification"]
    BY <1>2 DEF Insert
  <2>2. LiveAssets' = LiveAssets \cup {a} /\ a \notin LiveAssets
    BY <2>1 DEF LiveAssets, Exists, TypeOK
  <2>3. identifier[a] = NoIdentifier /\ \A b \in LiveAssets : identifier[b] # i
    BY <2>1 DEF RowInv, Live
  <2> QED BY <2>1, <2>2, <2>3 DEF Shown!Next, Shown!Enter
<1>3. ASSUME NEW a \in Assets, Retire(a) PROVE Shown!Next
  <2>1. LiveAssets' = LiveAssets \ {a} /\ UNCHANGED identifier
    BY <1>3 DEF Retire, LiveAssets, TypeOK
  <2> QED BY <2>1 DEF Shown!Next, Shown!Leave
<1>4. ASSUME NEW c \in Clients, CommitVerify(c)
      PROVE  [Shown!Next]_<<identifier, LiveAssets>>
  <2>1. tx[c].a \in Assets /\ Exists(tx[c].a)
    BY <1>4, TxTyped DEF CommitVerify, TxInv, TxOk
  <2>2. LiveAssets' = LiveAssets \cup {tx[c].a} /\ UNCHANGED identifier
    BY <1>4, <2>1 DEF CommitVerify, LiveAssets, TypeOK
  <2>3. CASE tx[c].a \in LiveAssets
    BY <2>2, <2>3
  <2>4. CASE tx[c].a \notin LiveAssets
    <3>1. identifier[tx[c].a] \in Identifiers
      BY <2>1 DEF RowInv
    <3>2. \A b \in LiveAssets : identifier[b] # identifier[tx[c].a]
      BY <1>4, <2>4 DEF CommitVerify, Live
    <3>3. identifier' = [identifier EXCEPT ![tx[c].a] = identifier[tx[c].a]]
      BY <2>2 DEF TypeOK
    <3> QED BY <2>1, <2>2, <2>4, <3>1, <3>2, <3>3 DEF Shown!Next, Shown!Enter
  <2> QED BY <2>3, <2>4
<1>5. CASE (\E ch \in Challenges : Age(ch))
           \/ \E c \in Clients : CommitChallenge(c) \/ ExpireVerify(c)
  BY <1>5 DEF Age, CommitChallenge, ExpireVerify, assetVars, LiveAssets
<1> QED BY StepOfRows, <1>1, <1>2, <1>3, <1>4, <1>5 DEF RowStep

\* The registry implements Inventory: its calls, challenges and imports are
\* invisible in it, and an asset enters only where its identifier is free.
THEOREM KeepsInventoryHolds == Spec => KeepsInventory
<1>1. Init => Shown!Init
  BY DEF Init, Shown!Init, LiveAssets
<1>2. Inv /\ RowsOk /\ [Next]_vars => [Shown!Next]_<<identifier, LiveAssets>>
  BY InventoryStep DEF Inv
<1> QED BY <1>1, <1>2, Invariance, PTL DEF Spec, KeepsInventory, Shown!Spec

================================================================================
