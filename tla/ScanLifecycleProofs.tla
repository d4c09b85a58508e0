-------------------------- MODULE ScanLifecycleProofs -------------------------
(***************************************************************************)
(* Proofs about ScanLifecycle, for any dispatches, operators, targets,     *)
(* finding identifiers and any set of failures: the invariant and what it  *)
(* gives, the refinement of ScanRow, the audit trail, and what remains of  *)
(* the table of transitions when transactions do not overlap.              *)
(***************************************************************************)
EXTENDS ScanLifecycle, TLAPS

\* The steps of an execution before which a request has not been sent.
BeforeStart == {"idle", "issued", "refused"}
BeforePost == BeforeStart \cup {"starting", "scanning"}
BeforeComplete == BeforePost \cup {"posting"}

\* An open transaction passed its guard on the status it read; a final
\* status is only ever requested of a scan that has left PENDING.
OpenInv ==
    /\ \A a \in Actors, s \in PatchKinds :
          req[a][s] = "open" =>
              /\ s \in VALID_TRANSITIONS[seen[a][s]]
              /\ s # "RUNNING" => status # "PENDING"
    /\ \A a \in Actors :
          req[a]["FINDINGS"] = "open" => seenRows[a] \subseteq findings

\* The requests of an execution follow the order of execute_manifest.
OrderInv ==
    \A d \in Dispatches :
        /\ pc[d] \in BeforeStart => req[d]["RUNNING"] = "none"
        /\ pc[d] \in BeforePost => req[d]["FINDINGS"] = "none"
        /\ pc[d] \in BeforeComplete => req[d]["COMPLETED"] = "none"
        /\ pc[d] \in {"scanning", "posting", "completing", "done"}
              => req[d]["RUNNING"] = "done"
        /\ pc[d] \notin {"failing", "failed", "crashed"} => req[d]["FAILED"] = "none"
        /\ pc[d] = "done" => req[d]["COMPLETED"] = "done"
        /\ req[d]["FINDINGS"] # "none" => req[d]["RUNNING"] = "done"
        /\ req[d]["COMPLETED"] # "none" => req[d]["FINDINGS"] = "done"

\* What a reply tells an execution is what the portal has stored.
ReplyInv ==
    \A d \in Dispatches :
        /\ req[d]["FINDINGS"] = "done" => found[d] \subseteq findings
        /\ \A s \in PatchKinds :
              req[d][s] = "done" <=> \E e \in audit : e.by = d /\ e.after = s
        /\ d \in ingested => req[d]["FINDINGS"] = "done"

\* The row agrees with its audit trail.
RowInv ==
    /\ audit # {} => status # "PENDING"
    /\ \A e \in audit : e.after \in Terminal => completedAt = "set"
    /\ status \in Terminal => completedAt = "set"
-----------------------------------------------------------------------------
(* The requests: names, and what sending and answering one changes.        *)

LEMMA KindFacts ==
    /\ PatchKinds \subseteq Kinds
    /\ {"RUNNING", "COMPLETED", "FAILED"} \subseteq PatchKinds
    /\ "FINDINGS" \in Kinds /\ "FINDINGS" \notin PatchKinds
    /\ "PENDING" \notin PatchKinds
  BY DEF Kinds, PatchKinds, Statuses

LEMMA DispatchFacts == \A d \in Dispatches : d \in Actors /\ d \notin Operators
  BY LifecycleAssumption DEF Actors

LEMMA SetReq ==
    ASSUME TypeOK, NEW a \in Actors, NEW k \in Kinds, NEW s, Set(a, k, s)
    PROVE  \A b \in Actors, j \in Kinds :
              req'[b][j] = IF b = a /\ j = k THEN s ELSE req[b][j]
  BY DEF TypeOK, Set

LEMMA AnswerReq ==
    ASSUME TypeOK, NEW a \in Actors, NEW k \in Kinds, NEW s, Answer(a, k, s)
    PROVE  /\ \A b \in Actors, j \in Kinds :
                 req'[b][j] = IF b = a /\ j = k
                              THEN (IF a \in Operators THEN "none" ELSE s)
                              ELSE req[b][j]
           /\ \A b \in Actors, j \in Kinds :
                 b # a \/ j # k => seen'[b][j] = seen[b][j]
           /\ \A b \in Actors :
                 b # a \/ k # "FINDINGS" => seenRows'[b] = seenRows[b]
<1>1. Set(a, k, IF a \in Operators THEN "none" ELSE s)
  BY DEF Answer
<1>2. \A b \in Actors, j \in Kinds : b # a \/ j # k => seen'[b][j] = seen[b][j]
  BY DEF TypeOK, Answer
<1>3. \A b \in Actors : b # a \/ k # "FINDINGS" => seenRows'[b] = seenRows[b]
  BY DEF TypeOK, Answer
<1> QED BY <1>1, <1>2, <1>3, SetReq

LEMMA SetType ==
    ASSUME TypeOK, NEW a \in Actors, NEW k, NEW s \in ReqStates, Set(a, k, s)
    PROVE  req' \in [Actors -> [Kinds -> ReqStates]]
  BY DEF TypeOK, Set

LEMMA AnswerType ==
    ASSUME TypeOK, NEW a, NEW k, NEW s \in ReqStates, Answer(a, k, s)
    PROVE  /\ req' \in [Actors -> [Kinds -> ReqStates]]
           /\ seen' \in [Actors -> [Kinds -> Statuses]]
           /\ seenRows' \in [Actors -> SUBSET Rows]
<1>1. req' \in [Actors -> [Kinds -> ReqStates]]
  BY DEF TypeOK, Answer, Set, ReqStates
<1>2. seen' \in [Actors -> [Kinds -> Statuses]]
  BY DEF TypeOK, Answer, Statuses
<1>3. seenRows' \in [Actors -> SUBSET Rows]
  <2>1. CASE k = "FINDINGS"
    BY <2>1 DEF TypeOK, Answer
  <2>2. CASE k # "FINDINGS"
    BY <2>2 DEF TypeOK, Answer
  <2> QED BY <2>1, <2>2
<1> QED BY <1>1, <1>2, <1>3

\* The columns, requests and executions keep their types in every run.
THEOREM TypeCorrect == Spec => []TypeOK
<1>1. Init => TypeOK
  BY DEF Init, TypeOK, Statuses, ReqStates, PCs
<1>2. TypeOK /\ [Next]_vars => TypeOK'
  <2> SUFFICES ASSUME TypeOK, [Next]_vars PROVE TypeOK'
    OBVIOUS
  <2> USE DEF TypeOK, portalVars, requestVars, scannerVars, ReqStates, PCs
  <2>1. ASSUME NEW a \in Actors, NEW s \in PatchKinds, HandlePatch(a, s)
        PROVE  TypeOK'
    <3>1. CASE OpenTransition(a, s)
      BY <3>1 DEF OpenTransition, Set
    <3>2. CASE RejectTransition(a, s)
      BY <3>2, AnswerType DEF RejectTransition
    <3>3. CASE CommitTransition(a, s)
      <4>1. audit' \subseteq AuditEvents
        BY <3>3 DEF CommitTransition, AuditEvents, PatchKinds, Kinds
      <4> QED BY <4>1, <3>3, AnswerType DEF CommitTransition, PatchKinds, Statuses
    <3> QED BY <2>1, <3>1, <3>2, <3>3 DEF HandlePatch
  <2>2. ASSUME NEW a \in Actors, HandlePost(a)
        PROVE  TypeOK'
    <3>1. CASE OpenIngest(a)
      BY <3>1 DEF OpenIngest, Set
    <3>2. CASE RejectIngest(a)
      BY <3>2, AnswerType DEF RejectIngest
    <3>3. CASE CommitIngest(a)
      BY <3>3, AnswerType DEF CommitIngest, NewRows
    <3>4. CASE ConflictIngest(a)
      BY <3>4, AnswerType DEF ConflictIngest
    <3> QED BY <2>2, <3>1, <3>2, <3>3, <3>4 DEF HandlePost
  <2>3. ASSUME NEW a \in Actors, NEW k \in Kinds, Abort(a, k)
        PROVE  TypeOK'
    BY <2>3, AnswerType DEF Abort
  <2>9. ASSUME NEW d \in Dispatches, NEW k \in Kinds, Lose(d, k)
        PROVE  TypeOK'
    BY <2>9, DispatchFacts DEF Lose, Set
  <2>4. ASSUME NEW d \in Dispatches, Dispatch(d) \/ Expire(d) \/ Crash(d)
        PROVE  TypeOK'
    BY <2>4 DEF Dispatch, Expire, Crash
  <2>5. ASSUME NEW d \in Dispatches, Execute(d)
        PROVE  TypeOK'
    <3>1. CASE Accept(d) \/ RefuseDispatch(d)
      BY <3>1, DispatchFacts, SetType DEF Accept, RefuseDispatch, Goto
    <3>2. CASE \E t \in Targets : Probe(d, t)
      <4> PICK t \in Targets, Q \in SUBSET Qids :
               Probe(d, t) /\ found' = [found EXCEPT ![d] = @ \cup ({t} \X Q)]
        BY <3>2 DEF Probe
      <4>1. found' \in [Actors -> SUBSET Rows]
        BY DEF Rows
      <4>2. todo' \in [Dispatches -> SUBSET Targets]
        BY DEF Probe
      <4> QED BY <4>1, <4>2 DEF Probe
    <3>3. CASE Started(d) \/ Completed(d) \/ GiveUp(d)
      BY <3>3 DEF Started, Completed, GiveUp, Goto
    <3>4. CASE Post(d) \/ Posted(d) \/ WriteBackFailure(d)
      BY <3>4, DispatchFacts, SetType DEF Post, Posted, WriteBackFailure, Goto
    <3> QED BY <2>5, <3>1, <3>2, <3>3, <3>4 DEF Execute
  <2>6. ASSUME NEW o \in Operators, NEW s \in PatchKinds, OperatorPatch(o, s)
        PROVE  TypeOK'
    BY <2>6 DEF OperatorPatch, Set
  <2>7. ASSUME NEW o \in Operators, NEW F \in SUBSET Rows, OperatorPost(o, F)
        PROVE  TypeOK'
    BY <2>7 DEF OperatorPost, Set
  <2>8. CASE UNCHANGED vars
    BY <2>8 DEF vars
  <2> QED
    BY <2>1, <2>2, <2>3, <2>4, <2>5, <2>6, <2>7, <2>8, <2>9 DEF Next
<1> QED
  BY <1>1, <1>2, PTL DEF Spec

-----------------------------------------------------------------------------
(* The invariant is inductive: one lemma per group of actions.             *)

Inv == OpenInv /\ OrderInv /\ ReplyInv /\ RowInv

\* A request ends in failure: nothing else happens.
LEMMA ErrorInv ==
    ASSUME TypeOK, Inv, NEW a \in Actors, NEW k \in Kinds,
           req[a][k] \in {"sent", "open"}, Answer(a, k, "error"),
           UNCHANGED <<portalVars, manifest, scannerVars>>
    PROVE  Inv'
<1> USE DispatchFacts, KindFacts DEF Inv
<1>1. /\ \A b \in Actors, j \in Kinds :
            req'[b][j] = IF b = a /\ j = k
                         THEN (IF a \in Operators THEN "none" ELSE "error")
                         ELSE req[b][j]
      /\ \A b \in Actors, j \in Kinds : b # a \/ j # k => seen'[b][j] = seen[b][j]
      /\ \A b \in Actors : b # a \/ k # "FINDINGS" => seenRows'[b] = seenRows[b]
      /\ UNCHANGED <<status, completedAt, findings, audit, ingested, pc, found>>
  BY AnswerReq DEF portalVars, scannerVars
<1>2. OpenInv'
  BY <1>1 DEF OpenInv
<1>3. OrderInv'
  BY <1>1 DEF OrderInv
<1>4. ReplyInv'
  BY <1>1 DEF ReplyInv
<1>5. RowInv'
  BY <1>1 DEF RowInv
<1> QED BY <1>2, <1>3, <1>4, <1>5

LEMMA OpenTransitionInv ==
    ASSUME TypeOK, Inv, NEW a \in Actors, NEW s \in PatchKinds, OpenTransition(a, s)
    PROVE  Inv'
<1> USE DispatchFacts, KindFacts DEF Inv
<1>1. /\ req[a][s] = "sent"
      /\ s \in VALID_TRANSITIONS[status]
      /\ \A b \in Actors, j \in Kinds :
            req'[b][j] = IF b = a /\ j = s THEN "open" ELSE req[b][j]
      /\ \A b \in Actors, j \in Kinds :
            seen'[b][j] = IF b = a /\ j = s THEN status ELSE seen[b][j]
      /\ UNCHANGED <<status, completedAt, findings, audit, ingested, pc, found, seenRows>>
  BY SetReq DEF OpenTransition, portalVars, scannerVars, TypeOK
<1>2. OpenInv'
  BY <1>1 DEF OpenInv, VALID_TRANSITIONS, TypeOK, Statuses
<1>3. OrderInv'
  BY <1>1 DEF OrderInv
<1>4. ReplyInv'
  BY <1>1 DEF ReplyInv
<1>5. RowInv'
  BY <1>1 DEF RowInv
<1> QED BY <1>2, <1>3, <1>4, <1>5

LEMMA CommitTransitionInv ==
    ASSUME TypeOK, Inv, NEW a \in Actors, NEW s \in PatchKinds, CommitTransition(a, s)
    PROVE  Inv'
<1> USE DispatchFacts, KindFacts DEF Inv
<1> DEFINE event == [by |-> a, before |-> seen[a][s], after |-> s]
<1>1. /\ req[a][s] = "open"
      /\ \A b \in Actors, j \in Kinds :
            req'[b][j] = IF b = a /\ j = s
                         THEN (IF a \in Operators THEN "none" ELSE "done")
                         ELSE req[b][j]
      /\ \A b \in Actors, j \in Kinds : b # a \/ j # s => seen'[b][j] = seen[b][j]
      /\ \A b \in Actors : seenRows'[b] = seenRows[b]
      /\ status' = s
      /\ completedAt' = IF s \in Terminal THEN "set" ELSE completedAt
      /\ audit' = audit \cup {event}
      /\ UNCHANGED <<findings, ingested, pc, found>>
  BY AnswerReq DEF CommitTransition, scannerVars
<1>2. OpenInv'
  BY <1>1 DEF OpenInv
<1>3. OrderInv'
  BY <1>1 DEF OrderInv
<1>4. ReplyInv'
  <2>1. ASSUME NEW d \in Dispatches, NEW t \in PatchKinds
        PROVE  req'[d][t] = "done" <=> \E e \in audit' : e.by = d /\ e.after = t
    <3>1. CASE d = a /\ t = s
      <4>1. event \in audit' /\ event.by = d /\ event.after = t
        BY <1>1, <3>1
      <4>2. req'[d][t] = "done"
        BY <1>1, <3>1
      <4> QED BY <4>1, <4>2
    <3>2. CASE ~ (d = a /\ t = s)
      <4>1. ~ (event.by = d /\ event.after = t)
        BY <3>2
      <4>2. (\E e \in audit' : e.by = d /\ e.after = t)
               <=> (\E e \in audit : e.by = d /\ e.after = t)
        BY <1>1, <4>1
      <4> QED BY <1>1, <3>2, <4>2 DEF ReplyInv
    <3> QED BY <3>1, <3>2
  <2> QED BY <1>1, <2>1 DEF ReplyInv
<1>5. RowInv'
  BY <1>1 DEF RowInv, Terminal
<1> QED BY <1>2, <1>3, <1>4, <1>5

LEMMA OpenIngestInv ==
    ASSUME TypeOK, Inv, NEW a \in Actors, OpenIngest(a)
    PROVE  Inv'
<1> USE DispatchFacts, KindFacts DEF Inv
<1>1. /\ req[a]["FINDINGS"] = "sent"
      /\ \A b \in Actors, j \in Kinds :
            req'[b][j] = IF b = a /\ j = "FINDINGS" THEN "open" ELSE req[b][j]
      /\ \A b \in Actors : seenRows'[b] = IF b = a THEN findings ELSE seenRows[b]
      /\ UNCHANGED <<status, completedAt, findings, audit, ingested, pc, found, seen>>
  BY SetReq DEF OpenIngest, portalVars, scannerVars, TypeOK
<1>2. OpenInv'
  BY <1>1 DEF OpenInv
<1>3. OrderInv'
  BY <1>1 DEF OrderInv
<1>4. ReplyInv'
  BY <1>1 DEF ReplyInv
<1>5. RowInv'
  BY <1>1 DEF RowInv
<1> QED BY <1>2, <1>3, <1>4, <1>5

LEMMA CommitIngestInv ==
    ASSUME TypeOK, Inv, NEW a \in Actors, CommitIngest(a)
    PROVE  Inv'
<1> USE DispatchFacts, KindFacts DEF Inv
<1>1. /\ req[a]["FINDINGS"] = "open"
      /\ \A b \in Actors, j \in Kinds :
            req'[b][j] = IF b = a /\ j = "FINDINGS"
                         THEN (IF a \in Operators THEN "none" ELSE "done")
                         ELSE req[b][j]
      /\ \A b \in Actors, j \in Kinds :
            b # a \/ j # "FINDINGS" => seen'[b][j] = seen[b][j]
      /\ \A b \in Actors : b # a => seenRows'[b] = seenRows[b]
      /\ findings' = findings \cup (found[a] \ seenRows[a])
      /\ ingested' \in {ingested, ingested \cup {a}}
      /\ UNCHANGED <<status, completedAt, audit, pc, found>>
  BY AnswerReq DEF CommitIngest, NewRows, scannerVars
<1>2. OpenInv'
  BY <1>1 DEF OpenInv
<1>3. OrderInv'
  BY <1>1 DEF OrderInv
<1>4. ReplyInv'
  <2>1. found[a] \subseteq findings'
    BY <1>1 DEF OpenInv
  <2> QED BY <1>1, <2>1 DEF ReplyInv
<1>5. RowInv'
  BY <1>1 DEF RowInv
<1> QED BY <1>2, <1>3, <1>4, <1>5

\* An execution sends its next request: the portal's part is untouched.
LEMMA SendInv ==
    ASSUME TypeOK, Inv, NEW d \in Dispatches,
           Accept(d) \/ Post(d) \/ Posted(d) \/ WriteBackFailure(d)
    PROVE  Inv'
<1> USE DispatchFacts, KindFacts DEF Inv, BeforeStart, BeforePost, BeforeComplete
<1>1. /\ UNCHANGED <<status, completedAt, findings, audit, ingested, found, seen, seenRows>>
      /\ \A b \in Dispatches : b # d => pc'[b] = pc[b]
      /\ \A b \in Actors, j \in Kinds : b # d => req'[b][j] = req[b][j]
      /\ \A j \in Kinds : req'[d][j] \in {req[d][j], "sent"}
  BY SetReq DEF Accept, Post, Posted, WriteBackFailure, Goto, portalVars, TypeOK
<1>2. OpenInv'
  BY <1>1 DEF OpenInv
<1>3. ASSUME NEW k \in {"RUNNING", "FINDINGS", "COMPLETED", "FAILED"}, Set(d, k, "sent")
      PROVE  \A j \in Kinds : req'[d][j] = IF j = k THEN "sent" ELSE req[d][j]
  BY <1>3, SetReq
<1>4. CASE Accept(d)
  <2>1. /\ pc[d] = "issued" /\ pc'[d] = "starting"
        /\ \A j \in Kinds : req'[d][j] = IF j = "RUNNING" THEN "sent" ELSE req[d][j]
    BY <1>4, <1>3 DEF Accept, Goto, TypeOK
  <2>2. OrderInv'
    BY <1>1, <2>1 DEF OrderInv
  <2>3. ReplyInv'
    BY <1>1, <2>1 DEF ReplyInv, OrderInv
  <2> QED BY <1>1, <1>2, <2>2, <2>3 DEF RowInv
<1>5. CASE Post(d)
  <2>1. /\ pc[d] = "scanning" /\ pc'[d] = "posting"
        /\ \A j \in Kinds : req'[d][j] = IF j = "FINDINGS" THEN "sent" ELSE req[d][j]
    BY <1>5, <1>3 DEF Post, Goto, TypeOK
  <2>2. OrderInv'
    BY <1>1, <2>1 DEF OrderInv
  <2>3. ReplyInv'
    BY <1>1, <2>1 DEF ReplyInv, OrderInv
  <2> QED BY <1>1, <1>2, <2>2, <2>3 DEF RowInv
<1>6. CASE Posted(d)
  <2>1. /\ pc[d] = "posting" /\ pc'[d] = "completing"
        /\ req[d]["FINDINGS"] = "done"
        /\ \A j \in Kinds : req'[d][j] = IF j = "COMPLETED" THEN "sent" ELSE req[d][j]
    BY <1>6, <1>3 DEF Posted, Goto, TypeOK
  <2>2. OrderInv'
    BY <1>1, <2>1 DEF OrderInv
  <2>3. ReplyInv'
    BY <1>1, <2>1 DEF ReplyInv, OrderInv
  <2> QED BY <1>1, <1>2, <2>2, <2>3 DEF RowInv
<1>7. CASE WriteBackFailure(d)
  <2>1. /\ pc[d] \in {"starting", "scanning", "posting", "completing"}
        /\ pc'[d] = "failing"
        /\ \A j \in Kinds : req'[d][j] = IF j = "FAILED" THEN "sent" ELSE req[d][j]
    BY <1>7, <1>3 DEF WriteBackFailure, Raises, TypeOK
  <2>2. OrderInv'
    BY <1>1, <2>1 DEF OrderInv
  <2>3. ReplyInv'
    BY <1>1, <2>1 DEF ReplyInv, OrderInv
  <2> QED BY <1>1, <1>2, <2>2, <2>3 DEF RowInv
<1> QED BY <1>4, <1>5, <1>6, <1>7

LEMMA StepInv ==
    ASSUME TypeOK, Inv, [Next]_vars
    PROVE  Inv'
<1> USE DispatchFacts, KindFacts
<1> USE DEF BeforeStart, BeforePost, BeforeComplete
<1>1. ASSUME NEW a \in Actors, NEW s \in PatchKinds, HandlePatch(a, s)
      PROVE  Inv'
  BY <1>1, OpenTransitionInv, CommitTransitionInv, ErrorInv DEF HandlePatch, RejectTransition
<1>2. ASSUME NEW a \in Actors, HandlePost(a)
      PROVE  Inv'
  BY <1>2, OpenIngestInv, CommitIngestInv, ErrorInv DEF HandlePost, RejectIngest, ConflictIngest
<1>3. ASSUME NEW a \in Actors, NEW k \in Kinds, Abort(a, k)
      PROVE  Inv'
  BY <1>3, ErrorInv DEF Abort
<1>4. ASSUME NEW d \in Dispatches, NEW k \in Kinds, Lose(d, k)
      PROVE  Inv'
  <2>1. /\ req[d][k] = "sent"
        /\ \A b \in Actors, j \in Kinds :
              req'[b][j] = IF b = d /\ j = k THEN "lost" ELSE req[b][j]
        /\ UNCHANGED <<status, completedAt, findings, audit, ingested, pc, found, seen, seenRows>>
    BY <1>4, SetReq DEF Lose, portalVars, scannerVars
  <2>2. OpenInv' /\ RowInv'
    BY <2>1 DEF Inv, OpenInv, RowInv
  <2>3. OrderInv'
    BY <2>1 DEF Inv, OrderInv
  <2>4. ReplyInv'
    BY <2>1 DEF Inv, ReplyInv
  <2> QED BY <2>2, <2>3, <2>4 DEF Inv
<1>5. ASSUME NEW d \in Dispatches,
             Dispatch(d) \/ RefuseDispatch(d) \/ Started(d) \/ Completed(d) \/ GiveUp(d) \/ Crash(d)
      PROVE  Inv'
  <2>1. /\ UNCHANGED <<status, completedAt, findings, audit, ingested, found, req, seen, seenRows>>
        /\ \A b \in Dispatches : b # d => pc'[b] = pc[b]
    BY <1>5 DEF Dispatch, RefuseDispatch, Started, Completed, GiveUp, Crash, Goto,
                portalVars, requestVars, TypeOK
  <2>2. OpenInv' /\ ReplyInv' /\ RowInv'
    BY <2>1 DEF Inv, OpenInv, ReplyInv, RowInv
  <2>3. \/ pc[d] = "idle" /\ pc'[d] = "issued"
        \/ pc[d] = "issued" /\ pc'[d] = "refused"
        \/ pc[d] = "starting" /\ pc'[d] = "scanning" /\ req[d]["RUNNING"] = "done"
        \/ pc[d] = "completing" /\ pc'[d] = "done" /\ req[d]["COMPLETED"] = "done"
        \/ pc'[d] \in {"failed", "crashed"}
    BY <1>5 DEF Dispatch, RefuseDispatch, Started, Completed, GiveUp, Crash, Goto, TypeOK
  <2>4. OrderInv'
    BY <2>1, <2>3 DEF Inv, OrderInv
  <2> QED BY <2>2, <2>4 DEF Inv
<1>6. ASSUME NEW d \in Dispatches, NEW t \in Targets, Probe(d, t)
      PROVE  Inv'
  <2>1. /\ UNCHANGED <<status, completedAt, findings, audit, ingested, pc, req, seen, seenRows>>
        /\ pc[d] = "scanning"
        /\ \A b \in Actors : b # d => found'[b] = found[b]
    BY <1>6 DEF Probe, portalVars, requestVars, TypeOK
  <2>2. OpenInv' /\ OrderInv' /\ RowInv'
    BY <2>1 DEF Inv, OpenInv, OrderInv, RowInv
  <2>3. ReplyInv'
    BY <2>1 DEF Inv, ReplyInv, OrderInv
  <2> QED BY <2>2, <2>3 DEF Inv
<1>7. ASSUME NEW d \in Dispatches, Accept(d) \/ Post(d) \/ Posted(d) \/ WriteBackFailure(d)
      PROVE  Inv'
  BY <1>7, SendInv
<1>8. ASSUME NEW o \in Operators, NEW k \in Kinds, Set(o, k, "sent"),
             UNCHANGED <<portalVars, pc, seen, seenRows>>,
             \A d \in Dispatches : found'[d] = found[d]
      PROVE  Inv'
  <2>1. /\ \A b \in Actors, j \in Kinds :
              req'[b][j] = IF b = o /\ j = k THEN "sent" ELSE req[b][j]
        /\ UNCHANGED <<status, completedAt, findings, audit, ingested, pc, seen, seenRows>>
    BY <1>8, SetReq DEF portalVars, Actors
  <2>2. OpenInv' /\ RowInv'
    BY <2>1 DEF Inv, OpenInv, RowInv
  <2>3. OrderInv'
    BY <2>1 DEF Inv, OrderInv
  <2>4. ReplyInv'
    BY <1>8, <2>1 DEF Inv, ReplyInv
  <2> QED BY <2>2, <2>3, <2>4 DEF Inv
<1>9. ASSUME NEW o \in Operators, NEW s \in PatchKinds, OperatorPatch(o, s)
      PROVE  Inv'
  BY <1>9, <1>8 DEF OperatorPatch, scannerVars
<1>10. ASSUME NEW o \in Operators, NEW F \in SUBSET Rows, OperatorPost(o, F)
      PROVE  Inv'
  BY <1>10, <1>8 DEF OperatorPost, TypeOK
<1>11. CASE UNCHANGED vars \/ \E d \in Dispatches : Expire(d)
  <2>1. UNCHANGED <<status, completedAt, findings, audit, ingested, pc, found, req, seen, seenRows>>
    BY <1>11 DEF vars, Expire, portalVars, requestVars, scannerVars
  <2> QED BY <2>1 DEF Inv, OpenInv, OrderInv, ReplyInv, RowInv
<1> QED
  BY <1>1, <1>2, <1>3, <1>4, <1>5, <1>6, <1>7, <1>9, <1>10, <1>11 DEF Next, Execute

LEMMA InitInv == Init => Inv
  BY DispatchFacts, KindFacts
     DEF Init, Inv, OpenInv, OrderInv, ReplyInv, RowInv, BeforeStart, BeforePost,
         BeforeComplete, Terminal

\* The strengthening that all the safety properties follow from.
THEOREM Invariance == Spec => []Inv
<1>1. TypeOK /\ Inv /\ [Next]_vars => Inv'
  BY StepInv
<1> QED BY <1>1, InitInv, TypeCorrect, PTL DEF Spec

-----------------------------------------------------------------------------
(* What the invariant gives.                                               *)

\* An execution whose COMPLETED patch is recorded has all its findings in the
\* database, because execute_manifest sends COMPLETED only after the reply to
\* the findings, and ingestFindings inserts all of them or none.
THEOREM CompletedHasFindingsHolds == Spec => []CompletedHasFindings
<1>1. TypeOK /\ Inv => CompletedHasFindings
  <2> SUFFICES ASSUME TypeOK, Inv, NEW e \in audit, e.by \in Dispatches, e.after = "COMPLETED"
               PROVE  found[e.by] \subseteq findings
    BY DEF CompletedHasFindings
  <2>1. req[e.by]["COMPLETED"] = "done"
    BY KindFacts DEF Inv, ReplyInv
  <2>2. req[e.by]["FINDINGS"] = "done"
    BY <2>1 DEF Inv, OrderInv
  <2> QED BY <2>2 DEF Inv, ReplyInv
<1> QED BY <1>1, TypeCorrect, Invariance, PTL

\* When execute_manifest answers "COMPLETED", the portal has the audit event
\* of the transition and a completion date.
THEOREM DoneIsRecordedHolds == Spec => []DoneIsRecorded
<1>1. Inv => DoneIsRecorded
  <2> SUFFICES ASSUME Inv, NEW d \in Dispatches, pc[d] = "done"
               PROVE  /\ \E e \in audit : e.by = d /\ e.after = "COMPLETED"
                      /\ completedAt = "set"
    BY DEF DoneIsRecorded
  <2>1. req[d]["COMPLETED"] = "done"
    BY DEF Inv, OrderInv
  <2>2. PICK e \in audit : e.by = d /\ e.after = "COMPLETED"
    BY <2>1, KindFacts DEF Inv, ReplyInv
  <2>3. completedAt = "set"
    BY <2>2 DEF Inv, RowInv, Terminal
  <2> QED BY <2>2, <2>3
<1> QED BY <1>1, Invariance, PTL

\* The findings of an execution reach the scan only after that execution has
\* moved it to RUNNING: a second dispatch that is refused stores nothing.
THEOREM FindingsOfStartedOnlyHolds == Spec => []FindingsOfStartedOnly
<1>1. Inv => FindingsOfStartedOnly
  <2> SUFFICES ASSUME Inv, NEW d \in ingested \cap Dispatches
               PROVE  /\ \E e \in audit : e.by = d /\ e.after = "RUNNING"
                      /\ status # "PENDING"
    BY DEF FindingsOfStartedOnly
  <2>1. req[d]["FINDINGS"] = "done"
    BY DEF Inv, ReplyInv
  <2>2. req[d]["RUNNING"] = "done"
    BY <2>1 DEF Inv, OrderInv
  <2>3. PICK e \in audit : e.by = d /\ e.after = "RUNNING"
    BY <2>2, KindFacts DEF Inv, ReplyInv
  <2>4. status # "PENDING"
    BY <2>3 DEF Inv, RowInv
  <2> QED BY <2>3, <2>4
<1> QED BY <1>1, Invariance, PTL

-----------------------------------------------------------------------------
(* The row as its readers see it.                                          *)

\* A step leaves the three columns and their audit trail alone, commits a
\* transition, or commits an ingestion.
LEMMA RowSteps ==
    ASSUME TypeOK, [Next]_vars
    PROVE  \/ UNCHANGED <<status, completedAt, findings, audit>>
           \/ \E a \in Actors, s \in PatchKinds : CommitTransition(a, s)
           \/ \E a \in Actors : CommitIngest(a)
<1> USE DEF portalVars
<1>1. ASSUME NEW a \in Actors, NEW s \in PatchKinds, HandlePatch(a, s)
      PROVE  UNCHANGED <<status, completedAt, findings, audit>> \/ CommitTransition(a, s)
  BY <1>1 DEF HandlePatch, OpenTransition, RejectTransition
<1>2. ASSUME NEW a \in Actors, HandlePost(a)
      PROVE  UNCHANGED <<status, completedAt, findings, audit>> \/ CommitIngest(a)
  BY <1>2 DEF HandlePost, OpenIngest, RejectIngest, ConflictIngest
<1>3. ASSUME NEW d \in Dispatches, Execute(d) \/ Dispatch(d) \/ Expire(d) \/ Crash(d)
      PROVE  UNCHANGED <<status, completedAt, findings, audit>>
  <2>1. CASE Dispatch(d) \/ Expire(d) \/ Crash(d)
    BY <2>1 DEF Dispatch, Expire, Crash
  <2>2. CASE Execute(d)
    BY <2>2 DEF Execute, Accept, RefuseDispatch, Started, Probe, Post, Posted, Completed,
                WriteBackFailure, GiveUp
  <2> QED BY <1>3, <2>1, <2>2
<1>4. ASSUME NEW d \in Dispatches, NEW k \in Kinds, Lose(d, k)
      PROVE  UNCHANGED <<status, completedAt, findings, audit>>
  BY <1>4 DEF Lose
<1>5. ASSUME NEW a \in Actors, NEW k \in Kinds, Abort(a, k)
      PROVE  UNCHANGED <<status, completedAt, findings, audit>>
  BY <1>5 DEF Abort
<1>6. ASSUME NEW o \in Operators, NEW s \in PatchKinds, OperatorPatch(o, s)
      PROVE  UNCHANGED <<status, completedAt, findings, audit>>
  BY <1>6 DEF OperatorPatch
<1>7. ASSUME NEW o \in Operators, NEW F \in SUBSET Rows, OperatorPost(o, F)
      PROVE  UNCHANGED <<status, completedAt, findings, audit>>
  BY <1>7 DEF OperatorPost
<1>8. CASE UNCHANGED vars
  BY <1>8 DEF vars
<1> QED BY <1>1, <1>2, <1>3, <1>4, <1>5, <1>6, <1>7, <1>8 DEF Next

\* A committed transition leads out of PENDING only to RUNNING, since a final
\* status is requested only of a scan some transaction saw outside PENDING.
LEMMA CommitStep ==
    ASSUME TypeOK, Inv, NEW a \in Actors, NEW s \in PatchKinds, CommitTransition(a, s)
    PROVE  /\ status' = s
           /\ s \in {"RUNNING", "COMPLETED", "FAILED"}
           /\ status = "PENDING" => s = "RUNNING"
           /\ completedAt' = IF s \in Terminal THEN "set" ELSE completedAt
           /\ findings' = findings
<1>1. s \in {"RUNNING", "COMPLETED", "FAILED"}
  BY DEF PatchKinds, Statuses
<1>2. status = "PENDING" => s = "RUNNING"
  BY DEF CommitTransition, Inv, OpenInv
<1> QED BY <1>1, <1>2 DEF CommitTransition

\* However transactions overlap, a scan leaves PENDING only for RUNNING.
THEOREM StartsWithRunningHolds == Spec => StartsWithRunning
<1>1. TypeOK /\ Inv /\ [Next]_vars
        => [status = "PENDING" => status' \in {"PENDING", "RUNNING"}]_status
  <2> SUFFICES ASSUME TypeOK, Inv, [Next]_vars, status = "PENDING"
               PROVE  status' \in {"PENDING", "RUNNING"}
    OBVIOUS
  <2>1. CASE UNCHANGED <<status, completedAt, findings, audit>>
    BY <2>1
  <2>2. CASE \E a \in Actors, s \in PatchKinds : CommitTransition(a, s)
    BY <2>2, CommitStep
  <2>3. CASE \E a \in Actors : CommitIngest(a)
    BY <2>3 DEF CommitIngest
  <2> QED BY <2>1, <2>2, <2>3, RowSteps
<1> QED BY <1>1, TypeCorrect, Invariance, PTL DEF Spec, StartsWithRunning

\* The lifecycle implements ScanRow: for any number of overlapping dispatches
\* and operators and under every failure, the row starts with RUNNING, never
\* returns to PENDING, dates every final status and loses no finding.
THEOREM RowRefinementHolds == Spec => RowRefinement
<1>1. Init => ScanRows!Init
  BY DEF Init, ScanRows!Init
<1>2. TypeOK /\ TypeOK' /\ Inv /\ [Next]_vars => [ScanRows!Next]_(ScanRows!vars)
  <2> SUFFICES ASSUME TypeOK, TypeOK', Inv, [Next]_vars
               PROVE  ScanRows!Next \/ UNCHANGED ScanRows!vars
    OBVIOUS
  <2>1. CASE UNCHANGED <<status, completedAt, findings, audit>>
    BY <2>1 DEF ScanRows!vars
  <2>2. CASE \E a \in Actors, s \in PatchKinds : CommitTransition(a, s)
    <3> PICK a \in Actors, s \in PatchKinds : CommitTransition(a, s)
      BY <2>2
    <3>1. CASE status = "PENDING"
      BY <3>1, CommitStep DEF ScanRows!Next, ScanRows!Start, Terminal
    <3>2. CASE status # "PENDING"
      BY <3>2, CommitStep DEF ScanRows!Next, ScanRows!Overwrite, Terminal
    <3> QED BY <3>1, <3>2
  <2>3. CASE \E a \in Actors : CommitIngest(a)
    <3>1. /\ findings' \in SUBSET Rows
          /\ findings \subseteq findings'
          /\ UNCHANGED <<status, completedAt>>
      BY <2>3 DEF CommitIngest, TypeOK
    <3> QED BY <3>1 DEF ScanRows!Next, ScanRows!Ingest
  <2> QED BY <2>1, <2>2, <2>3, RowSteps
<1> QED
  BY <1>1, <1>2, TypeCorrect, Invariance, PTL DEF Spec, RowRefinement, ScanRows!Spec

-----------------------------------------------------------------------------
(* The audit trail.                                                        *)

\* A scan that has left PENDING has the status some audited transition gave
\* it, and one that is COMPLETED is so on an operator's word or comes with
\* all the findings of an execution.
StatusIsAudited ==
    /\ status # "PENDING" => \E e \in audit : e.after = status
    /\ status = "COMPLETED" =>
          \E e \in audit : /\ e.after = "COMPLETED"
                           /\ e.by \in Dispatches => found[e.by] \subseteq findings

Outcome == status # "PENDING" => \E e \in audit : e.after = status

LEMMA OutcomeStep ==
    ASSUME TypeOK, Outcome, [Next]_vars
    PROVE  Outcome'
<1>1. CASE UNCHANGED <<status, completedAt, findings, audit>>
  BY <1>1 DEF Outcome
<1>2. ASSUME NEW a \in Actors, NEW s \in PatchKinds, CommitTransition(a, s)
      PROVE  Outcome'
  <2> DEFINE event == [by |-> a, before |-> seen[a][s], after |-> s]
  <2>1. event \in audit' /\ event.after = s /\ status' = s
    BY <1>2 DEF CommitTransition
  <2> QED BY <2>1 DEF Outcome
<1>3. ASSUME NEW a \in Actors, CommitIngest(a)
      PROVE  Outcome'
  BY <1>3 DEF CommitIngest, Outcome
<1> QED BY <1>1, <1>2, <1>3, RowSteps

\* A reader who finds the scan COMPLETED finds the findings behind it, and an
\* auditor the transition (transitionScanStatus, execute_manifest).
THEOREM StatusIsAuditedHolds == Spec => []StatusIsAudited
<1>1. Init => Outcome
  BY DEF Init, Outcome
<1>2. TypeOK /\ Outcome /\ [Next]_vars => Outcome'
  BY OutcomeStep
<1>3. CompletedHasFindings /\ Outcome => StatusIsAudited
  BY DEF CompletedHasFindings, Outcome, StatusIsAudited
<1> QED BY <1>1, <1>2, <1>3, TypeCorrect, CompletedHasFindingsHolds, PTL DEF Spec

-----------------------------------------------------------------------------
(* Transitions one at a time.                                              *)

\* At most one transaction is between its read and its write of the status.
OneTransition ==
    \A a, b \in Actors, s, t \in PatchKinds :
        req[a][s] = "open" /\ req[b][t] = "open" => a = b /\ s = t

\* A status moves along VALID_TRANSITIONS only, so that a final one stays,
\* and the audited event of a move names the status it left and the one it set.
MovesAsListed ==
    [][/\ status' # status => status' \in VALID_TRANSITIONS[status]
       /\ \A e \in audit' \ audit : e.before = status /\ e.after = status']_vars

\* What an open transition has read is still so.
SeenHolds ==
    \A a \in Actors, s \in PatchKinds : req[a][s] = "open" => seen[a][s] = status

\* The four steps with which an execution sends its requests.
Sends(d, k) ==
    \/ Accept(d) /\ k = "RUNNING"
    \/ Post(d) /\ k = "FINDINGS"
    \/ Posted(d) /\ k = "COMPLETED"
    \/ WriteBackFailure(d) /\ k = "FAILED"

\* What a step makes of one request.
ReqStep(b, k) ==
    \/ req'[b][k] = req[b][k] /\ seen'[b][k] = seen[b][k]
    \/ req'[b][k] \in {"none", "lost", "done", "error"}
    \/ k \in PatchKinds /\ OpenTransition(b, k)
    \/ req[b][k] = "sent" /\ k = "FINDINGS" /\ req'[b][k] = "open"
    \/ b \in Dispatches /\ Sends(b, k) /\ req'[b][k] = "sent"
    \/ b \in Operators /\ req'[b][k] = "sent"

LEMMA ReqSteps ==
    ASSUME TypeOK, [Next]_vars, NEW b \in Actors, NEW k \in Kinds
    PROVE  ReqStep(b, k)
<1>1. ASSUME NEW a \in Actors, NEW j \in Kinds, NEW s \in {"done", "error"}, Answer(a, j, s)
      PROVE  ReqStep(b, k)
  BY <1>1, AnswerReq DEF ReqStep
<1>2. ASSUME NEW a \in Actors, NEW s \in PatchKinds, HandlePatch(a, s)
      PROVE  ReqStep(b, k)
  <2>1. CASE OpenTransition(a, s)
    <3>1. CASE a = b /\ s = k
      BY <2>1, <3>1 DEF ReqStep
    <3>2. CASE ~ (a = b /\ s = k)
      <4>1. req'[b][k] = req[b][k]
        BY <2>1, <3>2, SetReq, KindFacts DEF OpenTransition
      <4>2. seen'[b][k] = seen[b][k]
        BY <2>1, <3>2 DEF OpenTransition, TypeOK
      <4> QED BY <4>1, <4>2 DEF ReqStep
    <3> QED BY <3>1, <3>2
  <2>2. CASE RejectTransition(a, s) \/ CommitTransition(a, s)
    BY <2>2, <1>1, KindFacts DEF RejectTransition, CommitTransition
  <2> QED BY <1>2, <2>1, <2>2 DEF HandlePatch
<1>3. ASSUME NEW a \in Actors, HandlePost(a)
      PROVE  ReqStep(b, k)
  <2>1. CASE OpenIngest(a)
    BY <2>1, SetReq, KindFacts DEF OpenIngest, ReqStep
  <2>2. CASE RejectIngest(a) \/ CommitIngest(a) \/ ConflictIngest(a)
    BY <2>2, <1>1, KindFacts DEF RejectIngest, CommitIngest, ConflictIngest
  <2> QED BY <1>3, <2>1, <2>2 DEF HandlePost
<1>4. ASSUME NEW a \in Actors, NEW j \in Kinds, Abort(a, j)
      PROVE  ReqStep(b, k)
  BY <1>4, <1>1 DEF Abort
<1>5. ASSUME NEW d \in Dispatches, NEW j \in Kinds, Lose(d, j)
      PROVE  ReqStep(b, k)
  BY <1>5, SetReq, DispatchFacts DEF Lose, ReqStep
<1>6. ASSUME NEW d \in Dispatches, NEW j \in Kinds, Sends(d, j), Set(d, j, "sent"),
             UNCHANGED seen
      PROVE  ReqStep(b, k)
  BY <1>6, SetReq, DispatchFacts DEF ReqStep
<1>7. ASSUME UNCHANGED requestVars
      PROVE  ReqStep(b, k)
  BY <1>7 DEF requestVars, ReqStep
<1>8. ASSUME NEW d \in Dispatches, Execute(d)
      PROVE  ReqStep(b, k)
  <2>1. CASE Accept(d)
    BY <2>1, <1>6, KindFacts DEF Accept, Sends
  <2>2. CASE Post(d)
    BY <2>2, <1>6, KindFacts DEF Post, Sends
  <2>3. CASE Posted(d)
    BY <2>3, <1>6, KindFacts DEF Posted, Sends
  <2>4. CASE WriteBackFailure(d)
    BY <2>4, <1>6, KindFacts DEF WriteBackFailure, Sends
  <2>5. CASE \/ RefuseDispatch(d) \/ Started(d) \/ Completed(d) \/ GiveUp(d)
             \/ \E u \in Targets : Probe(d, u)
    BY <2>5, <1>7 DEF RefuseDispatch, Started, Completed, GiveUp, Probe
  <2> QED BY <1>8, <2>1, <2>2, <2>3, <2>4, <2>5 DEF Execute
<1>9. ASSUME NEW d \in Dispatches, Dispatch(d) \/ Expire(d) \/ Crash(d)
      PROVE  ReqStep(b, k)
  BY <1>9, <1>7 DEF Dispatch, Expire, Crash
<1>10. ASSUME NEW o \in Operators, NEW j \in Kinds, Set(o, j, "sent"), UNCHANGED seen
       PROVE  ReqStep(b, k)
  BY <1>10, SetReq DEF ReqStep, Actors
<1>11. ASSUME NEW o \in Operators, NEW s \in PatchKinds, OperatorPatch(o, s)
       PROVE  ReqStep(b, k)
  BY <1>11, <1>10, KindFacts DEF OperatorPatch
<1>12. ASSUME NEW o \in Operators, NEW F \in SUBSET Rows, OperatorPost(o, F)
       PROVE  ReqStep(b, k)
  BY <1>12, <1>10, KindFacts DEF OperatorPost
<1>13. CASE UNCHANGED vars
  BY <1>13, <1>7 DEF vars
<1> QED
  BY <1>2, <1>3, <1>4, <1>5, <1>8, <1>9, <1>11, <1>12, <1>13 DEF Next

\* A transition that is open after a step was so before, or the step opens it.
LEMMA OpenSteps ==
    ASSUME TypeOK, [Next]_vars, NEW b \in Actors, NEW t \in PatchKinds, req'[b][t] = "open"
    PROVE  \/ req[b][t] = "open" /\ seen'[b][t] = seen[b][t]
           \/ OpenTransition(b, t)
<1>1. ReqStep(b, t)
  BY ReqSteps, KindFacts
<1> QED BY <1>1, KindFacts DEF ReqStep

LEMMA SeenStep ==
    ASSUME TypeOK, OneTransition, SeenHolds, [Next]_vars
    PROVE  SeenHolds'
<1> SUFFICES ASSUME NEW b \in Actors, NEW t \in PatchKinds, req'[b][t] = "open"
             PROVE  seen'[b][t] = status'
  BY DEF SeenHolds
<1>1. CASE OpenTransition(b, t)
  BY <1>1, KindFacts DEF OpenTransition, portalVars, TypeOK
<1>2. CASE req[b][t] = "open" /\ seen'[b][t] = seen[b][t]
  <2>1. seen[b][t] = status
    BY <1>2 DEF SeenHolds
  <2>2. ASSUME NEW a \in Actors, NEW s \in PatchKinds, CommitTransition(a, s)
        PROVE  FALSE
    <3>1. a = b /\ s = t
      BY <2>2, <1>2 DEF CommitTransition, OneTransition
    <3>2. req'[b][t] # "open"
      BY <2>2, <3>1, AnswerReq, KindFacts DEF CommitTransition
    <3> QED BY <3>2
  <2>3. UNCHANGED status
    BY <2>2, RowSteps DEF CommitIngest
  <2> QED BY <1>2, <2>1, <2>3
<1> QED BY <1>1, <1>2, OpenSteps

\* The guard of transitionScanStatus does what its table says while its
\* transactions do not overlap; what ScanRow allows beyond it takes an overlap.
THEOREM MovesAsListedHolds == Spec /\ []OneTransition => MovesAsListed
<1>1. Init => SeenHolds
  BY KindFacts DEF Init, SeenHolds
<1>2. TypeOK /\ OneTransition /\ SeenHolds /\ [Next]_vars => SeenHolds'
  BY SeenStep
<1>3. TypeOK /\ Inv /\ SeenHolds /\ [Next]_vars
        => [/\ status' # status => status' \in VALID_TRANSITIONS[status]
            /\ \A e \in audit' \ audit : e.before = status /\ e.after = status']_vars
  <2> SUFFICES ASSUME TypeOK, Inv, SeenHolds, [Next]_vars
               PROVE  /\ status' # status => status' \in VALID_TRANSITIONS[status]
                      /\ \A e \in audit' \ audit : e.before = status /\ e.after = status'
    OBVIOUS
  <2>1. CASE UNCHANGED <<status, completedAt, findings, audit>>
    BY <2>1
  <2>2. ASSUME NEW a \in Actors, NEW s \in PatchKinds, CommitTransition(a, s)
        PROVE  /\ status' # status => status' \in VALID_TRANSITIONS[status]
               /\ \A e \in audit' \ audit : e.before = status /\ e.after = status'
    <3>1. seen[a][s] = status /\ s \in VALID_TRANSITIONS[status]
      BY <2>2 DEF CommitTransition, SeenHolds, Inv, OpenInv
    <3>2. status' = s /\ audit' = audit \cup {[by |-> a, before |-> status, after |-> s]}
      BY <2>2, <3>1 DEF CommitTransition
    <3> QED BY <3>1, <3>2
  <2>3. ASSUME NEW a \in Actors, CommitIngest(a)
        PROVE  UNCHANGED <<status, audit>>
    BY <2>3 DEF CommitIngest
  <2> QED BY <2>1, <2>2, <2>3, RowSteps
<1> QED BY <1>1, <1>2, <1>3, TypeCorrect, Invariance, PTL DEF Spec, MovesAsListed

-----------------------------------------------------------------------------
(* When they come one at a time.                                           *)

\* The scan is dispatched once, no user sends its requests by hand, and no
\* request or reply is lost or late.
Serial ==
    /\ \A d, e \in Dispatches : d = e
    /\ Operators = {}
    /\ "loss" \notin Faults

\* An execution has one request underway at a time.
OneRequest ==
    \A d \in Dispatches, j, k \in Kinds :
        req[d][j] \in {"sent", "open"} /\ req[d][k] \in {"sent", "open"} => j = k

\* An execution that gets every reply sends nothing before the last one: the
\* next request finds all others answered or not yet sent.
LEMMA SendOneRequest ==
    ASSUME TypeOK, Inv, Serial, NEW d \in Dispatches, NEW k \in Kinds, NEW j \in Kinds,
           Sends(d, k), j # k
    PROVE  req[d][j] \in {"none", "done", "error"}
<1> USE DEF BeforeStart, BeforePost, BeforeComplete, Sends
<1>0. j \in {"RUNNING", "FINDINGS", "COMPLETED", "FAILED"}
  BY DEF Kinds, PatchKinds, Statuses
<1>1. CASE Accept(d) /\ k = "RUNNING"
  BY <1>0, <1>1 DEF Accept, Goto, Inv, OrderInv
<1>2. CASE Post(d) /\ k = "FINDINGS"
  BY <1>0, <1>2 DEF Post, Goto, Inv, OrderInv
<1>3. CASE Posted(d) /\ k = "COMPLETED"
  BY <1>0, <1>3 DEF Posted, Goto, Inv, OrderInv
<1>4. CASE WriteBackFailure(d) /\ k = "FAILED"
  <2>1. CASE pc[d] = "starting" /\ req[d]["RUNNING"] = "error"
    BY <1>0, <1>4, <2>1 DEF Inv, OrderInv
  <2>2. CASE pc[d] = "scanning"
    BY <1>0, <1>4, <2>2 DEF Inv, OrderInv
  <2>3. CASE pc[d] = "posting" /\ req[d]["FINDINGS"] = "error"
    BY <1>0, <1>4, <2>3 DEF Inv, OrderInv
  <2>4. CASE pc[d] = "completing" /\ req[d]["COMPLETED"] = "error"
    BY <1>0, <1>4, <2>4 DEF Inv, OrderInv
  <2> QED BY <1>4, <2>1, <2>2, <2>3, <2>4 DEF WriteBackFailure, Raises, Failed, Serial
<1> QED BY <1>1, <1>2, <1>3, <1>4 DEF Sends

LEMMA OneRequestStep ==
    ASSUME TypeOK, Inv, Serial, OneRequest, [Next]_vars
    PROVE  OneRequest'
<1> DEFINE Underway == {"sent", "open"}
<1>1. ASSUME NEW d \in Dispatches, NEW k \in Kinds, req'[d][k] \in Underway
      PROVE  req[d][k] \in Underway \/ Sends(d, k)
  <2>1. ReqStep(d, k)
    BY ReqSteps, DispatchFacts
  <2> QED BY <1>1, <2>1, DispatchFacts DEF ReqStep, OpenTransition
<1>2. ASSUME NEW d \in Dispatches, NEW j \in Kinds, NEW k \in Kinds, Sends(d, k), j # k
      PROVE  req'[d][j] \notin Underway
  <2>1. req[d][j] \notin Underway
    BY <1>2, SendOneRequest
  <2>2. ~ Sends(d, j)
    <3>1. /\ Accept(d) => pc[d] = "issued"
          /\ Post(d) => pc[d] = "scanning" /\ pc'[d] = "posting"
          /\ Posted(d) => pc[d] = "posting" /\ pc'[d] = "completing"
          /\ WriteBackFailure(d) => pc[d] # "issued" /\ pc'[d] = "failing"
      BY DEF Accept, Post, Posted, WriteBackFailure, Goto, Raises, TypeOK
    <3> QED BY <1>2, <3>1 DEF Sends
  <2> QED BY <2>1, <2>2, <1>1
<1>3. ASSUME NEW d \in Dispatches, NEW j \in Kinds, NEW k \in Kinds,
             req'[d][j] \in Underway, req'[d][k] \in Underway
      PROVE  j = k
  BY <1>1, <1>2, <1>3 DEF OneRequest
<1> QED BY <1>3 DEF OneRequest

\* Dispatched once and with every reply delivered, a scan moves along the table
\* of transitionScanStatus and keeps its final status, whatever expires, is
\* rolled back, cannot be probed or crashes: only a second dispatch, a user's
\* own request or one its sender has given up on can reopen it.
THEOREM SerialMovesAsListed == Serial => (Spec => MovesAsListed)
<1> SUFFICES ASSUME Serial PROVE Spec => MovesAsListed
  OBVIOUS
<1>1. Init => OneRequest
  BY DispatchFacts DEF Init, OneRequest
<1>2. TypeOK /\ Inv /\ OneRequest /\ [Next]_vars => OneRequest'
  BY OneRequestStep
<1>3. OneRequest => OneTransition
  BY KindFacts DEF OneRequest, OneTransition, Serial, Actors
<1> QED BY <1>1, <1>2, <1>3, TypeCorrect, Invariance, MovesAsListedHolds, PTL DEF Spec
=============================================================================
