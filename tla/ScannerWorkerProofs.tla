------------------------- MODULE ScannerWorkerProofs -------------------------
(***************************************************************************)
(* Proofs about ScannerWorker, for any targets and any number of           *)
(* deliveries of each message, with either broker.                         *)
(***************************************************************************)
EXTENDS ScannerWorker, TLAPS

\* The statuses, results and phases keep their types in every run.
THEOREM WorkerTypeCorrect == Spec => []TypeOK
<1>1. Init => TypeOK
  BY DEF Init, TypeOK, ScanStatus, TargetStatus, Results, PCs
<1>2. TypeOK /\ [Next]_vars => TypeOK'
  <2> SUFFICES ASSUME TypeOK, [Next]_vars PROVE TypeOK'
    OBVIOUS
  <2> USE DEF TypeOK, rows, tasks, ScanStatus, PCs, Live
  <2>1. CASE Enqueue
    <3>1. ASSUME NEW t \in Targets, Publish(t)
          PROVE  TypeOK'
      BY <3>1 DEF Publish, Deliver
    <3>2. CASE CreateScan \/ CreateTargets \/ MarkEnqueued
      BY <3>2 DEF CreateScan, CreateTargets, MarkEnqueued, TargetStatus
    <3> QED BY <2>1, <3>1, <3>2 DEF Enqueue
  <2>2. CASE ApiError
    BY <2>2 DEF ApiError
  <2>3. ASSUME NEW e \in Executions, Work(e)
        PROVE  TypeOK'
    <3>1. e[1] \in Targets
      BY WorkerAssumption
    <3>2. CASE LoadScan(e) \/ MarkRunning(e) \/ Probe(e) \/ Unavailable(e) \/ StoreFindings(e)
      <4>1. CASE LoadScan(e)
        BY <4>1 DEF LoadScan, Goto, Load
      <4>2. CASE MarkRunning(e)
        BY <4>2 DEF MarkRunning, Goto, Commit
      <4>3. CASE Probe(e) \/ Unavailable(e)
        BY <4>3 DEF Probe, Unavailable, Goto
      <4>4. CASE StoreFindings(e)
        BY <4>4 DEF StoreFindings, Goto
      <4> QED BY <3>2, <4>1, <4>2, <4>3, <4>4
    <3>3. CASE LoadTarget(e)
      BY <3>1, <3>3 DEF LoadTarget, Load
    <3>4. CASE MarkTarget(e)
      <4>1. /\ NewStatus[pc[e]] \in TargetStatus
            /\ Following[pc[e]] \in PCs
        BY <3>4 DEF MarkTarget, NewStatus, Following, TargetStatus
      <4> QED BY <3>1, <3>4, <4>1 DEF MarkTarget, Commit
    <3>5. CASE LoadRollup(e) \/ CheckTargets(e) \/ Collect(e)
      <4>1. Verdict \in Results /\ rollup[e].old \in Results /\ overall \in Results
        BY DEF Verdict, Results
      <4>2. rollup' \in [Executions -> [old : Results, new : Results \cup {"due"}]]
        <5>1. CASE LoadRollup(e)
          BY <4>1, <5>1 DEF LoadRollup, Results
        <5>2. CASE CheckTargets(e) \/ Collect(e)
          BY <4>1, <5>2 DEF CheckTargets, Collect
        <5> QED BY <3>5, <5>1, <5>2
      <4> QED BY <3>5, <4>2 DEF LoadRollup, CheckTargets, Collect, Load
    <3>6. CASE NotYet(e) \/ Finalize(e)
      <4>1. EndTask(e)
        BY <3>6 DEF NotYet, Finalize
      <4>2. pc' \in [Executions -> PCs]
        BY <4>1 DEF EndTask
      <4>3. loaded' \in [Executions -> ScanStatus \cup TargetStatus \cup {"none"}]
        BY <4>1 DEF EndTask, Commit
      <4>4. rollup' \in [Executions -> [old : Results, new : Results \cup {"due"}]]
        BY <4>1 DEF EndTask, NoRollup, Results
      <4>5. Finalize(e) => rollup[e].new \in Results
        BY DEF Finalize, Results
      <4> QED BY <3>6, <4>2, <4>3, <4>4, <4>5 DEF NotYet, Finalize
    <3> QED BY <2>3, <3>2, <3>3, <3>4, <3>5, <3>6 DEF Work
  <2>4. ASSUME NEW e \in Executions, Raise(e) \/ Crash(e) \/ Redeliver(e) \/ Kill(e)
        PROVE  TypeOK'
    <3>1. CASE Raise(e) \/ Kill(e)
      <4>1. PICK p \in {"failing", "raised", "killed"} : Abandon(e, p)
        BY <3>1 DEF Raise, Kill
      <4>2. rollup' \in [Executions -> [old : Results, new : Results \cup {"due"}]]
        BY <4>1 DEF Abandon, NoRollup, Results
      <4> QED BY <4>1, <4>2 DEF Abandon
    <3>2. CASE Crash(e)
      BY <3>2 DEF Crash, NoRollup, Results
    <3>3. CASE Redeliver(e)
      BY <3>3 DEF Redeliver, Deliver
    <3> QED BY <2>4, <3>1, <3>2, <3>3
  <2>5. CASE UNCHANGED vars
    BY <2>5 DEF vars
  <2> QED BY <2>1, <2>2, <2>3, <2>4, <2>5 DEF Next
<1> QED BY <1>1, <1>2, PTL DEF Spec

-----------------------------------------------------------------------------
(* While the scan has no result and its targets are all terminal, an       *)
(* execution is still live: each one checks the targets after its own      *)
(* commit, so the last of them sees what all the others have committed.    *)

SomeoneChecks ==
    AllTerminal /\ overall = "null" => \E e \in Executions : pc[e] \in Live

\* A finalizer that loaded a result does not lose it.
ResultKept == \A e \in Executions : rollup[e].old # "null" => overall # "null"

WorkerInv == SomeoneChecks /\ ResultKept

\* A step after which some execution is live, and which gives no result back.
LEMMA LiveStep ==
    ASSUME TypeOK, WorkerInv, NEW e \in Executions, pc'[e] \in Live,
           overall' = overall,
           \A f \in Executions : rollup'[f].old \in {"null", overall, rollup[f].old}
    PROVE  WorkerInv'
  BY DEF WorkerInv, SomeoneChecks, ResultKept

LEMMA WorkerStep ==
    ASSUME Faults \cap {"db", "kill"} = {}, TypeOK, WorkerInv, [Next]_vars
    PROVE  WorkerInv'
<1> USE DEF rows, tasks
<1>1. CASE ApiError \/ UNCHANGED vars
  BY <1>1 DEF ApiError, vars, WorkerInv, SomeoneChecks, ResultKept, AllTerminal
<1>2. CASE CreateScan \/ MarkEnqueued
  BY <1>2 DEF CreateScan, MarkEnqueued, WorkerInv, SomeoneChecks, ResultKept, AllTerminal
<1>3. CASE CreateTargets
  <2>1. ~ AllTerminal'
    BY <1>3, WorkerAssumption DEF CreateTargets, AllTerminal, TerminalStatuses
  <2> QED BY <1>3, <2>1 DEF CreateTargets, WorkerInv, SomeoneChecks, ResultKept
<1>4. ASSUME NEW t \in Targets, Publish(t)
      PROVE  WorkerInv'
  <2> PICK e \in Executions : pc' = [pc EXCEPT ![e] = "queued"]
    BY <1>4 DEF Publish, Deliver
  <2>1. pc'[e] \in Live
    BY DEF TypeOK, Live
  <2> QED BY <1>4, <2>1, LiveStep DEF Publish
<1>5. ASSUME NEW e \in Executions,
             \/ LoadScan(e) \/ MarkRunning(e) \/ LoadTarget(e) \/ MarkTarget(e)
             \/ Probe(e) \/ Unavailable(e) \/ StoreFindings(e)
      PROVE  WorkerInv'
  <2>1. /\ pc'[e] \in Live
        /\ overall' = overall /\ rollup' = rollup
    BY <1>5 DEF LoadScan, MarkRunning, LoadTarget, MarkTarget, Probe, Unavailable,
                StoreFindings, Goto, NewStatus, Following, TypeOK, Live
  <2> QED BY <2>1, LiveStep
<1>6. ASSUME NEW e \in Executions, LoadRollup(e) \/ CheckTargets(e) \/ Collect(e)
      PROVE  WorkerInv'
  <2>1. /\ pc'[e] \in Live
        /\ overall' = overall
        /\ \A f \in Executions : rollup'[f].old \in {overall, rollup[f].old}
    BY <1>6 DEF LoadRollup, CheckTargets, Collect, Rolling, TypeOK, Live
  <2> QED BY <2>1, LiveStep
<1>7. ASSUME NEW e \in Executions, NotYet(e)
      PROVE  WorkerInv'
  <2>1. ~ AllTerminal'
    BY <1>7 DEF NotYet, AllTerminal
  <2>2. overall' = overall /\ \A f \in Executions : rollup'[f].old \in {"null", rollup[f].old}
    BY <1>7 DEF NotYet, EndTask, NoRollup, TypeOK
  <2> QED BY <2>1, <2>2 DEF WorkerInv, SomeoneChecks, ResultKept
<1>8. ASSUME NEW e \in Executions, Finalize(e)
      PROVE  WorkerInv'
  <2>1. /\ rollup[e].new \in {"PASS", "FAIL"}
        /\ overall' = IF rollup[e].new # rollup[e].old THEN rollup[e].new ELSE overall
    BY <1>8 DEF Finalize
  <2>2. overall' # "null"
    BY <2>1 DEF WorkerInv, ResultKept
  <2> QED BY <2>2 DEF WorkerInv, SomeoneChecks, ResultKept
<1>9. ASSUME NEW e \in Executions, Raise(e)
      PROVE  WorkerInv'
  <2>1. /\ pc' = [pc EXCEPT ![e] = "failing"]
        /\ overall' = overall
        /\ rollup' = [rollup EXCEPT ![e] = NoRollup]
    BY <1>9 DEF Raise, Abandon
  <2>2. \A f \in Executions : rollup'[f].old \in {"null", rollup[f].old}
    BY <2>1 DEF NoRollup, TypeOK
  <2>3. pc'[e] \in Live
    BY <2>1 DEF Live, TypeOK
  <2> QED BY <2>1, <2>2, <2>3, LiveStep
<1>10. ASSUME NEW e \in Executions, Crash(e)
       PROVE  WorkerInv'
  <2> PICK f \in Executions :
           pc[f] = "none" /\ pc' = [pc EXCEPT ![e] = "lost", ![f] = "queued"]
    BY <1>10 DEF Crash
  <2>1. pc'[f] \in Live
    BY DEF TypeOK, Live
  <2>2. overall' = overall /\ \A g \in Executions : rollup'[g].old \in {"null", rollup[g].old}
    BY <1>10 DEF Crash, NoRollup, TypeOK
  <2> QED BY <2>1, <2>2, LiveStep
<1>11. ASSUME NEW e \in Executions, Redeliver(e)
       PROVE  WorkerInv'
  <2> PICK f \in Executions : pc' = [pc EXCEPT ![f] = "queued"]
    BY <1>11 DEF Redeliver, Deliver
  <2>1. pc'[f] \in Live
    BY DEF TypeOK, Live
  <2> QED BY <1>11, <2>1, LiveStep DEF Redeliver
<1>12. \A e \in Executions : ~ Kill(e)
  BY DEF Kill
<1> QED
  BY <1>1, <1>2, <1>3, <1>4, <1>5, <1>6, <1>7, <1>8, <1>9, <1>10, <1>11, <1>12
     DEF Next, Enqueue, Work

\* The roll-up is never missed, however many targets end at the same time and
\* however often executions crash or are delivered twice, as long as no
\* database error ends a task early and no hard time limit kills it.
THEOREM FinalizedByLastHolds ==
    ASSUME Faults \cap {"db", "kill"} = {}
    PROVE  Spec => []FinalizedByLast
<1>1. Init => WorkerInv
  BY WorkerAssumption
     DEF Init, WorkerInv, SomeoneChecks, ResultKept, AllTerminal, TerminalStatuses
<1>2. TypeOK /\ WorkerInv /\ [Next]_vars => WorkerInv'
  BY WorkerStep
<1>3. WorkerInv => FinalizedByLast
  BY DEF WorkerInv, SomeoneChecks, FinalizedByLast, Quiescent
<1> QED BY <1>1, <1>2, <1>3, WorkerTypeCorrect, PTL DEF Spec

-----------------------------------------------------------------------------
(* Each message delivered once: a target that is terminal has been left by *)
(* its only execution, so the roll-up reads what will not change again.    *)

Past == {"checking", "cleanup", "failing", "done", "raised", "killed"}

OnceInv ==
    /\ api \in {"new", "scan"} => \A e \in Executions : pc[e] = "none"
    /\ \A e \in Executions : target[e[1]] \in TerminalStatuses => pc[e] \in Past

\* A computed result, and a stored one, are those of the stored findings.
VerdictInv ==
    /\ \A e \in Executions : rollup[e].new # "null" =>
          AllTerminal /\ rollup[e].new \in {"due", Verdict} /\ pc[e] \in Live
    /\ ResultKept
    /\ overall # "null" => AllTerminal /\ overall = Verdict
    /\ status = "completed" => overall # "null"

OnceOnly == \A e, f \in Executions : e[1] = f[1] => e = f

\* With one delivery, the executions of a target are the same.
LEMMA OneExecution ==
    ASSUME OnceOnly, NEW e \in Executions, NEW f \in Executions, e[1] = f[1]
    PROVE  e = f
  BY DEF OnceOnly

\* A terminal target stays so, and with it what its execution has stored.
LEMMA OnceStep ==
    ASSUME OnceOnly, TypeOK, OnceInv, [Next]_vars
    PROVE  /\ OnceInv'
           /\ AllTerminal => AllTerminal' /\ stored' = stored
<1> USE DEF rows, tasks
<1>1. CASE ApiError \/ UNCHANGED vars \/ MarkEnqueued
  BY <1>1 DEF ApiError, vars, MarkEnqueued, OnceInv, AllTerminal
<1>2. CASE CreateScan \/ CreateTargets
  <2>1. PICK t \in Targets : TRUE
    BY WorkerAssumption
  <2>2. ~ AllTerminal
    <3>1. PICK e \in Executions : e[1] = t /\ pc[e] = "none"
      BY <1>2, <2>1, WorkerAssumption DEF CreateScan, CreateTargets, OnceInv
    <3>2. pc[e] \notin Past
      BY <3>1 DEF Past
    <3> QED BY <2>1, <3>1, <3>2 DEF OnceInv, AllTerminal
  <2>3. OnceInv'
    BY <1>2, WorkerAssumption DEF CreateScan, CreateTargets, OnceInv, TerminalStatuses
  <2> QED BY <2>2, <2>3
<1>3. ASSUME NEW e \in Executions, NEW p \in PCs, pc' = [pc EXCEPT ![e] = p],
             UNCHANGED <<target, stored>>,
             api \notin {"new", "scan"}, api' = api,
             pc[e] \in Past => p \in Past
      PROVE  OnceInv' /\ (AllTerminal => AllTerminal' /\ stored' = stored)
  BY <1>3 DEF OnceInv, AllTerminal, TypeOK
<1>4. ASSUME NEW e \in Executions, pc[e] # "none"
      PROVE  api \notin {"new", "scan"}
  BY <1>4 DEF OnceInv
<1>5. ASSUME NEW t \in Targets, Publish(t)
      PROVE  OnceInv' /\ (AllTerminal => AllTerminal' /\ stored' = stored)
  <2> PICK e \in Executions : pc[e] = "none" /\ pc' = [pc EXCEPT ![e] = "queued"]
    BY <1>5 DEF Publish, Deliver
  <2> QED BY <1>3, <1>5 DEF Publish, PCs, Live, Past
<1>6. ASSUME NEW e \in Executions,
             LoadScan(e) \/ MarkRunning(e) \/ Probe(e) \/ Unavailable(e)
      PROVE  OnceInv' /\ (AllTerminal => AllTerminal' /\ stored' = stored)
  <2>1. PICK p \in Live : /\ pc[e] \in Live \ Past /\ pc' = [pc EXCEPT ![e] = p]
                          /\ UNCHANGED <<target, stored, api>>
    BY <1>6 DEF LoadScan, MarkRunning, Probe, Unavailable, Goto, Live, Past
  <2> QED BY <1>3, <1>4, <2>1 DEF PCs, Live
<1>7. ASSUME NEW e \in Executions,
             LoadTarget(e) \/ LoadRollup(e) \/ CheckTargets(e) \/ Collect(e)
      PROVE  OnceInv' /\ (AllTerminal => AllTerminal' /\ stored' = stored)
  BY <1>7 DEF LoadTarget, LoadRollup, CheckTargets, Collect, OnceInv, AllTerminal
<1>8. ASSUME NEW e \in Executions, StoreFindings(e)
      PROVE  OnceInv' /\ (AllTerminal => AllTerminal' /\ stored' = stored)
  <2>1. /\ pc[e] = "storing" /\ pc' = [pc EXCEPT ![e] = "completing"]
        /\ target' = target /\ api' = api
    BY <1>8 DEF StoreFindings, Goto
  <2>2. ~ AllTerminal
    BY <2>1, WorkerAssumption DEF OnceInv, AllTerminal, Past
  <2>3. OnceInv'
    BY <2>1 DEF OnceInv, Past, TypeOK
  <2> QED BY <2>2, <2>3
<1>9. ASSUME NEW e \in Executions, MarkTarget(e)
      PROVE  OnceInv' /\ (AllTerminal => AllTerminal' /\ stored' = stored)
  <2>1. /\ pc[e] \in {"marking", "completing", "failing"}
        /\ pc' = [pc EXCEPT ![e] = Following[pc[e]]]
        /\ target' \in {target, [target EXCEPT ![e[1]] = NewStatus[pc[e]]]}
        /\ stored' = stored /\ api' = api
    BY <1>9 DEF MarkTarget, NewStatus
  <2>2. \A f \in Executions : f # e => target'[f[1]] = target[f[1]] /\ pc'[f] = pc[f]
    BY <2>1, OneExecution, WorkerAssumption DEF TypeOK
  <2>3. CASE pc[e] = "marking"
    <3>1. target[e[1]] \notin TerminalStatuses
      BY <2>3 DEF OnceInv, Past
    <3>2. target'[e[1]] \notin TerminalStatuses
      BY <2>1, <2>3, <3>1, WorkerAssumption DEF NewStatus, TerminalStatuses, TypeOK
    <3>3. ~ AllTerminal
      BY <3>1, WorkerAssumption DEF AllTerminal
    <3> QED BY <1>4, <2>1, <2>2, <2>3, <3>2, <3>3 DEF OnceInv
  <2>4. CASE pc[e] # "marking"
    <3>1. pc'[e] \in Past
      BY <2>1, <2>4 DEF Following, Past, TypeOK
    <3>2. target'[e[1]] \in {target[e[1]], "completed", "failed"}
      BY <2>1, <2>4, WorkerAssumption DEF NewStatus, TypeOK
    <3>3. OnceInv'
      BY <1>4, <2>1, <2>2, <3>1 DEF OnceInv
    <3>4. AllTerminal => AllTerminal'
      <4> SUFFICES ASSUME AllTerminal, NEW t \in Targets PROVE target'[t] \in TerminalStatuses
        BY DEF AllTerminal
      <4>1. PICK f \in Executions : f[1] = t
        BY WorkerAssumption
      <4> QED BY <2>2, <3>2, <4>1 DEF AllTerminal, TerminalStatuses
    <3> QED BY <2>1, <3>3, <3>4
  <2> QED BY <2>3, <2>4
<1>10. ASSUME NEW e \in Executions, NotYet(e) \/ Finalize(e)
       PROVE  OnceInv' /\ (AllTerminal => AllTerminal' /\ stored' = stored)
  <2>1. PICK p \in {"done", "raised"} : pc' = [pc EXCEPT ![e] = p]
    BY <1>10 DEF NotYet, Finalize, EndTask
  <2>2. pc[e] # "none" /\ UNCHANGED <<target, stored, api>>
    BY <1>10 DEF NotYet, Finalize, Rolling
  <2> QED BY <1>3, <1>4, <2>1, <2>2 DEF PCs, Past
<1>11. ASSUME NEW e \in Executions, Raise(e) \/ Kill(e)
       PROVE  OnceInv' /\ (AllTerminal => AllTerminal' /\ stored' = stored)
  <2>1. PICK p \in {"failing", "raised", "killed"} : pc' = [pc EXCEPT ![e] = p]
    BY <1>11 DEF Raise, Kill, Abandon
  <2>2. pc[e] # "none" /\ UNCHANGED <<target, stored, api>>
    BY <1>11 DEF Raise, Kill, Abandon, Live
  <2> QED BY <1>3, <1>4, <2>1, <2>2 DEF PCs, Live, Past
<1>12. ASSUME NEW e \in Executions, Crash(e) \/ Redeliver(e)
       PROVE  FALSE
  <2>1. PICK f \in Executions : f[1] = e[1] /\ pc[f] = "none" /\ pc[e] \in Live
    BY <1>12 DEF Crash, Redeliver, Deliver
  <2> QED BY <2>1, OneExecution DEF Live
<1> QED
  BY <1>1, <1>2, <1>5, <1>6, <1>7, <1>8, <1>9, <1>10, <1>11, <1>12 DEF Next, Enqueue, Work

LEMMA VerdictStep ==
    ASSUME OnceOnly, TypeOK, OnceInv, VerdictInv, [Next]_vars
    PROVE  VerdictInv'
<1> USE DEF rows, tasks
<1>1. AllTerminal => AllTerminal' /\ Verdict' = Verdict
  BY OnceStep DEF Verdict
<1>2. ASSUME overall' = overall, status' = "completed" => status = "completed",
             \A e \in Executions :
                \/ rollup'[e] = NoRollup
                \/ rollup'[e] = rollup[e] /\ (pc[e] \in Live => pc'[e] \in Live)
      PROVE  VerdictInv'
  BY <1>1, <1>2 DEF VerdictInv, ResultKept, NoRollup
<1>3. CASE Enqueue \/ ApiError \/ UNCHANGED vars
  <2>1. \A e \in Executions : pc[e] \in Live => pc'[e] \in Live
    BY <1>3 DEF Enqueue, CreateScan, CreateTargets, Publish, Deliver, MarkEnqueued, ApiError,
                vars, TypeOK, Live
  <2>2. overall' = overall /\ rollup' = rollup /\ status' \in {status, "pending", "enqueued"}
    BY <1>3 DEF Enqueue, CreateScan, CreateTargets, Publish, MarkEnqueued, ApiError, vars
  <2> QED BY <1>2, <2>1, <2>2
<1>4. ASSUME NEW e \in Executions,
             \/ LoadScan(e) \/ MarkRunning(e) \/ LoadTarget(e) \/ MarkTarget(e)
             \/ Probe(e) \/ Unavailable(e) \/ StoreFindings(e)
      PROVE  VerdictInv'
  <2>1. \A f \in Executions : pc[f] \in Live => pc'[f] \in Live
    BY <1>4 DEF LoadScan, MarkRunning, LoadTarget, MarkTarget, Probe, Unavailable,
                StoreFindings, Goto, NewStatus, Following, TypeOK, Live
  <2>2. overall' = overall /\ rollup' = rollup /\ status' \in {status, "running"}
    BY <1>4 DEF LoadScan, MarkRunning, LoadTarget, MarkTarget, Probe, Unavailable, StoreFindings
  <2> QED BY <1>2, <2>1, <2>2
<1>5. ASSUME NEW e \in Executions, LoadRollup(e)
      PROVE  VerdictInv'
  <2>1. /\ UNCHANGED <<overall, status, pc>>
        /\ \A f \in Executions : rollup'[f] = IF f = e THEN [old |-> overall, new |-> "null"]
                                              ELSE rollup[f]
    BY <1>5 DEF LoadRollup, TypeOK
  <2> QED BY <1>1, <2>1 DEF VerdictInv, ResultKept
<1>6. ASSUME NEW e \in Executions, Collect(e)
      PROVE  VerdictInv'
  <2>1. UNCHANGED <<overall, status, pc>> /\ AllTerminal /\ pc[e] \in Live
    BY <1>6 DEF Collect, Rolling, Live, VerdictInv
  <2>2. rollup' = [rollup EXCEPT ![e] = [old |-> rollup[e].old, new |-> Verdict]]
    BY <1>6 DEF Collect
  <2>3. \A f \in Executions : rollup'[f] = IF f = e THEN [old |-> rollup[e].old, new |-> Verdict]
                                              ELSE rollup[f]
    BY <2>2 DEF TypeOK
  <2> QED BY <1>1, <2>1, <2>3 DEF VerdictInv, ResultKept
<1>11. ASSUME NEW e \in Executions, CheckTargets(e)
       PROVE  VerdictInv'
  <2>1. UNCHANGED <<overall, status, pc>> /\ AllTerminal /\ pc[e] \in Live
    BY <1>11 DEF CheckTargets, Rolling, Live
  <2>2. rollup' = [rollup EXCEPT ![e] = [old |-> rollup[e].old, new |-> "due"]]
    BY <1>11 DEF CheckTargets
  <2>3. \A f \in Executions : rollup'[f] = IF f = e THEN [old |-> rollup[e].old, new |-> "due"]
                                              ELSE rollup[f]
    BY <2>2 DEF TypeOK
  <2> QED BY <1>1, <2>1, <2>3 DEF VerdictInv, ResultKept
<1>7. ASSUME NEW e \in Executions, NotYet(e)
      PROVE  VerdictInv'
  <2>1. /\ UNCHANGED <<overall, status>>
        /\ \A f \in Executions : rollup'[f] = IF f = e THEN NoRollup ELSE rollup[f]
        /\ \A f \in Executions : f # e => pc'[f] = pc[f]
    BY <1>7 DEF NotYet, EndTask, TypeOK
  <2> QED BY <1>2, <2>1
<1>8. ASSUME NEW e \in Executions, Finalize(e)
      PROVE  VerdictInv'
  <2>1. /\ overall' = IF rollup[e].new # rollup[e].old THEN rollup[e].new ELSE overall
        /\ rollup[e].new \in {"PASS", "FAIL"}
        /\ \A f \in Executions : rollup'[f] = IF f = e THEN NoRollup ELSE rollup[f]
        /\ \A f \in Executions : f # e => pc'[f] = pc[f]
    BY <1>8 DEF Finalize, EndTask, TypeOK
  <2>2. AllTerminal /\ rollup[e].new = Verdict
    BY <2>1 DEF VerdictInv
  <2>3. overall' = Verdict /\ overall' # "null"
    BY <2>1, <2>2 DEF VerdictInv, ResultKept
  <2> QED BY <1>1, <2>1, <2>2, <2>3 DEF VerdictInv, ResultKept, NoRollup
<1>9. ASSUME NEW e \in Executions, Raise(e) \/ Kill(e)
      PROVE  VerdictInv'
  <2>1. /\ UNCHANGED <<overall, status>>
        /\ \A f \in Executions : rollup'[f] = IF f = e THEN NoRollup ELSE rollup[f]
        /\ \A f \in Executions : f # e => pc'[f] = pc[f]
    BY <1>9 DEF Raise, Kill, Abandon, TypeOK
  <2> QED BY <1>2, <2>1
<1>10. ASSUME NEW e \in Executions, Crash(e) \/ Redeliver(e)
       PROVE  FALSE
  <2>1. PICK f \in Executions : f[1] = e[1] /\ pc[f] = "none" /\ pc[e] \in Live
    BY <1>10 DEF Crash, Redeliver, Deliver
  <2> QED BY <2>1, OneExecution DEF Live
<1> QED
  BY <1>3, <1>4, <1>5, <1>6, <1>7, <1>8, <1>9, <1>10, <1>11 DEF Next, Work

LEMMA OnceHolds ==
    ASSUME OnceOnly
    PROVE  Spec => [](OnceInv /\ VerdictInv)
<1>1. Init => OnceInv /\ VerdictInv
  BY WorkerAssumption DEF Init, OnceInv, VerdictInv, ResultKept, TerminalStatuses
<1>2. TypeOK /\ OnceInv /\ VerdictInv /\ [Next]_vars => OnceInv' /\ VerdictInv'
  BY OnceStep, VerdictStep
<1> QED BY <1>1, <1>2, WorkerTypeCorrect, PTL DEF Spec

\* When no message is delivered twice, a completed scan shows the result its
\* stored findings call for, under every other failure and interleaving.
THEOREM ResultSoundHolds ==
    ASSUME OnceOnly
    PROVE  Spec => []ResultSound
<1>1. VerdictInv => ResultSound
  BY DEF VerdictInv, ResultSound
<1> QED BY <1>1, OnceHolds, PTL

\* When no message is delivered twice, nothing but the enqueue handler that
\* has not returned yet takes a scan out of "completed".
THEOREM FinalIsFinalHolds ==
    ASSUME OnceOnly
    PROVE  Spec => FinalIsFinal
<1>1. TypeOK /\ OnceInv /\ VerdictInv /\ [Next]_vars
        => [status = "completed" /\ api = "returned" => status' = "completed"]_status
  <2> SUFFICES ASSUME TypeOK, OnceInv, VerdictInv, [Next]_vars,
                      status = "completed", api = "returned"
               PROVE  status' = "completed"
    OBVIOUS
  <2>1. AllTerminal
    BY DEF VerdictInv
  <2>2. \A e \in Executions : ~ MarkRunning(e)
    BY <2>1, WorkerAssumption DEF OnceInv, AllTerminal, MarkRunning, Goto, Past
  <2>3. ~ CreateScan /\ ~ MarkEnqueued
    BY DEF CreateScan, MarkEnqueued
  <2>4. ASSUME NEW e \in Executions, Work(e)
        PROVE  status' = "completed"
    BY <2>2, <2>4 DEF Work, LoadScan, LoadTarget, MarkTarget, Probe, Unavailable, StoreFindings,
                      LoadRollup, CheckTargets, Collect, NotYet, Finalize, rows
  <2>5. ASSUME NEW e \in Executions, Raise(e) \/ Crash(e) \/ Redeliver(e) \/ Kill(e)
        PROVE  status' = "completed"
    BY <2>5 DEF Raise, Crash, Redeliver, Kill, Abandon, rows
  <2>6. CASE Enqueue \/ ApiError \/ UNCHANGED vars
    BY <2>3, <2>6 DEF Enqueue, CreateTargets, Publish, ApiError, vars, rows
  <2> QED BY <2>4, <2>5, <2>6 DEF Next
<1> QED BY <1>1, OnceHolds, WorkerTypeCorrect, PTL DEF Spec, FinalIsFinal
=============================================================================
