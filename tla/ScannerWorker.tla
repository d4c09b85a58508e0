---------------------------- MODULE ScannerWorker ----------------------------
(***************************************************************************)
(* One scan of the scanner service: the API handler that creates it and    *)
(* publishes a task per target, the task executions that scan the targets, *)
(* and the roll-up that finalizes the scan when the last target is done.   *)
(*                                                                         *)
(* Every helper (_update_scan_status, _update_target_status,               *)
(* _check_and_finalize_scan) is a transaction of its own: it loads a row,  *)
(* sets attributes and commits.  SQLAlchemy writes an attribute only when  *)
(* it differs from the value loaded, and writes it whatever the row holds  *)
(* by then.  Celery acknowledges late, so the message of an execution that *)
(* is lost, or that outlives the broker's visibility timeout, is delivered *)
(* again: one target may have several executions, also at the same time.   *)
(***************************************************************************)
EXTENDS Naturals, FiniteSets

CONSTANTS Targets,      \* the targets of the scan
          Executions,   \* the deliveries of the messages: <<target, n>>
          Broker,       \* "celery", or "background" without a broker
          Faults        \* the kinds of failure the environment may exhibit

FaultKinds == {"probe",      \* connecting, probing or scoring raises
               "db",         \* a transaction or the evidence store raises
               "crash",      \* a worker process is lost
               "redeliver",  \* the visibility timeout of the broker passes
               "kill",       \* the hard time limit of a task passes
               "publish"}    \* the API handler fails after a commit

ASSUME WorkerAssumption ==
    /\ Targets # {}
    /\ \A e \in Executions : e[1] \in Targets
    /\ \A t \in Targets : \E e \in Executions : e[1] = t
    /\ Broker \in {"celery", "background"}
    /\ Faults \subseteq FaultKinds

VARIABLES api,      \* where the handler enqueue_scan stands
          status,   \* Scan.status
          overall,  \* Scan.overall_result
          target,   \* Target.status of each target
          stored,   \* the batch of Finding rows each execution stored
          pc,       \* where each execution stands
          loaded,   \* the status its open transaction loaded, or "none"
          rollup    \* overall_result as loaded and as computed by a finalizer

rows == <<status, overall, target, stored>>
tasks == <<pc, loaded, rollup>>
vars == <<api, rows, tasks>>

-----------------------------------------------------------------------------
ScanStatus == {"absent", "pending", "enqueued", "running", "completed"}
TargetStatus == {"absent", "pending", "running", "completed", "failed"}
TerminalStatuses == {"completed", "failed"}
Results == {"null", "PASS", "FAIL"}

\* "checking" and "cleanup" are the roll-up after a success and a failure.
Live == {"queued", "starting", "marking", "probing", "storing", "completing",
         "failing", "checking", "cleanup"}
PCs == Live \cup {"none", "done", "raised", "lost", "killed"}

TypeOK ==
    /\ api \in {"new", "scan", "dispatching", "returned", "error"}
    /\ status \in ScanStatus
    /\ overall \in Results
    /\ target \in [Targets -> TargetStatus]
    /\ stored \in [Executions -> {"none", "pass", "fail"}]
    /\ pc \in [Executions -> PCs]
    /\ loaded \in [Executions -> ScanStatus \cup TargetStatus \cup {"none"}]
    /\ rollup \in [Executions -> [old : Results, new : Results \cup {"due"}]]

Init ==
    /\ api = "new"
    /\ status = "absent"
    /\ overall = "null"
    /\ target = [t \in Targets |-> "absent"]
    /\ stored = [e \in Executions |-> "none"]
    /\ pc = [e \in Executions |-> "none"]
    /\ loaded = [e \in Executions |-> "none"]
    /\ rollup = [e \in Executions |-> [old |-> "null", new |-> "null"]]

-----------------------------------------------------------------------------
(* The API handler enqueue_scan.                                           *)

CreateScan ==
    /\ api = "new"
    /\ api' = "scan"
    /\ status' = "pending"
    /\ UNCHANGED <<overall, target, stored, tasks>>

CreateTargets ==
    /\ api = "scan"
    /\ api' = "dispatching"
    /\ target' = [t \in Targets |-> "pending"]
    /\ UNCHANGED <<status, overall, stored, tasks>>

\* A delivery of t's message that has not been used becomes available.
Deliver(t) == \E e \in Executions :
    /\ e[1] = t
    /\ pc[e] = "none"
    /\ pc' = [pc EXCEPT ![e] = "queued"]

Published(t) == \E e \in Executions : e[1] = t /\ pc[e] # "none"

Publish(t) ==
    /\ api = "dispatching"
    /\ ~ Published(t)
    /\ Deliver(t)
    /\ UNCHANGED <<api, rows, loaded, rollup>>

\* The handler loaded the scan before the first task was published: to its
\* session the row is still "pending", and the write always happens.
MarkEnqueued ==
    /\ api = "dispatching"
    /\ \A t \in Targets : Published(t)
    /\ api' = "returned"
    /\ status' = "enqueued"
    /\ UNCHANGED <<overall, target, stored, tasks>>

ApiError ==
    /\ "publish" \in Faults
    /\ api \in {"scan", "dispatching"}
    /\ api' = "error"
    /\ UNCHANGED <<rows, tasks>>

-----------------------------------------------------------------------------
(* An execution of run_ssh_auth_scan, run_winrm_auth_scan or               *)
(* run_blackbox_scan.                                                      *)

\* Celery workers run executions side by side.  BackgroundTasks run one after
\* the other once the response is sent, and the first to raise ends the rest.
Runnable(e) ==
    Broker = "background" =>
        /\ api = "returned"
        /\ \A f \in Executions \ {e} : pc[f] \in {"none", "queued", "done"}

Goto(e, from, to) == pc[e] = from /\ pc' = [pc EXCEPT ![e] = to]
Load(e, s) == loaded[e] = "none" /\ loaded' = [loaded EXCEPT ![e] = s]
Commit(e) == loaded[e] # "none" /\ loaded' = [loaded EXCEPT ![e] = "none"]

LoadScan(e) ==
    /\ Goto(e, "queued", "starting")
    /\ Runnable(e)
    /\ Load(e, status)
    /\ UNCHANGED <<api, rows, rollup>>

MarkRunning(e) ==
    /\ Goto(e, "starting", "marking")
    /\ Commit(e)
    /\ status' = IF loaded[e] # "running" THEN "running" ELSE status
    /\ UNCHANGED <<api, overall, target, stored, rollup>>

\* The three calls of _update_target_status: what each sets, and what follows.
NewStatus == [marking |-> "running", completing |-> "completed", failing |-> "failed"]

\* Mutant: a failed target does not look whether it was the last one.
FollowingUnchecked == [marking |-> "probing", completing |-> "checking", failing |-> "raised"]

Following == [marking |-> "probing", completing |-> "checking", failing |-> "cleanup"]

LoadTarget(e) ==
    /\ pc[e] \in DOMAIN NewStatus
    /\ Load(e, target[e[1]])
    /\ UNCHANGED <<api, rows, pc, rollup>>

MarkTarget(e) ==
    /\ pc[e] \in DOMAIN NewStatus
    /\ Commit(e)
    /\ target' = IF loaded[e] # NewStatus[pc[e]]
                 THEN [target EXCEPT ![e[1]] = NewStatus[pc[e]]] ELSE target
    /\ pc' = [pc EXCEPT ![e] = Following[pc[e]]]
    /\ UNCHANGED <<api, status, overall, stored, rollup>>

Probe(e) ==
    /\ Goto(e, "probing", "storing")
    /\ UNCHANGED <<api, rows, loaded, rollup>>

\* A black-box scan that is not available stores nothing and completes.
Unavailable(e) ==
    /\ Goto(e, "probing", "completing")
    /\ UNCHANGED <<api, rows, loaded, rollup>>

\* The batch fails the scan when one of its findings has pci_fail.
StoreFindings(e) ==
    /\ Goto(e, "storing", "completing")
    /\ \E v \in {"pass", "fail"} : stored' = [stored EXCEPT ![e] = v]
    /\ UNCHANGED <<api, status, overall, target, loaded, rollup>>

\* Mutant: one finished target finalizes the scan.
AnyTerminal == \E t \in Targets : target[t] \in TerminalStatuses

AllTerminal == \A t \in Targets : target[t] \in TerminalStatuses

Verdict == IF \E e \in Executions : stored[e] = "fail" THEN "FAIL" ELSE "PASS"

NoRollup == [old |-> "null", new |-> "null"]

\* The roll-up loads the scan, then its targets, then their findings.  The
\* findings are read target by target, which comes to one read: none is ever
\* deleted.
LoadRollup(e) ==
    /\ pc[e] \in {"checking", "cleanup"}
    /\ Load(e, status)
    /\ rollup' = [rollup EXCEPT ![e] = [old |-> overall, new |-> "null"]]
    /\ UNCHANGED <<api, rows, pc>>

Rolling(e) == pc[e] \in {"checking", "cleanup"} /\ loaded[e] # "none"

CheckTargets(e) ==
    /\ Rolling(e) /\ rollup[e].new = "null"
    /\ AllTerminal
    /\ rollup' = [rollup EXCEPT ![e] = [old |-> @.old, new |-> "due"]]
    /\ UNCHANGED <<api, rows, pc, loaded>>

\* Mutant: only the findings of the last target decide.
CollectOwn(e) ==
    /\ Rolling(e) /\ rollup[e].new = "due"
    /\ rollup' = [rollup EXCEPT ![e] =
                    [old |-> @.old, new |-> IF stored[e] = "fail" THEN "FAIL" ELSE "PASS"]]
    /\ UNCHANGED <<api, rows, pc, loaded>>

Collect(e) ==
    /\ Rolling(e) /\ rollup[e].new = "due"
    /\ rollup' = [rollup EXCEPT ![e] = [old |-> @.old, new |-> Verdict]]
    /\ UNCHANGED <<api, rows, pc, loaded>>

\* The end of the roll-up: the task returns, or raises its exception again.
EndTask(e) ==
    /\ pc' = [pc EXCEPT ![e] = IF pc[e] = "checking" THEN "done" ELSE "raised"]
    /\ Commit(e)
    /\ rollup' = [rollup EXCEPT ![e] = NoRollup]

NotYet(e) ==
    /\ Rolling(e) /\ rollup[e].new = "null"
    /\ ~ AllTerminal
    /\ EndTask(e)
    /\ UNCHANGED <<api, rows>>

\* Mutant: a scan with failed targets becomes "partial".
FinalizePartial(e) ==
    /\ Rolling(e) /\ rollup[e].new \in {"PASS", "FAIL"}
    /\ overall' = IF rollup[e].new # rollup[e].old THEN rollup[e].new ELSE overall
    /\ status' = IF \E t \in Targets : target[t] = "failed" THEN "partial" ELSE "completed"
    /\ EndTask(e)
    /\ UNCHANGED <<api, target, stored>>

Finalize(e) ==
    /\ Rolling(e) /\ rollup[e].new \in {"PASS", "FAIL"}
    /\ overall' = IF rollup[e].new # rollup[e].old THEN rollup[e].new ELSE overall
    /\ status' = IF loaded[e] # "completed" THEN "completed" ELSE status
    /\ EndTask(e)
    /\ UNCHANGED <<api, target, stored>>

\* An open transaction is rolled back and the execution continues at "to".
Abandon(e, to) ==
    /\ pc' = [pc EXCEPT ![e] = to]
    /\ loaded' = [loaded EXCEPT ![e] = "none"]
    /\ rollup' = [rollup EXCEPT ![e] = NoRollup]
    /\ UNCHANGED <<api, rows>>

\* Inside the try block an exception leads to the except branch; before it
\* (the scan and the target are being marked running) and in the except
\* branch it leaves the task.
Raise(e) ==
    \/ /\ "probe" \in Faults
       /\ pc[e] = "probing"
       /\ Abandon(e, "failing")
    \/ /\ "db" \in Faults
       /\ pc[e] \in {"storing", "completing", "checking"}
       /\ Abandon(e, "failing")
    \/ /\ "db" \in Faults
       /\ pc[e] \in {"starting", "marking", "failing", "cleanup"}
       /\ Abandon(e, "raised")

-----------------------------------------------------------------------------
(* The broker and the worker processes.                                    *)

\* Mutant: the message is acknowledged when it is received.
CrashAcked(e) ==
    /\ "crash" \in Faults
    /\ pc[e] \in Live \ {"queued"}
    /\ Abandon(e, "lost")

\* task_reject_on_worker_lost: the message goes back to the queue.
Crash(e) ==
    /\ "crash" \in Faults
    /\ pc[e] \in Live \ {"queued"}
    /\ \E f \in Executions :
          /\ f[1] = e[1] /\ pc[f] = "none"
          /\ pc' = [pc EXCEPT ![e] = "lost", ![f] = "queued"]
    /\ loaded' = [loaded EXCEPT ![e] = "none"]
    /\ rollup' = [rollup EXCEPT ![e] = NoRollup]
    /\ UNCHANGED <<api, rows>>

\* task_acks_late: the message of a live execution is taken for lost.
Redeliver(e) ==
    /\ "redeliver" \in Faults
    /\ pc[e] \in Live
    /\ Deliver(e[1])
    /\ UNCHANGED <<api, rows, loaded, rollup>>

\* task_time_limit: the process is killed and the message acknowledged.
Kill(e) ==
    /\ "kill" \in Faults
    /\ pc[e] \in Live \ {"queued"}
    /\ Abandon(e, "killed")

Work(e) ==
    \/ LoadScan(e) \/ MarkRunning(e) \/ LoadTarget(e) \/ MarkTarget(e)
    \/ Probe(e) \/ Unavailable(e) \/ StoreFindings(e)
    \/ LoadRollup(e) \/ NotYet(e) \/ CheckTargets(e) \/ Collect(e) \/ Finalize(e)

Enqueue == CreateScan \/ CreateTargets \/ (\E t \in Targets : Publish(t)) \/ MarkEnqueued

Next ==
    \/ Enqueue \/ ApiError
    \/ \E e \in Executions : Work(e) \/ Raise(e) \/ Crash(e) \/ Redeliver(e) \/ Kill(e)

Spec == Init /\ [][Next]_vars

\* The handler and the workers keep running; failures owe nothing.
FairSpec == Spec /\ WF_vars(Enqueue) /\ \A e \in Executions : WF_vars(Work(e))

-----------------------------------------------------------------------------
(* Properties.                                                             *)

\* A scan shown as completed has the result its stored findings call for,
\* although targets are scanned side by side and the last one rolls up.
ResultSound == status = "completed" => overall = Verdict

\* Once the handler has returned, a completed scan is never reopened.
FinalIsFinal ==
    [][status = "completed" /\ api = "returned" => status' = "completed"]_status

Quiescent == \A e \in Executions : pc[e] \notin Live

\* The roll-up is never missed: two targets that end at the same moment do
\* not both leave it to the other, whatever crashes and is delivered again.
FinalizedByLast == AllTerminal /\ Quiescent => overall # "null"

\* A dispatched scan gets its result, also when probes fail.
Finalizes == api = "returned" ~> overall # "null"
=============================================================================
