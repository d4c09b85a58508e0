---------------------------- MODULE ScanLifecycle ----------------------------
(***************************************************************************)
(* One Scan row of the portal, the transactions that read and write it,    *)
(* and the scanner executions that drive it over HTTP.                     *)
(*                                                                         *)
(* A dispatch issues a manifest and posts it to the scanner, which runs    *)
(* execute_manifest: PATCH RUNNING, probe every target, POST the findings, *)
(* PATCH COMPLETED, and PATCH FAILED when any of it raises.  Each of these *)
(* calls is one request; a request is handled by one portal transaction,   *)
(* which reads the row, checks what it read, and later commits a blind     *)
(* write ("update where id").  Two open transactions therefore do not see  *)
(* each other.  Any number of dispatches of the same scan may be live, and *)
(* operators (users with scan.run) may send the same requests.             *)
(***************************************************************************)
EXTENDS FiniteSets

CONSTANTS Dispatches,   \* the dispatch calls made for this scan
          Operators,    \* users with scan.run who PATCH and POST by hand
          Targets,      \* the ScanTarget rows, fixed when the scan is created
          Qids,         \* the finding identifiers a probe may produce
          Faults        \* the kinds of failure the environment may exhibit

FaultKinds == {"loss",    \* a request or its reply is lost or times out
               "expiry",  \* the 15 minute manifest lifetime runs out
               "abort",   \* a portal transaction is rolled back
               "probe",   \* probing or scoring a target raises
               "crash"}   \* the scanner process dies

ASSUME LifecycleAssumption ==
    /\ Dispatches \cap Operators = {}
    /\ Targets # {}
    /\ Faults \subseteq FaultKinds

VARIABLES status,       \* Scan.status
          completedAt,  \* Scan.completedAt, null or set
          findings,     \* the Finding rows of the scan, as <<target, qid>>
          audit,        \* the "scan.status.updated" audit events
          ingested,     \* the actors with a "finding.ingested" audit event
          manifest,     \* the manifest of each dispatch
          pc,           \* where each execution stands
          todo,         \* the targets an execution has still to probe
          found,        \* the findings each actor posts
          req,          \* the state of each request
          seen,         \* the status an open transaction has read
          seenRows      \* the Finding rows an open ingestion has read

portalVars == <<status, completedAt, findings, audit, ingested>>
requestVars == <<req, seen, seenRows>>
scannerVars == <<pc, todo, found>>
vars == <<portalVars, manifest, requestVars, scannerVars>>

-----------------------------------------------------------------------------
Statuses == {"PENDING", "RUNNING", "COMPLETED", "FAILED"}
Terminal == {"COMPLETED", "FAILED"}
PatchKinds == Statuses \ {"PENDING"}
Kinds == PatchKinds \cup {"FINDINGS"}
Actors == Dispatches \cup Operators
Rows == Targets \X Qids
ReqStates == {"none", "sent", "lost", "open", "done", "error"}
PCs == {"idle", "issued", "refused", "starting", "scanning", "posting",
        "completing", "failing", "done", "failed", "crashed"}
AuditEvents == [by : Actors, before : Statuses, after : PatchKinds]

TypeOK ==
    /\ status \in Statuses
    /\ completedAt \in {"null", "set"}
    /\ findings \subseteq Rows
    /\ audit \subseteq AuditEvents
    /\ ingested \subseteq Actors
    /\ manifest \in [Dispatches -> {"none", "live", "expired"}]
    /\ pc \in [Dispatches -> PCs]
    /\ todo \in [Dispatches -> SUBSET Targets]
    /\ found \in [Actors -> SUBSET Rows]
    /\ req \in [Actors -> [Kinds -> ReqStates]]
    /\ seen \in [Actors -> [Kinds -> Statuses]]
    /\ seenRows \in [Actors -> SUBSET Rows]

Init ==
    /\ status = "PENDING"
    /\ completedAt = "null"
    /\ findings = {}
    /\ audit = {}
    /\ ingested = {}
    /\ manifest = [d \in Dispatches |-> "none"]
    /\ pc = [d \in Dispatches |-> "idle"]
    /\ todo = [d \in Dispatches |-> {}]
    /\ found = [a \in Actors |-> {}]
    /\ req = [a \in Actors |-> [k \in Kinds |-> "none"]]
    /\ seen = [a \in Actors |-> [k \in Kinds |-> "PENDING"]]
    /\ seenRows = [a \in Actors |-> {}]

-----------------------------------------------------------------------------
(* Requests in flight.                                                     *)

Set(a, k, s) == req' = [req EXCEPT ![a][k] = s]

\* The end of a request.  An open transaction forgets what it read, and
\* nothing here depends on the reply an operator gets.
Answer(a, k, s) ==
    /\ Set(a, k, IF a \in Operators THEN "none" ELSE s)
    /\ seen' = [seen EXCEPT ![a][k] = "PENDING"]
    /\ seenRows' = IF k = "FINDINGS" THEN [seenRows EXCEPT ![a] = {}] ELSE seenRows

\* A request of a scanner carries its manifest, which must not have expired;
\* a request of an operator carries a session.
Authenticated(a) == a \in Dispatches => manifest[a] = "live"

\* The client sees a failure: an error reply, or no reply within 30 s.
Failed(a, k) == req[a][k] = "error" \/ "loss" \in Faults

\* A request of the scanner never delivered to the portal: no reply will come.
Lose(d, k) ==
    /\ "loss" \in Faults
    /\ req[d][k] = "sent"
    /\ Set(d, k, "lost")
    /\ UNCHANGED <<portalVars, manifest, scannerVars, seen, seenRows>>

\* The interactive transaction is rolled back (its 5 s timeout, a database
\* error, a portal restart): nothing it wrote is kept and the reply is a 500.
Abort(a, k) ==
    /\ "abort" \in Faults
    /\ req[a][k] = "open"
    /\ Answer(a, k, "error")
    /\ UNCHANGED <<portalVars, manifest, scannerVars>>

-----------------------------------------------------------------------------
(* The portal: transitionScanStatus.                                       *)

VALID_TRANSITIONS ==
    [PENDING   |-> {"RUNNING"},
     RUNNING   |-> {"COMPLETED", "FAILED"},
     COMPLETED |-> {},
     FAILED    |-> {}]

\* The transaction reads the row and its guard passes on what it read.
OpenTransition(a, s) ==
    /\ req[a][s] = "sent"
    /\ Authenticated(a)
    /\ s \in VALID_TRANSITIONS[status]
    /\ Set(a, s, "open")
    /\ seen' = [seen EXCEPT ![a][s] = status]
    /\ UNCHANGED <<portalVars, manifest, scannerVars, seenRows>>

\* The request is refused: 401 without a live manifest, 409 by the guard.
RejectTransition(a, s) ==
    /\ req[a][s] = "sent"
    /\ ~ (Authenticated(a) /\ s \in VALID_TRANSITIONS[status])
    /\ Answer(a, s, "error")
    /\ UNCHANGED <<portalVars, manifest, scannerVars>>

\* Mutant: the audit event is written with before and after swapped.
CommitTransitionSwapped(a, s) ==
    /\ req[a][s] = "open"
    /\ status' = s
    /\ completedAt' = IF s \in Terminal THEN "set" ELSE completedAt
    /\ audit' = audit \cup {[by |-> a, before |-> s, after |-> seen[a][s]]}
    /\ Answer(a, s, "done")
    /\ UNCHANGED <<findings, ingested, manifest, scannerVars>>

\* Mutant: a failed scan is not dated.
CommitTransitionUndated(a, s) ==
    /\ req[a][s] = "open"
    /\ status' = s
    /\ completedAt' = IF s = "COMPLETED" THEN "set" ELSE completedAt
    /\ audit' = audit \cup {[by |-> a, before |-> seen[a][s], after |-> s]}
    /\ Answer(a, s, "done")
    /\ UNCHANGED <<findings, ingested, manifest, scannerVars>>

\* The blind update and its audit event commit together.  The event records
\* as "before" the status the transaction read, not the one it overwrites.
CommitTransition(a, s) ==
    /\ req[a][s] = "open"
    /\ status' = s
    /\ completedAt' = IF s \in Terminal THEN "set" ELSE completedAt
    /\ audit' = audit \cup {[by |-> a, before |-> seen[a][s], after |-> s]}
    /\ Answer(a, s, "done")
    /\ UNCHANGED <<findings, ingested, manifest, scannerVars>>

-----------------------------------------------------------------------------
(* The portal: ingestFindings.  It never looks at the status of the scan.  *)

OpenIngest(a) ==
    /\ req[a]["FINDINGS"] = "sent"
    /\ Authenticated(a)
    /\ Set(a, "FINDINGS", "open")
    /\ seenRows' = [seenRows EXCEPT ![a] = findings]
    /\ UNCHANGED <<portalVars, manifest, scannerVars, seen>>

RejectIngest(a) ==
    /\ req[a]["FINDINGS"] = "sent"
    /\ ~ Authenticated(a)
    /\ Answer(a, "FINDINGS", "error")
    /\ UNCHANGED <<portalVars, manifest, scannerVars>>

\* The findings the transaction did not see, and therefore inserts.  The code
\* looks for each one just before it inserts it, and from then on holds its
\* entry in the unique index: that is the same as to look for all of them when
\* it looks for the last.
NewRows(a) == found[a] \ seenRows[a]

CommitIngest(a) ==
    /\ req[a]["FINDINGS"] = "open"
    /\ NewRows(a) \cap findings = {}
    /\ findings' = findings \cup NewRows(a)
    /\ ingested' = IF NewRows(a) = {} THEN ingested ELSE ingested \cup {a}
    /\ Answer(a, "FINDINGS", "done")
    /\ UNCHANGED <<status, completedAt, audit, manifest, scannerVars>>

\* A finding it did not see has been inserted meanwhile: the unique index on
\* (scanId, assetId, qid) fails the insert and with it the whole transaction.
ConflictIngest(a) ==
    /\ req[a]["FINDINGS"] = "open"
    /\ NewRows(a) \cap findings # {}
    /\ Answer(a, "FINDINGS", "error")
    /\ UNCHANGED <<portalVars, manifest, scannerVars>>

-----------------------------------------------------------------------------
(* Dispatch: the portal issues a manifest, whatever the status of the scan,*)
(* and posts it to the scanner, which verifies it before doing anything.   *)

Dispatch(d) ==
    /\ pc[d] = "idle"
    /\ manifest' = [manifest EXCEPT ![d] = "live"]
    /\ pc' = [pc EXCEPT ![d] = "issued"]
    /\ UNCHANGED <<portalVars, requestVars, todo, found>>

Expire(d) ==
    /\ "expiry" \in Faults
    /\ manifest[d] = "live"
    /\ manifest' = [manifest EXCEPT ![d] = "expired"]
    /\ UNCHANGED <<portalVars, requestVars, scannerVars>>

\* The POST to the scanner is lost, or the scanner answers 401.
RefuseDispatch(d) ==
    /\ pc[d] = "issued"
    /\ manifest[d] = "expired" \/ "loss" \in Faults
    /\ pc' = [pc EXCEPT ![d] = "refused"]
    /\ UNCHANGED <<portalVars, manifest, requestVars, todo, found>>

-----------------------------------------------------------------------------
(* The scanner: execute_manifest.  Each step ends with the next request.   *)

Goto(d, from, to) == pc[d] = from /\ pc' = [pc EXCEPT ![d] = to]

Accept(d) ==
    /\ Goto(d, "issued", "starting")
    /\ manifest[d] = "live"
    /\ todo' = [todo EXCEPT ![d] = Targets]
    /\ Set(d, "RUNNING", "sent")
    /\ UNCHANGED <<portalVars, manifest, found, seen, seenRows>>

\* Mutant: a refused RUNNING patch is taken for "already running".
StartedAnyway(d) ==
    /\ Goto(d, "starting", "scanning")
    /\ req[d]["RUNNING"] \in {"done", "error"}
    /\ UNCHANGED <<portalVars, manifest, requestVars, todo, found>>

Started(d) ==
    /\ Goto(d, "starting", "scanning")
    /\ req[d]["RUNNING"] = "done"
    /\ UNCHANGED <<portalVars, manifest, requestVars, todo, found>>

\* One target: an unavailable one is skipped and yields no finding.
Probe(d, t) ==
    /\ pc[d] = "scanning"
    /\ t \in todo[d]
    /\ todo' = [todo EXCEPT ![d] = @ \ {t}]
    /\ \E Q \in SUBSET Qids : found' = [found EXCEPT ![d] = @ \cup ({t} \X Q)]
    /\ UNCHANGED <<portalVars, manifest, requestVars, pc>>

\* Mutant: with nothing found there is nothing to report.
PostSkipsEmpty(d) ==
    /\ todo[d] = {}
    /\ IF found[d] = {}
         THEN Goto(d, "scanning", "done") /\ UNCHANGED req
         ELSE Goto(d, "scanning", "posting") /\ Set(d, "FINDINGS", "sent")
    /\ UNCHANGED <<portalVars, manifest, todo, found, seen, seenRows>>

Post(d) ==
    /\ Goto(d, "scanning", "posting")
    /\ todo[d] = {}
    /\ Set(d, "FINDINGS", "sent")
    /\ UNCHANGED <<portalVars, manifest, todo, found, seen, seenRows>>

\* Mutant: the findings are posted without waiting for the reply.
PostedNoWait(d) ==
    /\ Goto(d, "posting", "completing")
    /\ Set(d, "COMPLETED", "sent")
    /\ UNCHANGED <<portalVars, manifest, todo, found, seen, seenRows>>

Posted(d) ==
    /\ Goto(d, "posting", "completing")
    /\ req[d]["FINDINGS"] = "done"
    /\ Set(d, "COMPLETED", "sent")
    /\ UNCHANGED <<portalVars, manifest, todo, found, seen, seenRows>>

\* Mutant: the reply to the COMPLETED patch is not looked at.
CompletedUnchecked(d) ==
    /\ Goto(d, "completing", "done")
    /\ req[d]["COMPLETED"] \in {"done", "error"}
    /\ UNCHANGED <<portalVars, manifest, requestVars, todo, found>>

Completed(d) ==
    /\ Goto(d, "completing", "done")
    /\ req[d]["COMPLETED"] = "done"
    /\ UNCHANGED <<portalVars, manifest, requestVars, todo, found>>

\* The exception the try block of execute_manifest can be left with.
Raises(d) ==
    \/ pc[d] = "starting" /\ Failed(d, "RUNNING")
    \/ pc[d] = "scanning" /\ todo[d] # {} /\ "probe" \in Faults
    \/ pc[d] = "posting" /\ Failed(d, "FINDINGS")
    \/ pc[d] = "completing" /\ Failed(d, "COMPLETED")

WriteBackFailure(d) ==
    /\ Raises(d)
    /\ pc' = [pc EXCEPT ![d] = "failing"]
    /\ Set(d, "FAILED", "sent")
    /\ UNCHANGED <<portalVars, manifest, todo, found, seen, seenRows>>

\* Mutant: the FAILED patch is repeated until the portal accepts it.
GiveUpAccepted(d) ==
    /\ Goto(d, "failing", "failed")
    /\ req[d]["FAILED"] = "done"
    /\ UNCHANGED <<portalVars, manifest, requestVars, todo, found>>

\* Whatever becomes of the FAILED patch is swallowed.
GiveUp(d) ==
    /\ Goto(d, "failing", "failed")
    /\ req[d]["FAILED"] = "done" \/ Failed(d, "FAILED")
    /\ UNCHANGED <<portalVars, manifest, requestVars, todo, found>>

Crash(d) ==
    /\ "crash" \in Faults
    /\ pc[d] \in {"starting", "scanning", "posting", "completing", "failing"}
    /\ pc' = [pc EXCEPT ![d] = "crashed"]
    /\ UNCHANGED <<portalVars, manifest, requestVars, todo, found>>

-----------------------------------------------------------------------------
(* Operators.  Each has one request outstanding at a time.                 *)

Free(o) == \A k \in Kinds : req[o][k] = "none"

OperatorPatch(o, s) ==
    /\ Free(o)
    /\ Set(o, s, "sent")
    /\ UNCHANGED <<portalVars, manifest, scannerVars, seen, seenRows>>

OperatorPost(o, F) ==
    /\ Free(o)
    /\ found' = [found EXCEPT ![o] = F]
    /\ Set(o, "FINDINGS", "sent")
    /\ UNCHANGED <<portalVars, manifest, pc, todo, seen, seenRows>>

-----------------------------------------------------------------------------
HandlePatch(a, s) ==
    OpenTransition(a, s) \/ RejectTransition(a, s) \/ CommitTransition(a, s)

HandlePost(a) ==
    OpenIngest(a) \/ RejectIngest(a) \/ CommitIngest(a) \/ ConflictIngest(a)

Execute(d) ==
    \/ Accept(d) \/ RefuseDispatch(d) \/ Started(d) \/ (\E t \in Targets : Probe(d, t))
    \/ Post(d) \/ Posted(d) \/ Completed(d) \/ WriteBackFailure(d) \/ GiveUp(d)

Next ==
    \/ \E a \in Actors, s \in PatchKinds : HandlePatch(a, s)
    \/ \E a \in Actors : HandlePost(a)
    \/ \E d \in Dispatches, k \in Kinds : Lose(d, k)
    \/ \E a \in Actors, k \in Kinds : Abort(a, k)
    \/ \E d \in Dispatches : Dispatch(d) \/ Execute(d) \/ Expire(d) \/ Crash(d)
    \/ \E o \in Operators, s \in PatchKinds : OperatorPatch(o, s)
    \/ \E o \in Operators, F \in SUBSET Rows : OperatorPost(o, F)

Spec == Init /\ [][Next]_vars

\* The portal handles every request it receives and the scanner keeps
\* running; users and failures owe nothing.
Fairness ==
    /\ \A a \in Actors, s \in PatchKinds : WF_vars(HandlePatch(a, s))
    /\ \A a \in Actors : WF_vars(HandlePost(a))
    /\ \A d \in Dispatches : WF_vars(Execute(d))

FairSpec == Spec /\ Fairness

-----------------------------------------------------------------------------
(* Properties.                                                             *)

\* An execution of the scanner whose COMPLETED patch the portal has recorded
\* has every finding it produced stored, whatever other executions, lost
\* replies, rolled back ingestions and deduplication did meanwhile.
CompletedHasFindings ==
    \A e \in audit : e.by \in Dispatches /\ e.after = "COMPLETED"
                        => found[e.by] \subseteq findings

\* The answer "accepted, COMPLETED" of execute_manifest is never a false one:
\* the portal has recorded the transition and dated the scan.
DoneIsRecorded ==
    \A d \in Dispatches : pc[d] = "done" =>
        /\ \E e \in audit : e.by = d /\ e.after = "COMPLETED"
        /\ completedAt = "set"

\* ingestFindings does not look at the status, yet no finding of a scanner
\* reaches a scan that has not been started by that very execution: a second
\* dispatch whose RUNNING patch is refused leaves no findings behind.
FindingsOfStartedOnly ==
    \A d \in ingested \cap Dispatches :
        /\ \E e \in audit : e.by = d /\ e.after = "RUNNING"
        /\ status # "PENDING"

\* The only way out of PENDING is RUNNING, even for transactions that overlap
\* or whose client has given up on them.
StartsWithRunning ==
    [][status = "PENDING" => status' \in {"PENDING", "RUNNING"}]_status

\* Two executions of one scan (a dispatch repeated by a user) may cut each
\* other short and may reopen a finished scan, but while requests are
\* delivered the last write is always a final status.
SettlesTerminal ==
    \A d \in Dispatches : pc[d] = "starting" ~> [](status \in Terminal)

\* An execution ends: no step of execute_manifest waits for an answer the
\* portal does not give, although the other execution makes it refuse any.
ExecutionEnds ==
    \A d \in Dispatches :
        pc[d] = "starting" ~> pc[d] \in {"done", "failed", "crashed"}

\* The comment of execute_manifest: an execution that has begun never leaves
\* the scan wedged in PENDING or RUNNING.
NeverWedged ==
    \A d \in Dispatches : pc[d] = "starting" ~> status \in Terminal

ScanRows == INSTANCE ScanRow WITH Rows <- Rows

\* What the row promises to readers, with any overlap of transactions.
RowRefinement == ScanRows!Spec
=============================================================================
