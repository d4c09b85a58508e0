# Formal models of ds-asv

ds-asv is an approved-scanning-vendor platform in two programs:

* the **portal** (`portal/`, Next.js, TypeScript, PostgreSQL through Prisma): organizations, users,
  assets, scope versions and their approval, scans, findings, reports and their attestation;
* the **scanner** (`scanner/`, FastAPI and Celery, Python, SQLAlchemy): it executes a signed manifest
  the portal posts to it, and it also has a scan queue of its own with one task per target.

This directory models the parts where several actors meet over shared rows, checks the models with
TLC on small instances, and proves their safety properties with TLAPS for every instance.
`PROJECT.json` lists the components, the runs, the source lines every definition translates, the
hazards of the code with the properties that watch them, and the theorems.

Paths below are relative to the repository's root.

## 1. The system

### 1.1 Components

State in *italics* is a database row unless said otherwise.

| component | state | operations | what makes it correct |
|---|---|---|---|
| scan lifecycle (`portal/src/lib/scan/service.ts`, `findings.ts`) | *Scan*: status, completedAt; *Finding* rows; *AuditEvent* rows | createScanFromAssets, transitionScanStatus, ingestFindings | a final status is dated, and the last write is one; a recorded COMPLETED has its findings; each transition is one of the table, from the status it read |
| manifest and dispatch (`scan/manifest.ts`, `dispatch.ts`) | a signed manifest, valid 15 minutes, held by the scanner only | issueManifest, verifyManifest, dispatchScan | a request with an expired manifest changes nothing; a repeated dispatch does no harm |
| reports and attestation (`scan/report.ts`) | *Report*: status, scopeVersionId, summary; *ReportAttestation* | buildReport, submitReport, attestReport | the two rows agree; the version named covers the scan; in prod only a backed report is attested |
| scope sets and versions (`scope/service.ts`) | *ScopeSet*, *ScopeVersion*: number, status, hash; *ScopeItem* | createScopeVersion, submitScopeVersion, approveScopeVersion, assetInApprovedScope | numbers are 1, 2, 3, ...; an approved version is frozen; the gate means an audited approval |
| authorizations (`scope/authorization.ts`) | *Authorization* of an approved version | issueAuthorization | what is authorized was approved; one row per version |
| disputes (`disputes/service.ts`) | *Dispute*: open, resolved, rejected | open, moderate | one moderation decides |
| asset registry (`assets/*.ts`) | *Asset*: lifecycle and verification state; *AssetVerification*; *AssetImport* | create, import, challenge, verify, retire | no duplicate of a live asset; a verified asset was proven; a key has one answer |
| organization, team, sessions (`org/*.ts`, `invitations.ts`, `tenant.ts`) | *Membership*, *Session*, *Invitation* | invite, redeem, change role, remove, record and revoke sessions | an owner remains; a removed member has no session; a revoked session stays so; a token is redeemed once |
| API keys (`auth/api-keys.ts`, `auth/requireScope.ts`) | *ApiKey* | create, update, rotate, revoke, admit | a key and its successors are one credential: one live row, with the scopes and expiry asked for last |
| roles and permissions (`auth/rbac.ts`) | none (tables) | can, isStaff | attestation in prod is for staff |
| audit trail (`audit.ts`) | *AuditEvent* | record, page | an event exists exactly when its change does |
| sign-in (`app/api/auth/*`, `auth/keycloak.ts`, `session-cookie.ts`) | two cookies of a browser; codes and tokens of an external provider | login, callback, logout | a browser has sessions of its own logins only; a logout ends its token in the organization it is authenticated for |
| pages (`app/(dashboard)/scope`, `scanners`, `api-keys`, `app/onboarding`) | *the state of a tab*: the list it shows, the calls it waits for | click, answer, refresh, leave | what the buttons allow keeps the calls behind them in order |
| database schema (`portal/prisma/schema.prisma`) | unique indexes, tenant policies | - | the indexes are what stops two overlapping inserts |
| configuration guards, OpenAPI, playground, other pages | environment, static | - | - |
| manifest executor (`scanner/app/executor.py`, `portal_client.py`) | the local variables of one HTTP handler; nothing is persisted | execute_manifest | it ends; what it answers is what the portal recorded |
| scan API (`scanner/app/api/routes.py`) | *Scan*, *Target* of the scanner's own database | enqueue_scan and reads | the handler does not undo what the workers did |
| worker tasks and roll-up (`scanner/app/tasks/*.py`) | the same rows, *Finding*; the broker's queue | run_*_scan, _check_and_finalize_scan, quarterly sweep | every dispatched scan gets its result, once, and the right one |
| scoring (`scanner/app/scoring/*.py`) | the CVE feed | score, pci_fail, version ranges | a version is affected exactly in the range |
| evidence store, reports (`scanner/app/reports/*.py`) | blobs, an audit log file, PDFs | put, get, append to the log | no log entry is lost |
| connectors (`scanner/app/scanners/*.py`) | none | probe a target | external |
| feed updates, deployment (`scanner/scripts`) | files | run by hand or timer | - |

### 1.2 Interactions

```
 tab  --HTTP--> portal --manifest--> scanner.execute_manifest --PATCH, POST--> portal
   |               |
   |               +-- every request: token, session registry, membership, role
   |               +-- scope gate (createScanFromAssets) reads ScopeVersion, Asset
   |               +-- buildReport reads Scan, Finding, ScopeVersion; attestReport reads Report
   +--HTTP--> scanner.enqueue_scan --tasks--> broker --> workers --> scanner's database
```

* **Calls.** A dispatch of the portal is a POST to the scanner whose handler runs the whole scan and
  calls back into the portal three or four times. Each call has one timeout (30 s) and no retry.
* **Shared rows.** Every portal service call is an interactive transaction at PostgreSQL's default
  READ COMMITTED: it reads rows, checks what it read in TypeScript, and later sends an
  `update ... where id = ...` with no condition on what it read. Two calls in flight do not see each
  other. The scanner's SQLAlchemy sessions have the same shape, except that an attribute is written
  only when it differs from what was loaded.
* **Nested transactions.** A helper called with `ctx` instead of `tx` (`assetInApprovedScope`,
  `getScopeVersion`, `resolveReportScopeVersionId`) opens a transaction of its own, so it reads at
  another moment than its caller.
* **Pages.** A page is rendered from a list that was read earlier, sends a call per click, waits for its
  answer, and asks for a new list. It disables the button of a call in flight and nothing else. When an
  answer is lost it shows a failure, while the call may go on.
* **Requests.** Resolving the tenant context takes up to four transactions (user, membership, session
  looked up, access recorded) before the handler's own; each may find what the one before did not.
* **Queue.** Celery acknowledges late and requeues lost tasks, so a task may run twice, even at the
  same time. Without a broker the tasks are FastAPI `BackgroundTasks` of one response.

### 1.3 What is hard here

1. overlapping read-check-write transactions on one row (transitions, submissions, approvals, builds);
2. replies lost after a commit, requests handled after their client gave up, manifests that expire
   during the scan, scanners that die with a request in flight;
3. the fan-in of parallel tasks: exactly one of them has to notice that it was the last;
4. at-least-once delivery of tasks that are not idempotent;
5. gates that read one row in one transaction and guard a write in another;
6. buttons that go by a list that is behind, answers that are lost or come after their page is gone;
7. redirects and answers of one browser that overtake one another, each setting or clearing a cookie.

`PROJECT.json` lists 40 hazards of these kinds at their lines, with the properties that would notice;
the four that no property covers say why.

## 2. The modules

| module | models | extends |
|---|---|---|
| `ScanLifecycle` | one Scan row of the portal, the requests that write it, the scanner's executions | |
| `ScanRow` | abstract: what the row promises its readers | |
| `ScannerWorker` | one scan of the scanner's own queue: handler, deliveries, tasks, roll-up | |
| `ScopeControl` | scope versions, approvals, the prod gate of scan creation | |
| `ReportGate` | reports and attestations | `ScopeControl` |
| `ReportPromise` | abstract: what a report promises its readers | |
| `Console` | the scope and scanners pages with their calls; authorizations | `ScopeControl` |
| `AssetRegistry` | assets, ownership challenges, imports | |
| `Inventory` | abstract: which assets are live, under which identifiers | |
| `Roles` | the permission table and the staff rule | |
| `Organization` | requests with their tenant context, memberships, sessions, invitations | `Roles` |
| `ApiKeys` | keys, their lineages, and the admission of a presented key | |
| `KeyDesk` | the key table, its form and the onboarding wizard with their calls | `ApiKeys` |
| `SignIn` | browsers, cookies, the code flow, logout | |
| `MC*` | the instances TLC checks: symmetry sets, deliveries, which set a version is in, who shares an address | |
| `*Proofs` | the inductive invariants and the theorems | the module, `TLAPS` |

Operators whose comment begins with "Mutant:" are variants of the definition after them with one
plausible mistake; no specification uses them. They show that each property would notice.

### 2.1 ScanLifecycle

One Scan row (`status`, `completedAt`), its `findings` (pairs of target and qid), its `audit` trail
of status changes, and the actors that ingested findings (`ingested`, the `scan.findings.ingested`
events). Actors are dispatches (each one execution of `execute_manifest`) and operators (users with
`scan.run` who use the two routes by hand).

A request of an actor is in one of the states none, sent, open (its transaction has read the row and
passed the guard), done, error, or lost. `seen` is what the open transaction read.

| action | code |
|---|---|
| `OpenTransition`, `RejectTransition`, `CommitTransition` | the read and guard, the refusals (401, 409), and the update with its audit event, of `transitionScanStatus` behind `PATCH /scans/:id` |
| `OpenIngest`, `CommitIngest`, `ConflictIngest`, `RejectIngest` | `ingestFindings`: the upserts by (scan, asset, qid), the unique index that fails the loser |
| `Dispatch`, `Expire`, `RefuseDispatch` | `dispatchScan`, `issueManifest` and its 15 minutes, `verify_manifest` |
| `Accept` .. `Completed`, `WriteBackFailure`, `GiveUp` | the steps of `execute_manifest`, each of which ends by sending the next request |
| `Lose`, `Abort`, `Crash` | a request or reply lost, a transaction rolled back, a scanner killed |
| `OperatorPatch`, `OperatorPost` | a user's request |

The scanner's client may see a failure (`Failed`) although the portal commits: with "loss" a reply
may be lost, or the request handled later than the 30 s timeout. The request then stays in flight and
may still be handled; this is how stale writes arise.

`ScanRow` has three actions: start, overwrite by another status of the table (a final status is
dated), and ingest. `RowRefinement` says `ScanLifecycle` implements it with the identity mapping of
its first three variables, i.e. requests, transactions, executions and failures are invisible.

### 2.2 ScannerWorker

The scan's `status` and `overall` result, the `target` statuses, the findings `stored` per execution
(whether the batch fails the scan), the API handler's position `api`, and per execution its `pc`, the
status its open session `loaded` and the roll-up it computes. An execution is a delivery of the
message of a target: `<<t, 1>>` the first, `<<t, 2>>` the redelivery.

Each helper of `scanner_tasks.py` is a transaction of its own: `LoadScan`/`MarkRunning`
(`_update_scan_status`), `LoadTarget`/`MarkTarget` (`_update_target_status`, three calls),
`StoreFindings`, and `LoadRollup`, `CheckTargets` or `NotYet`, `Collect`, `Finalize`
(`_check_and_finalize_scan`: load the scan, look at all targets, read their findings, commit). A
commit writes an attribute only if it differs from the loaded value, as SQLAlchemy does. `Raise`
follows the try block: before it and in the except branch the exception leaves the task, inside it
the target is marked failed and the roll-up is called again. `Crash`, `Redeliver` and `Kill` are
`task_reject_on_worker_lost`, `task_acks_late` with the broker's visibility timeout, and
`task_time_limit`. `Runnable` tells Celery's workers from the sequential `BackgroundTasks`.

### 2.3 ScopeControl and ReportGate

`version` (status, number, frozen items), `scan` (status, targets), `asset` (as the gates read it:
unverified, verified or retired), `approvals` (the `scope.version.approved` events); `ReportGate`
adds `reportStatus`, `reportLink` (`Report.scopeVersionId`) and `attestation`. Each client has at most
one call in progress; `tx[c]` is what its open transaction has read. `Open*` is the read with the
guard on it, `Commit*` the blind write with its audit event, `Gate*` and `ResolveLink` the reads of
the nested transactions, `Rollback` every way for the call to fail.

The content hash of a version stands for its frozen items. The registry's operations on assets are
one action, `AssetMoves`, that may do anything: the properties do not rely on verified assets staying
verified. `ScanCompletes` stands for the whole of `ScanLifecycle`.

`ReportPromise` is the abstract report: draft, submitted, attested in this order; the version named
is named once; with `Gated` only a report that names one is attested. `KeepsPromise` says
`ReportGate` implements it. No route of the repository calls `buildReport`, only tests do, so the
number of simultaneous builders is an assumption: `Builders` has one member in the run, and the
theorems that need it say so (`OneBuilder`). With two builders, both may read a null link and the
second overwrites the first; the hazard list records it for whoever adds the route.

### 2.4 AssetRegistry

`identifier`, `life` and `verification` are the columns of an asset, `subject`, `challenge` and
`overdue` those of a challenge (its asset, its status, more than 24 hours old), `recorded` and
`summary` the import records by idempotency key. `proofs` (the tokens an asset was verified with) and
`answers` (what the imports of a key have returned) are history the properties speak of. As in
`ScopeControl`, `tx[c]` is what the call of a client has read.

| action | code |
|---|---|
| `OpenCreate`, `CommitCreate` | `createAsset`: the look-up, and the insert that the partial unique index may refuse (`Insert`) |
| `Retire` | `retireAsset`, one step: it decides nothing from what it reads |
| `OpenChallenge`, `CommitChallenge`, `Age` | `createVerificationChallenge`, and 24 hours |
| `OpenVerify`, `PassVerify`, `ExpireVerify`, `CommitVerify` | `verifyAssetToken`: the newest pending challenge; the asset, the expiry and the token; "expired" in a transaction of its own; the blind updates, where the index counts too |
| `OpenImport`, `ReplayImport` | the look-up of the key by `applyImport`, and its stored answer |
| `InvalidRow` .. `FailRow` | one row: malformed, seen or found, new, inserted, refused by the index (`ClashRow`) and looked up again (`LookupRow`), failed |
| `OpenRecord`, `CommitRecord`, `LoseImport` | the record of the import, or that of a faster import with the key |
| `Rollback` | a guard throws, a transaction fails, the process dies between two of them |

A token is the number of the challenge it was issued with. The rows of a file are identifiers or
`Malformed`; the summary keeps the rows behind the counts of the code. `Inventory` states what the
other parts rely on: an asset keeps its identifier, and enters the live assets only while no other
live asset has it. It allows an asset to come back, since the code does (section 4).

### 2.5 Organization, Roles

`member` is the role column of the memberships, `session` the registry's row of a token,
`invitation` and `offer` the columns of an invitation. A request is a sequence of transactions, and
`tx[c]` is what it has read so far:

| action | code |
|---|---|
| `Arrive`, `Resolve`, `Check`, `Record`, `RegistryFails` | `tenantContextFromRequest`: the verified token and its User row, `resolveTenantContext`, `isSessionBlocked`, `recordSessionAccess`; a registry that cannot be read is passed over |
| `OpenSetRole`, `CommitSetRole` | a member's role, with the count of owners in between |
| `OpenRemove`, `Sweep`, `CommitRemove` | a removal: the count, the deletion and the look-up of the sessions to revoke, the commit |
| `RevokeSession`, `Logout`, `CommitRevoke` | `revokeSession` by its user, a manager, or the logout route |
| `Invite`, `Overdue`, `OpenAccept`, `CommitAccept` | an invitation, its 24 hours, its redemption: the claim by `updateMany`, the unique membership |
| `Abandon` | every way for a request to end without committing |

`past` is whether the session was revoked when the request came; `overlapped`, `late` and `redeemed`
are history. `Roles` translates the table of `rbac.ts` and `can()`; outside prod every check is
relaxed, so the run is of prod.

### 2.6 ApiKeys, KeyDesk

A rotation revokes a row and inserts a successor; `origin` names the first row of a lineage. Updates
and rotations read the row and write by id (`OpenUpdate`, `CommitUpdate`, `OpenRotate`,
`CommitRotate`); `Create`, `Revoke` and the admission of a presented key (`Admits`, with
`Required` the scope a path needs) rely on nothing read before and are one step. `asked` is what was
last asked of the lineage; `tangled` are the lineages in which two changes overlapped or a revoked key
was rotated.

`KeyDesk` puts a browser tab in front of these calls: `listed` is what the table shows, `call[c]` the
call a client carries and who waits for it, `rotating` and `deleting` the single slot each kind of
button has for the row in progress, `dialog` the raw key shown. The wizard has its `step`, what it has
`completed`, the key it has `created` and the `apiKey` it goes on with.

| action | code |
|---|---|
| `ClickRotate`, `ClickRevoke`, `RotateAnswered`, `RevokeAnswered` | the handlers of `ApiKeyTable.tsx`, up to and after their await |
| `SubmitForm`, `FormAnswered`, `Click` | `ApiKeyForm.tsx`, and the dialogs |
| `WizardCreate`, `WizardTest`, `WizardAnswered`, `Continue`, `Reset` | the steps of `onboarding/page.tsx`; a component that is unmounted forgets what it waited for |
| `Serve*`, `FinishRotate` | the routes, which run the transactions of `ApiKeys` |
| `Refresh`, `Visit`, `Lose`, `Elsewhere` | `router.refresh()`, navigation, a broken connection, other tabs and programs |

### 2.7 Console

The same for the scope page (versions are created, submitted, approved) and the scanners page (a scan
of an approved version is run), over `ScopeControl`. `OpenAuthorize` and `CommitAuthorize` are
`issueAuthorization`, whose look-up of the version is a transaction before the one that inserts the
row or signs it anew. A version is `forsaken` once one of its submissions was not waited for on this
tab: its answer was lost, its page left, or it came from elsewhere. `Elsewhere` sends what other tabs and
users ask for at these pages (`OthersRequests`), which this tab hears of at its next refresh. The run is
not of prod: there the service itself does not gate a scan, and only the page ties it to an approval; a
program that calls the scan route itself is left out, for nothing would tie its targets to anything. The
theorems are of both modes.

### 2.8 SignIn

Each browser has two cookies, `state` (the login it started last) and `session` (a token); the
provider has a `code` and a `token` for every login, the registry a `row` for every token in every
organization (the unique key is the pair). A request carries the cookies of the moment it is sent, its
answer sets or clears them when it arrives. `Login`, `LoginArrives`, `Callback`, `Exchange`, `Provision`,
`CallbackArrives` follow the login and callback routes; `Page` stands for any request with a session;
`Logout`, `Resolve`, `NoContext`, `Check`, `Record`, `Find`, `Revoke`, `LogoutArrives` follow the logout
route, which authenticates like every other and so records its own access first. The redirect may be
followed late, again, or in another browser.

`tenantContextFromRequest` ends in one of three ways, and `if (ctx)` in the logout route makes them differ:

* `Resolve`, `Check`, `Record`: the user has an active membership. Memberships are given and taken in
  `Organization` at any time, so each request resolves some organization, not the same one as the last
  (`resolveTenantContext` takes the oldest membership there is). Session rows are looked up, recorded,
  found and revoked in that organization only.
* `NoContext`: null, whatever the reason: a token that is not verified, a user that cannot be
  provisioned, or no active membership, which is no failure at all. A logout then answers without having
  looked for its row. `Check` has the same result for a revoked row.
* `RegistryFails`: the registry cannot be read or written. Authentication goes on; a logout goes on to
  look for a row that may not be there, and answers without it when that fails too.

`ended` records, for each token, the organizations for which a logout got a context and met no failure.

## 3. The runs

| run | instance | shows |
|---|---|---|
| `scan_overlap` | 1 dispatch, 1 operator, 1 target, 1 qid, every fault | A COMPLETED on record has its findings; the scanner's answer is backed by the record; the row implements `ScanRow` |
| `scan_live` | 2 dispatches, 2 targets, probes fail; fairness | both executions end, the scan ends in a final status for good, a refused execution leaves no findings |
| `scan_wedged` | 1 dispatch, lost messages; fairness | *violated*: the scan stays PENDING |
| `worker_single` | 2 targets, one delivery each; probe, db, kill, publish | a completed scan has the result of its findings and stays completed |
| `worker_redelivered` | 2 targets, the first delivered twice; crash, redeliver, probe; fairness | the roll-up is never missed; every dispatched scan gets its result |
| `governance` | 2 assets, 2 versions of one set, 1 scan, 1 builder and 1 staff user, prod | numbers dense, targets backed by approvals, link and attestation consistent, `ReportPromise` kept |
| `console` | 1 asset, 2 versions of one set, 1 scan, 2 calls, `MaxOthers` = 1, not prod | what was approved stays so unless a submission was forsaken; a scan has the targets of an approved version |
| `asset_inventory` | 1 identifier, 2 assets, 2 challenges, 1 key, 2 files, 2 clients | live identifiers unique, active assets proven, one answer per key, imports accounted for, `Inventory` kept |
| `organization` | a founder and 2 users who share an address, a token each, 1 invitation, 2 requests, prod | an owner remains unless changes overlapped; revoked sessions are refused; removals revoke; an invitation binds one |
| `api_keys` | 3 rows, 2 requests, 2 expiry dates | one live key per lineage, with what was asked for last |
| `key_desk` | 3 rows, 2 calls | only haste tangles a lineage; the wizard goes in order |
| `sign_in` | 2 browsers, 2 logins, 2 organizations, 2 requests | cookies are of the browser's own logins; a logout ends its token where it is authenticated |

**Why these bounds.** Every race here needs two transactions on one row: one actor's stale read and
another's commit. `scan_overlap` has two actors, each of which may have several requests in flight
(the scanner's abandoned ones); the operator may send any legal or illegal request at any time, so a
second execution is one of its behaviours, and `scan_live` has a real second one. One target and
one qid are enough for a conflict of inserts; several matter only for partial batches, which a
transaction excludes, and for the loop over targets, which `scan_live` has. The roll-up's fan-in
needs two targets; a third adds nothing to "was I the last". One redelivery suffices to have two
executions of one target overlap, and the second target then overlaps both. Two versions of one set
give the race for a number and the "latest approved" change under a report; two clients give every
pair of overlapping calls. In `asset_inventory` everything that can collide collides on one identifier
and one key: a second identifier has no rows in common with it, two assets are enough for a duplicate
and two challenges for a wrong one; one file repeats its row, the other begins with a malformed one.

In `organization` two requests give every pair of overlapping changes; the founder and one more user
are two owners, the third user competes for the invitation of the second. Three key rows are a key, its
successor and a successor of either, or a second lineage; one set of scopes is enough in `api_keys`
because an update that keeps a stale value is already seen in the expiry date, of which there are two.
In `console` one asset suffices, since what is compared are sets of items (the empty one and that of the
asset), and two versions let the page run one while another is approved; others make a call only while
no call is in progress that the tab does not wait for (`MaxOthers`), since two calls that both escape
the tab are what `governance` has, and the theorems are of any number of them. In `sign_in` two requests are a
logout and a request of the same session that overtakes it, or two logins; two organizations are the one
a token has been ended in and one it has not.

A set of clients, rows, targets or browsers is declared symmetric only in runs without liveness
properties; clients are not interchangeable in `governance` (they have different roles), only assets
and versions are. In `organization` the two users of one address are exchanged together with their
tokens.

**Deadlock** is checked in `scan_overlap`, `governance`, `console`, `asset_inventory`, `organization`,
`api_keys`, `key_desk` and `sign_in`. Elsewhere `CHECK_DEADLOCK FALSE`: a scan that has ended, with its
actors at rest and no operator to send another request, really is an end of the system.

## 4. Where code and documentation differ, and where a promise has an exception

One divergence is a run whose counterexample is a behaviour of the code. **A scan is wedged in
PENDING** (`scan_wedged`, `scanner/app/executor.py:92`): when the RUNNING patch is lost the FAILED
write-back comes from PENDING, where the table refuses it. The comment at `executor.py:56` promises the
opposite.

The models contain the following behaviours too. Each is why a property is stated as it is.

| behaviour of the code | where | what still holds |
|---|---|---|
| Two RUNNING patches read PENDING; one execution completes the scan, then the other patch commits: a final status is overwritten | `portal/src/lib/scan/service.ts:77` | the row implements `ScanRow`, which has the overwriting; the last write is a final status (`SettlesTerminal`) |
| The handler commits ENQUEUED after it has published the tasks, over what they have done by then | `scanner/app/api/routes.py:355` | nothing reopens a completed scan once the handler has returned (`FinalIsFinal`); every dispatched scan gets a result (`Finalizes`) |
| Without a broker the tasks run in one web process, and one that raises ends the ones after it | `scanner/app/api/routes.py:53` | the safety properties; `Finalizes` is stated for the broker |
| A submission that read draft commits after an approval: the version goes back to submitted | `portal/src/lib/scope/service.ts:68` | gates rest on audited approvals (`BackedByApproval`, `LinkCovers`); it takes a forsaken submission (`ApprovalStands`) |
| A verification looks at the asset, a retirement commits, the verification commits: the asset is active again | `portal/src/lib/assets/verification.ts:80` | it has been proven (`ActiveIsProven`) and is no duplicate (`UniqueLive`) |
| Two changes of memberships both count two owners, and none is left | `portal/src/lib/org/team.ts:55` | `OwnerUnlessOverlapped` |
| A request records its session after a removal has read the sessions to revoke | `portal/src/lib/org/team.ts:79` | only then (`SweptUnlessLate`); such a request has resolved its context before, and the next one finds no membership |
| A revoked key is rotated, or a key twice: two live keys, or one after a revocation | `portal/src/lib/auth/api-keys.ts:160` | only then (`OneLiveKey`); from the table only in haste (`TangledInHaste`) |
| An update writes back every column as it read it | `portal/src/lib/auth/api-keys.ts:132` | only overlapping changes are undone (`KeptAsAsked`) |
| The key form shows no raw key: the page passes it no `onCreated` | `portal/src/app/(dashboard)/api-keys/page.tsx:26` | - |
| The wizard counts a test as answered whatever its status | `portal/src/app/onboarding/page.tsx:149` | its steps are in order (`WizardInOrder`) |
| A logout of a user without an active membership revokes nothing: its token has no row, or an old one, and works once an invitation is accepted | `portal/src/app/api/auth/logout/route.ts:23` | a logout that gets a context, and meets no failure, ends the token in its organization (`LogoutEnds`) |
| Sessions are rows of one organization: a token that was ended in one is admitted in another, when its user comes to belong to that one | `portal/src/lib/org/sessions.ts:43` | the same |
| The answer of a logout clears a cookie that a newer login has set | `portal/src/app/api/auth/logout/route.ts` | the cookie is the browser's own or absent (`CookieIsOwn`) |

## 5. Theorems

The proofs are of the specifications the runs check, for any constants that satisfy the assumptions
of the modules (any numbers of dispatches, operators, targets, deliveries, assets, versions, scans and
clients; any set of faults unless stated).

**ScanLifecycleProofs.** The inductive invariant `Inv` joins `TypeOK` with

* `OpenInv`: an open transition was legal from the status it read, a final status is only requested of
  a scan that has left PENDING, and the findings an open ingestion saw are still there;
* `OrderInv`: the requests of an execution are sent in the order of its steps, each only after the one
  before was answered "done";
* `ReplyInv`: a request answered "done" has its audit event, or its findings stored, and vice versa;
* `RowInv`: the row has left PENDING once any event is recorded, and a final status is dated.

`CompletedHasFindings` is not inductive: it needs to know that no COMPLETED patch is on its way
before the findings are stored. From `Inv`: `CompletedHasFindingsHolds`, `DoneIsRecordedHolds`,
`FindingsOfStartedOnlyHolds`, `StartsWithRunningHolds` (an action property), `RowRefinementHolds`
(every step is a step of `ScanRow` or a stutter). `StatusIsAuditedHolds` adds the audit trail: the
status of a row is the one some audited transition gave it, and a COMPLETED row is so on an operator's
word or has all the findings of an execution.

`ScanRow` allows a final status to be overwritten, because the code does (section 4). Two theorems say
what it takes. `MovesAsListedHolds`: as long as at most one transition is between its read and its write
(`OneTransition`), what it has read is still true (`SeenHolds`), so the status moves along
`VALID_TRANSITIONS` and each event names the status that was left and the one that was set.
`SerialMovesAsListed`: `OneTransition` need not be assumed of a scan that is dispatched once, with no
request by hand and no lost or late reply (`Serial`), whatever expires, is rolled back, fails or crashes,
because such an execution has one request underway at a time (`OneRequest`, from `OrderInv`). Each
conjunct of `Serial` is needed: with a second dispatch, with one operator, or with "loss" (the client
gives up on a COMPLETED patch that commits after its FAILED patch has passed the guard), two transitions
overlap, and TLC finds a final status overwritten on instances with one target.

**ScannerWorkerProofs.** `FinalizedByLastHolds`: assuming no transaction fails and no task is killed,
when all targets are terminal and no execution is live there is a result. Its invariant `WorkerInv`
is `SomeoneChecks` (when all targets are terminal and there is no result, some live execution has
still to look at the targets) with `ResultKept` (a result is never taken back to null).
`ResultSoundHolds` and `FinalIsFinalHolds` hold under any faults when each target has one delivery
(`OnceOnly`): a verdict is computed when every target is terminal, and then no execution of another
target stores anything any more (`OnceInv`, `VerdictInv`). Redelivery breaks both: the code accepts
that a second execution reopens the scan, which the runs' choice of `Executions` reflects.

**ReportGateProofs.** `Inv` says what an open transaction may still rely on when it commits: rows
exist for good, items and targets never change, and an approval stays in `approvals` although the
version's status may go back (section 4). `RowInv` ties approved versions to audited approvals and
reports to scans; `TxInv` says that the assets a scan's gate has passed are backed, that a link a build
has resolved covers its scan, and that a report an attestation read as submitted still is, or is
attested. From it follow `BackedByApprovalHolds`, `LinkCoversHolds` and `AttestationAgreesHolds` for
any number of clients. With `OneBuilder` (at most one client builds reports), `GateInv` adds `SoleInv`
(a link read as null by a build is still null, a link read by an attestation is still the report's) and
gives `AttestedIsBackedHolds` and `KeepsPromiseHolds`, the refinement of `ReportPromise`.

`NumbersDense` has an invariant of its own, `NumberInv`: the numbers of a set fill an initial segment
(`Filled`), and a creation in progress is about to insert 1 or a successor of a number in the set
(`Follows`). Neither is taken back, as rows stay with their numbers; the unique index refuses a number
that is in use, so the only insert that goes through extends the segment. `DenseWhenFilled` turns the
segment into the statement about cardinalities.

What an approval is worth while nothing overlaps is the subject of two more
theorems. `OneDecision` says that of the submissions and approvals in progress no two are of one
version (other calls overlap as they like). Then what a decision has read is still so when it commits
(`DecisionsFit`), a version only goes from draft to submitted to approved (`VersionsForwardHolds`), and
the status the gates read is what the audit trail says (`AuditIsCurrentHolds`): the exception in section
4, a version that goes back to submitted, takes exactly such an overlap.

**AssetRegistryProofs.** `UniqueLive`, `AnswersAgree` and the steps of `Inventory` follow from the
guards and the indexes once the rows are known to stay (`RowInv`: an asset has an identifier exactly
from its creation on, a proof and a challenge have a row). `ActiveIsProven` and `ImportAccounts` need
`TxInv`: the challenge a call is about to insert is new and no other call inserts it, the challenge a
call verifies was issued for its asset and, once passed, is the token presented, and the rows an import
has accounted for so far have assets. `RowsOk` (a row that is being inserted is well-formed) is needed
already for the types. All theorems hold for any number of clients, assets, keys and any files.

**ConsoleProofs.** The invariant follows a call from the button to the commit. `Sole`: a version whose
submissions were all waited for has at most one on the way. So it finds a draft (`TxOk`), and the status
of a version that is not forsaken only goes forward. `PageInv` and `CallOk`: what the scanners page
lists is approved, and what a call carries are the items of an approved version, which do not change.
From it `ApprovalStandsHolds` and `RunsApprovedScopeHolds`, in prod and outside.

`ConsoleUsesTheService` is a refinement: the two pages with their calls implement `ReportGate` with no
builder and no staff, i.e. the scope service as `ReportGateProofs` knows it, when authorizations are
hidden (`Governing` shows an open authorization as `Idle`). Clicks, answers, losses and refreshes change
nothing of it, a call that is served is one of its transactions. So what is proved there of versions,
their numbers and the prod gate holds behind the pages too.

**OrganizationProofs.** `TxsFit` says what each request has read that nobody takes back: a revoked
session stays revoked, an accepted invitation keeps its offer, the live sessions of a member who is
being removed are found or late. `Owned`: as long as no two changes overlapped there is an owner, at most
one change in progress, and it spares an owner (`Spares`). The count of the guard, a cardinality, is
turned into a second owner by `AnotherOwner`; `Users` is assumed to be finite. `OwnerRemains` replaces the
history variable by a condition on the requests themselves: if at most one change of memberships is in
progress (`OneChange`), there is always an owner. `SweptWhenApart` does the same for sessions: if no
request of a user is between its context and its record while a removal of that same user has read the
sessions to revoke and not committed (`SweepsApart`), nobody but a member has a live session. Requests of
the user may overlap the rest of the removal, and those of others all of it; a session that is about to
be recorded is then a member's (`Resolved`), so none is late.

**ApiKeysProofs.** `Lineages`: a lineage is named by a row that exists, so a new row opens a fresh one.
`TxsHold`: what a request read of its row is still there unless the lineage is tangled, and `Alone`: two
requests at one lineage make it tangled. From these `OneLiveKeyHolds` and `KeptAsAskedHolds`.

The second half is about `KeyDesk`. Its invariant `DeskInv` joins the types, `Inv` (a step of the tab is a
step of the service or leaves the keys alone, `KeysStep`), and

* `ListedInv`: the list is of rows that exist, though they may have changed (`RowsRemain`: none goes away);
* `CallsFit`: the key that a call on its way is to change is still live, unless its lineage is hasty;
* `TxsFit`: an open transaction is of such a call and of its key, or of a program elsewhere, which makes
  the lineage hasty;
* `Sole`: two calls on their way to one lineage make it hasty;
* `WizardInOrder`, which is inductive with the types.

`TangledInHaste` alone is not inductive: that a commit does not tangle a lineage takes `Sole`, and that
a key is live when its rotation is served takes `CallsFit`. `DeskInvariance` proves the conjunction,
`TangledInHasteHolds`, `WizardInOrderHolds` and `DeskTypeCorrect` are its parts. `UnhurriedHolds` joins
both halves: the exception of `OneLiveKey` and `KeptAsAsked`, a tangled lineage, becomes one that a
reader of the pages can see, a click made in haste. `DeskUsesTheKeys` says that `KeyDesk` implements
`ApiKeys` with every non-empty set of scopes and every expiry admitted (`Wide`): a call that is sent,
served, answered, given up or lost changes a key as one request of the service does, or not at all.

**SignInProofs.** What a cookie or a request holds stays true of the login it names (`Fits`): it was
started by that browser, its token has been issued, its row recorded in the organization of the request
(a logout that met no failure has written it itself). `Keeps` states that no step takes
such a fact back, so a step is looked at only for the cookie or the request it writes. `CodesFit` (a
token comes of a code, which is redeemed once) keeps an expired token from coming back. From these
`CookieIsOwnHolds` and `LogoutEndsHolds`, for any numbers of browsers, logins, organizations and requests,
with memberships that come and go between any two of them.

Proved and in no run: the type invariants of `SignIn` and `ApiKeys`, that PENDING is only left by
RUNNING (`StartsWithRunningHolds`), `StatusIsAudited`, `Unhurried`, the refinements
`ConsoleUsesTheService` and `DeskUsesTheKeys`, and what holds while requests do not overlap:
`MovesAsListed`, `AuditIsCurrent`, `VersionsForward`, `OwnerRemains`, `SweptWhenApart`. These last are
stated in the proof modules. They have a hypothesis, that certain transactions do not overlap, which the
code does not enforce: they do not promise it, they say that nothing else is needed, and so locate what is
lost for want of a lock or of a condition in an update.

**Only model-checked.** Liveness (`SettlesTerminal`, `ExecutionEnds`, `Finalizes`) is outside the
prover's reach, as is everything that needs ENABLED, induction over data, and RECURSIVE operators (there
are none here). Every invariant of every run, and every refinement and action property, is a theorem.

## 6. Fairness

`scan_live`, `scan_wedged`: weak fairness of the portal's handling of each request it has received
(a web server works on every request; a transaction commits or times out) and of each execution's
next step (the handler is ordinary code, and each of its requests has a timeout). Users, dispatches
and failures are never obliged to act. `worker_redelivered`: weak fairness of the handler and of each
execution (a worker process keeps running; the broker delivers what is queued); no fairness for
failures. Weak fairness is enough as no step is disabled by another actor for good and enabled again
and again. The other runs ask for no liveness and assume no fairness: pages, users, browsers and
callers may stop at any time.

## 7. What is not modelled

* **Disputes.** `moderateDispute` is the read, check and blind write of `submitScopeVersion` on a row
  that nothing else writes and no gate reads; a model would repeat `ScopeControl`.
* **The quarterly sweep.** It enqueues the tasks `ScannerWorker` has; whether it is late is measured in
  quarters of a calendar no module here has.
* **Evidence store, report files.** Blobs under fresh names, a log that is appended by reading and
  writing it, PDF layout.
* **Scoring.** Pure functions over text (version strings, product names, feed files), whose input is
  their difficulty; to the other parts a probe yields findings or fails.
* **Signatures, hashes, canonical JSON, tokens.** A manifest is live or expired, a frozen set of items is
  itself, a token is the login or the challenge it was issued for, a raw key is its row.
* **Tenancy.** Every model but `SignIn` is of one organization; the row-level policies are not exercised.
* **The connection pool.** A nested transaction that waits for a connection can only time out, which
  `Rollback` covers.
* **Parsing of import files and normalization of identifiers.** The import normalizes each row twice (to
  find repetitions, and in `createAsset`); the model takes the second to change nothing.
* **Operations that no decision reads.** `updateAsset` (display columns), `previewImport`, an
  organization's profile, the summary of a report, paging of the audit trail, the remaining audit events.
* **Configuration guards.** Checks of environment variables at start-up, with nothing to interleave with.
* **OpenAPI document, playground, the other pages.** A static description, a form that sends one request,
  lists; the compliance, SIEM and WAF pages have no service behind them.
* **Connectors, feed updates, deployment.** Network probes, scripts run by hand or by a timer.
* A target that cannot be reached is skipped, and a scan without findings passes: this is by design
  of the code, no document says otherwise, and no property here contradicts it.

## 8. What could be added

The normalization of identifiers as an operator with its idempotence, on which the import relies; and,
once a route calls `buildReport`, the serialization of builds that would let `OneBuilder` be dropped.
