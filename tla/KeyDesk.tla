-------------------------------- MODULE KeyDesk --------------------------------
(***************************************************************************)
(* A browser tab on the two pages that work on API keys: the key table     *)
(* with its form, and the onboarding wizard, which creates a key and tries *)
(* it.  Requests of other programs and tabs come beside those of the tab;  *)
(* their updates, and time, change nothing that these pages go by.         *)
(*                                                                         *)
(* The table shows a list as of some earlier refresh, and enables its      *)
(* buttons by that list and by the calls it waits for.  An answer may be   *)
(* lost: the page then behaves as after a failure, while the call goes on. *)
(* Going to a page forgets the state of the other, and what it waited for. *)
(***************************************************************************)
EXTENDS ApiKeys, Sequences

CONSTANT NoKey  \* null

ASSUME KeyDeskAssumption == NoKey \notin Keys

VARIABLES page,       \* the page the tab is on
          call,       \* the call of a page that a client carries
          listed,     \* what the table shows of each row
          refreshing, \* router.refresh() was called
          rotating, deleting,  \* the row whose button is disabled
          dialog,     \* the key the rotate dialog shows
          form,       \* of the creation form: closed or open
          step, completed,     \* of the wizard: its position, what it ticked off
          created, apiKey,     \* the key it shows, the key it goes on with
          response,   \* to its test request: none, accepted, refused
          \* History.
          hasty       \* lineages clicked on while the list was behind or
                      \* another call was at them, or changed by others

table == <<listed, refreshing, rotating, deleting, dialog, form>>
wizard == <<step, completed, created, apiKey, response>>
vars == <<keyVars, page, call, table, wizard, hasty>>

-----------------------------------------------------------------------------
Steps == <<"key", "first-call", "webhook", "production">>
NoCall == [from |-> "nobody", op |-> "none", stage |-> "none", k |-> NoKey]

Calls ==
    {NoCall}
    \cup [from : {"table", "nobody"}, op : {"rotate", "revoke"},
          stage : {"sent", "done", "failed"}, k : Keys]
    \cup [from : {"form", "wizard", "nobody"}, op : {"create"},
          stage : {"sent"}, k : {NoKey}, scopes : Scopes, expiry : Nat]
    \cup [from : {"form", "wizard"}, op : {"create"},
          stage : {"done", "failed"}, k : Keys \cup {NoKey}]
    \cup [from : {"wizard"}, op : {"test"},
          stage : {"sent", "done", "failed"}, k : Keys]

TypeOK ==
    /\ KeysTypeOK
    /\ page \in {"keys", "onboarding"}
    /\ call \in [Clients -> Calls]
    /\ listed \in [Keys -> Statuses]
    /\ refreshing \in {"no", "yes"}
    /\ {rotating, deleting, dialog, created, apiKey} \subseteq Keys \cup {NoKey}
    /\ form \in {"closed", "open"}
    /\ step \in DOMAIN Steps
    /\ completed \subseteq {Steps[i] : i \in DOMAIN Steps}
    /\ response \in {"none", "accepted", "refused"}
    /\ hasty \subseteq Keys

Init ==
    /\ KeysInit
    /\ page = "keys"
    /\ call = [c \in Clients |-> NoCall]
    /\ listed = [k \in Keys |-> "none"]
    /\ refreshing = "no"
    /\ rotating = NoKey /\ deleting = NoKey /\ dialog = NoKey
    /\ form = "closed"
    /\ step = 1 /\ completed = {}
    /\ created = NoKey /\ apiKey = NoKey
    /\ response = "none"
    /\ hasty = {}

-----------------------------------------------------------------------------
(* Calls.                                                                  *)

Send(c, request) ==
    /\ call[c] = NoCall /\ tx[c] = Idle
    /\ call' = [call EXCEPT ![c] = request]

Waits(from, op) == \E c \in Clients : call[c].from = from /\ call[c].op = op

Sent(c, op) == call[c].op = op /\ call[c].stage = "sent"

\* The service has answered, with the key k.
Reply(c, stage, k) ==
    call' = [call EXCEPT ![c] =
                IF call[c].from = "nobody" THEN NoCall
                ELSE [from |-> call[c].from, op |-> call[c].op, stage |-> stage, k |-> k]]

\* What becomes of a call when nobody waits for it any more: it is served if it
\* would change something.
Forsaken(r) ==
    IF r.stage = "sent" /\ r.op # "test" THEN [r EXCEPT !.from = "nobody"] ELSE NoCall

ServeCreate(c, n) ==
    /\ Sent(c, "create")
    /\ Create(n, call[c].scopes, call[c].expiry)
    /\ Reply(c, "done", n)

ServeRevoke(c) ==
    /\ Sent(c, "revoke")
    /\ Revoke(call[c].k)
    /\ Reply(c, "done", call[c].k)

ServeRotate(c) ==
    /\ Sent(c, "rotate")
    /\ OpenRotate(c, call[c].k)
    /\ UNCHANGED call

FinishRotate(c, n) ==
    /\ Sent(c, "rotate")
    /\ CommitRotate(c, n)
    /\ Reply(c, "done", n)

\* The answer of the proxy has a body either way, and a status.
ServeTest(c) ==
    /\ Sent(c, "test")
    /\ Reply(c, IF Admits(call[c].k, "scans") THEN "done" ELSE "failed", call[c].k)
    /\ UNCHANGED keyVars

\* A guard, the database or the network refuses the call.
ServeNot(c) ==
    /\ call[c].stage = "sent"
    /\ Reply(c, "failed", call[c].k)
    /\ \/ Rollback(c)
       \/ tx[c] = Idle /\ UNCHANGED keyVars

Serve(c) ==
    /\ \/ \E n \in Keys : ServeCreate(c, n) \/ FinishRotate(c, n)
       \/ ServeRevoke(c) \/ ServeRotate(c) \/ ServeTest(c) \/ ServeNot(c)
    /\ UNCHANGED <<table, wizard, hasty>>

\* Requests that are not of these pages, and hand their answers to their callers.
Elsewhere(c) ==
    /\ call[c] = NoCall
    /\ \/ \E k \in Keys : (OpenRotate(c, k) \/ Revoke(k)) /\ hasty' = hasty \cup {origin[k]}
       \/ ((\E n \in Keys : CommitRotate(c, n)) \/ Rollback(c)) /\ UNCHANGED hasty
    /\ UNCHANGED <<call, table, wizard>>

-----------------------------------------------------------------------------
(* The table and its form.                                                 *)

\* All keys of the organization, revoked ones too.
ListApiKeys == status

\* Some row of the lineage of k is not as the list shows it.
Behind(k) == \E j \in Keys : origin[j] = origin[k] /\ listed[j] # status[j]

Beside(c, k) ==
    \E d \in Clients \ {c} :
        \/ call[d].k \in Keys /\ origin[call[d].k] = origin[k]
        \/ tx[d] # Idle /\ origin[tx[d].k] = origin[k]

NoteHaste(c, k) ==
    hasty' = IF Behind(k) \/ Beside(c, k) THEN hasty \cup {origin[k]} ELSE hasty

\* The dialogs cover the page.
Uncovered == page = "keys" /\ dialog = NoKey /\ form = "closed"

\* Mutant: the button of a revoked key is not disabled.
ClickRotateAny(c, k) ==
    /\ Uncovered
    /\ listed[k] # "none" /\ rotating # k
    /\ rotating' = k
    /\ Send(c, [from |-> "table", op |-> "rotate", stage |-> "sent", k |-> k])
    /\ NoteHaste(c, k)
    /\ UNCHANGED <<keyVars, listed, refreshing, deleting, dialog, form, wizard>>

ClickRotate(c, k) ==
    /\ Uncovered
    /\ listed[k] = "live" /\ rotating # k
    /\ rotating' = k
    /\ Send(c, [from |-> "table", op |-> "rotate", stage |-> "sent", k |-> k])
    /\ NoteHaste(c, k)
    /\ UNCHANGED <<keyVars, listed, refreshing, deleting, dialog, form, wizard>>

ClickRevoke(c, k) ==
    /\ Uncovered
    /\ listed[k] = "live" /\ deleting # k
    /\ deleting' = k
    /\ Send(c, [from |-> "table", op |-> "revoke", stage |-> "sent", k |-> k])
    /\ NoteHaste(c, k)
    /\ UNCHANGED <<keyVars, listed, refreshing, rotating, dialog, form, wizard>>

\* The new raw key is shown; a dialog that is open shows it instead of its own.
RotateAnswered(c) ==
    /\ call[c].from = "table" /\ call[c].op = "rotate"
    /\ rotating' = NoKey
    /\ \/ /\ call[c].stage = "done"
          /\ dialog' = call[c].k /\ refreshing' = "yes"
       \/ call[c].stage = "failed" /\ UNCHANGED <<dialog, refreshing>>
    /\ UNCHANGED <<listed, deleting, form, wizard>>

RevokeAnswered(c) ==
    /\ call[c].from = "table" /\ call[c].op = "revoke"
    /\ deleting' = NoKey
    /\ refreshing' = IF call[c].stage = "done" THEN "yes" ELSE refreshing
    /\ UNCHANGED <<listed, rotating, dialog, form, wizard>>

\* What is sent for the chosen scopes.
Posted(chosen) == IF "admin" \in chosen THEN {"admin"} ELSE chosen

SubmitForm(c, chosen, e) ==
    /\ form = "open" /\ dialog = NoKey /\ ~ Waits("form", "create")
    /\ Send(c, [from |-> "form", op |-> "create", stage |-> "sent", k |-> NoKey,
                scopes |-> Posted(chosen), expiry |-> e])
    /\ UNCHANGED <<keyVars, table, wizard, hasty>>

\* The page gives the form no onCreated: nothing shows the raw key.
FormAnswered(c) ==
    /\ call[c].from = "form"
    /\ \/ call[c].stage = "done" /\ form' = "closed" /\ refreshing' = "yes"
       \/ call[c].stage = "failed" /\ UNCHANGED <<form, refreshing>>
    /\ UNCHANGED <<listed, rotating, deleting, dialog, wizard>>

\* Opens the form, cancels it, or dismisses the dialog.
Click ==
    /\ \/ Uncovered /\ form' = "open" /\ UNCHANGED dialog
       \/ form = "open" /\ dialog = NoKey /\ form' = "closed" /\ UNCHANGED dialog
       \/ dialog # NoKey /\ dialog' = NoKey /\ UNCHANGED form
    /\ UNCHANGED <<keyVars, call, listed, refreshing, rotating, deleting, wizard, hasty>>

\* The server renders the page again; its other state stays.
Refresh ==
    /\ refreshing = "yes"
    /\ listed' = ListApiKeys
    /\ refreshing' = "no"
    /\ UNCHANGED <<keyVars, call, rotating, deleting, dialog, form, wizard, hasty>>

-----------------------------------------------------------------------------
(* The wizard.                                                             *)

WizardScopes == {"read:scans", "read:waf", "read:siem", "read:compliance"}

WizardCreate(c) ==
    /\ page = "onboarding"
    /\ step = 1 /\ created = NoKey /\ ~ Waits("wizard", "create")
    /\ Send(c, [from |-> "wizard", op |-> "create", stage |-> "sent", k |-> NoKey,
                scopes |-> WizardScopes, expiry |-> Never])
    /\ UNCHANGED <<keyVars, table, wizard, hasty>>

WizardTest(c) ==
    /\ step = 2 /\ ~ Waits("wizard", "test")
    /\ Send(c, [from |-> "wizard", op |-> "test", stage |-> "sent", k |-> apiKey])
    /\ UNCHANGED <<keyVars, table, wizard, hasty>>

\* A test counts as answered whatever its status is.
WizardAnswered(c) ==
    /\ call[c].from = "wizard"
    /\ created' = IF call[c].op = "create" /\ call[c].stage = "done" THEN call[c].k ELSE created
    /\ response' = IF call[c].op = "test"
                   THEN (IF call[c].stage = "done" THEN "accepted" ELSE "refused")
                   ELSE response
    /\ UNCHANGED <<table, step, completed, apiKey>>

\* Mutant: there is a step after the last.
MarkCompletePast ==
    /\ completed' = completed \cup {Steps[step]}
    /\ step' = step + 1

\* markComplete.
MarkComplete ==
    /\ completed' = completed \cup {Steps[step]}
    /\ step' = IF step < Len(Steps) THEN step + 1 ELSE step

\* The calls a component of the wizard waited for when it was unmounted.
Unmount(op) ==
    call' = [c \in Clients |->
                IF call[c].from = "wizard" /\ call[c].op = op
                THEN Forsaken(call[c]) ELSE call[c]]

\* The steps that send nothing, and whose checklist holds nobody back.
FreeSteps == {"webhook", "production"}

Continue ==
    /\ page = "onboarding"
    /\ \/ step = 1 /\ created # NoKey /\ apiKey' = created /\ created' = NoKey
       \/ step = 2 /\ response # "none" /\ UNCHANGED <<apiKey, created>>
       \/ Steps[step] \in FreeSteps /\ UNCHANGED <<apiKey, created>>
    /\ MarkComplete
    /\ response' = "none"
    /\ Unmount("test")
    /\ UNCHANGED <<keyVars, table, hasty>>

\* Mutant: what was ticked off stays so.
ResetPosition ==
    /\ page = "onboarding"
    /\ apiKey' = NoKey /\ step' = 1
    /\ response' = "none"
    /\ Unmount("test")
    /\ UNCHANGED <<keyVars, table, completed, created, hasty>>

\* The first step, when it is already shown, is not mounted again and keeps
\* the key it shows.
Reset ==
    /\ page = "onboarding"
    /\ apiKey' = NoKey /\ completed' = {} /\ step' = 1
    /\ response' = "none"
    /\ Unmount("test")
    /\ UNCHANGED <<keyVars, table, created, hasty>>

-----------------------------------------------------------------------------
\* A page is opened, or loaded anew.
Visit(p) ==
    /\ page' = p
    /\ listed' = IF p = "keys" THEN ListApiKeys ELSE [k \in Keys |-> "none"]
    /\ refreshing' = "no"
    /\ rotating' = NoKey /\ deleting' = NoKey /\ dialog' = NoKey
    /\ form' = "closed"
    /\ step' = 1 /\ completed' = {}
    /\ created' = NoKey /\ apiKey' = NoKey
    /\ response' = "none"
    /\ call' = [c \in Clients |-> Forsaken(call[c])]
    /\ UNCHANGED <<keyVars, hasty>>

\* The page that waits for the call hears of it.
Answer(c) ==
    /\ call[c].stage \in {"done", "failed"}
    /\ call' = [call EXCEPT ![c] = NoCall]
    /\ \/ RotateAnswered(c) \/ RevokeAnswered(c) \/ FormAnswered(c) \/ WizardAnswered(c)
    /\ UNCHANGED <<keyVars, hasty>>

\* The connection breaks; the page that waits reports a failure.
Lose(c) ==
    /\ call[c].from # "nobody"
    /\ call' = [call EXCEPT ![c] = Forsaken(call[c])]
    /\ rotating' = IF call[c].from = "table" /\ call[c].op = "rotate" THEN NoKey ELSE rotating
    /\ deleting' = IF call[c].from = "table" /\ call[c].op = "revoke" THEN NoKey ELSE deleting
    /\ UNCHANGED <<keyVars, listed, refreshing, dialog, form, wizard, hasty>>

Table ==
    \/ \E c \in Clients, k \in Keys : ClickRotate(c, k) \/ ClickRevoke(c, k)
    \/ \E c \in Clients, chosen \in Grants, e \in Expiries : SubmitForm(c, chosen, e)
    \/ Click \/ Refresh

Wizard ==
    \/ \E c \in Clients : WizardCreate(c) \/ WizardTest(c)
    \/ Continue
    \/ Reset

Next ==
    \/ \E p \in {"keys", "onboarding"} : Visit(p)
    \/ (Table \/ Wizard) /\ UNCHANGED page
    \/ \E c \in Clients : (Serve(c) \/ Answer(c) \/ Lose(c) \/ Elsewhere(c)) /\ UNCHANGED page

Spec == Init /\ [][Next]_vars

-----------------------------------------------------------------------------
(* The table keeps its user from rotating a key twice: a lineage that this *)
(* browser tangles was clicked on while the list was behind, or beside     *)
(* another call.  Only one row at a time has its button disabled, and the  *)
(* list is behind from an answer until its refresh, so haste is possible.  *)
TangledInHaste == tangled \subseteq hasty

(* The wizard has ticked off the steps before the one it is on, and at the *)
(* end also the last, and it has a key to go on with exactly when it is    *)
(* past the first, whenever it is reset and whatever it waits for then.    *)
WizardInOrder ==
    /\ \/ completed = {Steps[i] : i \in 1 .. step - 1}
       \/ step = Len(Steps) /\ completed = {Steps[i] : i \in 1 .. step}
    /\ step > 1 <=> apiKey # NoKey
================================================================================
