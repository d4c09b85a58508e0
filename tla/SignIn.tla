-------------------------------- MODULE SignIn --------------------------------
(***************************************************************************)
(* Signing in with Keycloak's authorization code flow, and signing out.    *)
(*                                                                         *)
(* A browser keeps two cookies, the state of the login it started last and *)
(* the session token.  A request carries the cookies as they are when it   *)
(* is sent; its answer sets or clears them when it arrives, which may be   *)
(* late, in another order or never.  Every login has a state, a code that  *)
(* Keycloak accepts once, and a token; all three are named by the login.   *)
(*                                                                         *)
(* A request is authenticated for the organization its user belongs to at  *)
(* that moment.  Memberships come and go (module Organization), so that    *)
(* each request may find any organization, or none.  The session registry  *)
(* has one row for a token in every organization that has seen it.         *)
(***************************************************************************)
CONSTANTS Browsers,
          Logins,    \* the states newOAuthState may return
          Orgs,      \* the organizations
          Requests,  \* the requests that may be in progress together
          None       \* no cookie, no organization

ASSUME SignInAssumption == None \notin Logins \cup Browsers \cup Orgs

VARIABLES state, session,  \* the cookies of each browser
          code, token,     \* Keycloak's side of each login
          row,             \* the Session rows of each token
          req,             \* the requests
          \* History.
          starter,         \* the browser that started each login
          ended            \* of each token, where a logout met no failure

cookies == <<state, session>>
keycloak == <<code, token>>
vars == <<cookies, keycloak, row, req, starter, ended>>

-----------------------------------------------------------------------------
Idle == [op |-> "idle"]

\* A request of a browser: the login whose state or token it carries, the
\* organization it was authenticated for, whether the registry failed it.
InFlight ==
    [op : {"login"}, stage : {"answered"},
     b : Browsers, l : Logins, o : {None}, met : {"nothing"}]
    \cup [op : {"callback"}, stage : {"exchange", "provision", "answered"},
          b : Browsers, l : Logins, o : {None}, met : {"nothing"}]
    \cup [op : {"page", "logout"}, stage : {"resolve"},
          b : Browsers, l : Logins, o : {None}, met : {"nothing"}]
    \cup [op : {"page", "logout"}, stage : {"check", "record"},
          b : Browsers, l : Logins, o : Orgs, met : {"nothing"}]
    \cup [op : {"logout"}, stage : {"find", "revoke"},
          b : Browsers, l : Logins, o : Orgs, met : {"nothing", "failure"}]
    \cup [op : {"logout"}, stage : {"answered"},
          b : Browsers, l : {None}, o : {None}, met : {"nothing"}]

TypeOK ==
    /\ state \in [Browsers -> Logins \cup {None}]
    /\ session \in [Browsers -> Logins \cup {None}]
    /\ code \in [Logins -> {"none", "issued", "used"}]
    /\ token \in [Logins -> {"none", "valid", "expired"}]
    /\ row \in [Logins -> [Orgs -> {"none", "live", "revoked"}]]
    /\ req \in [Requests -> {Idle} \cup InFlight]
    /\ starter \in [Logins -> Browsers \cup {None}]
    /\ ended \in [Logins -> SUBSET Orgs]

Init ==
    /\ state = [b \in Browsers |-> None]
    /\ session = [b \in Browsers |-> None]
    /\ code = [l \in Logins |-> "none"]
    /\ token = [l \in Logins |-> "none"]
    /\ row = [l \in Logins |-> [o \in Orgs |-> "none"]]
    /\ req = [r \in Requests |-> Idle]
    /\ starter = [l \in Logins |-> None]
    /\ ended = [l \in Logins |-> {}]

-----------------------------------------------------------------------------
Continue(r, op, stage, b, l, o, met) ==
    req' = [req EXCEPT ![r] = [op |-> op, stage |-> stage, b |-> b, l |-> l, o |-> o, met |-> met]]

Send(r, op, stage, b, l) ==
    /\ req[r] = Idle
    /\ Continue(r, op, stage, b, l, None, "nothing")

At(r, op, stage) == req[r].op = op /\ req[r].stage = stage

Go(r, stage, o, met) == Continue(r, req[r].op, stage, req[r].b, req[r].l, o, met)

End(r) == req' = [req EXCEPT ![r] = Idle]

-----------------------------------------------------------------------------
(* Signing in.                                                             *)

\* GET /api/auth/login answers with a new state and sends the browser away.
Login(r, b, l) ==
    /\ starter[l] = None
    /\ Send(r, "login", "answered", b, l)
    /\ starter' = [starter EXCEPT ![l] = b]
    /\ UNCHANGED <<cookies, keycloak, row, ended>>

\* The state of an earlier login is overwritten.
LoginArrives(r) ==
    /\ At(r, "login", "answered")
    /\ state' = [state EXCEPT ![req[r].b] = req[r].l]
    /\ End(r)
    /\ UNCHANGED <<session, keycloak, row, starter, ended>>

\* The user proves who he is to Keycloak, which redirects with a code.
KeycloakRedirects(l) ==
    /\ starter[l] # None /\ code[l] = "none"
    /\ code' = [code EXCEPT ![l] = "issued"]
    /\ UNCHANGED <<cookies, token, row, req, starter, ended>>

\* Mutant: a state cookie has to be there, whichever it is.
CallbackAnyState(r, b, l) ==
    /\ code[l] # "none"
    /\ state[b] # None
    /\ Send(r, "callback", "exchange", b, l)
    /\ UNCHANGED <<cookies, keycloak, row, starter, ended>>

\* The redirect is followed: at once, again by a reload, or in another browser
\* by a copied address.  Any other state is refused and changes nothing.
Callback(r, b, l) ==
    /\ code[l] # "none"
    /\ state[b] = l
    /\ Send(r, "callback", "exchange", b, l)
    /\ UNCHANGED <<cookies, keycloak, row, starter, ended>>

\* Keycloak redeems a code once.  If its answer is lost, the token is too.
Exchange(r) ==
    /\ At(r, "callback", "exchange")
    /\ code[req[r].l] = "issued"
    /\ code' = [code EXCEPT ![req[r].l] = "used"]
    /\ token' = [token EXCEPT ![req[r].l] = "valid"]
    /\ Go(r, "provision", None, "nothing") \/ End(r)
    /\ UNCHANGED <<cookies, row, starter, ended>>

\* provisionUserFromToken: the token is verified and its user is there.
Provision(r) ==
    /\ At(r, "callback", "provision")
    /\ token[req[r].l] = "valid"
    /\ Go(r, "answered", None, "nothing")
    /\ UNCHANGED <<cookies, keycloak, row, starter, ended>>

\* 502 or 401: both cookies stay as they are.
CallbackFails(r) ==
    /\ At(r, "callback", "exchange") \/ At(r, "callback", "provision")
    /\ End(r)
    /\ UNCHANGED <<cookies, keycloak, row, starter, ended>>

CallbackArrives(r) ==
    /\ At(r, "callback", "answered")
    /\ session' = [session EXCEPT ![req[r].b] = req[r].l]
    /\ state' = [state EXCEPT ![req[r].b] = None]
    /\ End(r)
    /\ UNCHANGED <<keycloak, row, starter, ended>>

-----------------------------------------------------------------------------
(* Requests with a session, and signing out.                               *)

\* Any page or API call; sessionTokenFromRequest finds the cookie.
Page(r, b) ==
    /\ session[b] # None
    /\ Send(r, "page", "resolve", b, session[b])
    /\ UNCHANGED <<cookies, keycloak, row, starter, ended>>

\* Without a token there is nothing to revoke.
Logout(r, b) ==
    /\ Send(r, "logout", IF session[b] = None THEN "answered" ELSE "resolve", b, session[b])
    /\ UNCHANGED <<cookies, keycloak, row, starter, ended>>

\* The handler is through: what is left of a logout is its answer.
Conclude(r) ==
    \/ req[r].op = "page" /\ End(r)
    \/ req[r].op = "logout" /\ Continue(r, "logout", "answered", req[r].b, None, None, "nothing")

\* The token is revoked in the organization of the request.
Ends(r) ==
    ended' = IF req[r].op = "logout" /\ req[r].met = "nothing"
             THEN [ended EXCEPT ![req[r].l] = @ \cup {req[r].o}]
             ELSE ended

\* verifyToken, provisionUserFromClaims, resolveTenantContext: the organization
\* of the first active membership of the user.
Resolve(r, o) ==
    /\ req[r] # Idle /\ req[r].stage = "resolve"
    /\ token[req[r].l] = "valid"
    /\ Go(r, "check", o, "nothing")
    /\ UNCHANGED <<cookies, keycloak, row, starter, ended>>

\* null: the token is no longer valid or cannot be verified, the user cannot be
\* provisioned, or is not an active member of any organization.  A page answers
\* 401, a logout without having looked for the session.
NoContext(r) ==
    /\ req[r] # Idle /\ req[r].stage = "resolve"
    /\ Conclude(r)
    /\ UNCHANGED <<cookies, keycloak, row, starter, ended>>

Row(r) == row[req[r].l][req[r].o]

\* isSessionBlocked; a revoked session has no context.
Check(r) ==
    /\ req[r] # Idle /\ req[r].stage = "check"
    /\ \/ Row(r) # "revoked" /\ Go(r, "record", req[r].o, "nothing") /\ UNCHANGED ended
       \/ Row(r) = "revoked" /\ Conclude(r) /\ Ends(r)
    /\ UNCHANGED <<cookies, keycloak, row, starter>>

\* The request is admitted: a logout goes on to look its row up.
Admit(r, met) ==
    \/ req[r].op = "page" /\ End(r)
    \/ req[r].op = "logout" /\ Go(r, "find", req[r].o, met)

Write(r, status) == row' = [row EXCEPT ![req[r].l][req[r].o] = status]

\* Mutant: the upsert clears revokedAt.
RecordRevives(r) ==
    /\ req[r] # Idle /\ req[r].stage = "record"
    /\ Write(r, "live")
    /\ Admit(r, "nothing")
    /\ UNCHANGED <<cookies, keycloak, starter, ended>>

\* recordSessionAccess: the upsert leaves revokedAt alone.
Record(r) ==
    /\ req[r] # Idle /\ req[r].stage = "record"
    /\ Write(r, IF Row(r) = "none" THEN "live" ELSE Row(r))
    /\ Admit(r, "nothing")
    /\ UNCHANGED <<cookies, keycloak, starter, ended>>

\* Authentication goes on without the registry; a logout answers without it.
RegistryFails(r) ==
    /\ req[r] # Idle
    /\ \/ req[r].stage \in {"check", "record"} /\ Admit(r, "failure")
       \/ req[r].stage \in {"find", "revoke"} /\ Conclude(r)
    /\ UNCHANGED <<cookies, keycloak, row, starter, ended>>

\* findSessionByTokenHash; without a row there is nothing to revoke, which takes
\* that its record has failed.
Find(r) ==
    /\ At(r, "logout", "find")
    /\ \/ Row(r) = "live" /\ Go(r, "revoke", req[r].o, req[r].met) /\ UNCHANGED ended
       \/ Row(r) # "live" /\ Conclude(r) /\ Ends(r)
    /\ UNCHANGED <<cookies, keycloak, row, starter>>

\* revokeSession.
Revoke(r) ==
    /\ At(r, "logout", "revoke")
    /\ Write(r, "revoked")
    /\ Conclude(r) /\ Ends(r)
    /\ UNCHANGED <<cookies, keycloak, starter>>

\* The answer clears the cookie, whatever it holds by now.
LogoutArrives(r) ==
    /\ At(r, "logout", "answered")
    /\ session' = [session EXCEPT ![req[r].b] = None]
    /\ End(r)
    /\ UNCHANGED <<state, keycloak, row, starter, ended>>

-----------------------------------------------------------------------------
\* The answer never arrives.
Lose(r) ==
    /\ req[r] # Idle /\ req[r].stage = "answered"
    /\ End(r)
    /\ UNCHANGED <<cookies, keycloak, row, starter, ended>>

\* Max-Age is over: 10 minutes for a state, 8 hours for a session.
CookieExpires(b) ==
    /\ \/ state[b] # None /\ state' = [state EXCEPT ![b] = None] /\ UNCHANGED session
       \/ session[b] # None /\ session' = [session EXCEPT ![b] = None] /\ UNCHANGED state
    /\ UNCHANGED <<keycloak, row, req, starter, ended>>

TokenExpires(l) ==
    /\ token[l] = "valid"
    /\ token' = [token EXCEPT ![l] = "expired"]
    /\ UNCHANGED <<cookies, code, row, req, starter, ended>>

SigningIn(r) ==
    \/ \E b \in Browsers, l \in Logins : Login(r, b, l) \/ Callback(r, b, l)
    \/ LoginArrives(r)
    \/ Exchange(r) \/ Provision(r) \/ CallbackFails(r) \/ CallbackArrives(r)

SignedIn(r) ==
    \/ \E b \in Browsers : Page(r, b) \/ Logout(r, b)
    \/ \E o \in Orgs : Resolve(r, o)
    \/ NoContext(r) \/ Check(r) \/ Record(r) \/ RegistryFails(r)
    \/ Find(r) \/ Revoke(r) \/ LogoutArrives(r)

Next ==
    \/ \E r \in Requests : SigningIn(r) \/ SignedIn(r) \/ Lose(r)
    \/ \E l \in Logins : KeycloakRedirects(l) \/ TokenExpires(l)
    \/ \E b \in Browsers : CookieExpires(b)

Spec == Init /\ [][Next]_vars

-----------------------------------------------------------------------------
(* A browser has only sessions of logins that it started itself, although  *)
(* redirects are followed late, again and elsewhere and logins overtake    *)
(* one another: each answer sets one cookie on the strength of the other.  *)
CookieIsOwn ==
    \A b \in Browsers : session[b] # None => starter[session[b]] = b

(* A logout that is authenticated for an organization and meets no failure *)
(* of the registry ends its token there: the row is found, although it may *)
(* be the first request to record it, and is revoked for good, whatever    *)
(* was admitted before it, or meanwhile, and records its access late.      *)
LogoutEnds ==
    \A l \in Logins : \A o \in ended[l] : row[l][o] = "revoked"
================================================================================
