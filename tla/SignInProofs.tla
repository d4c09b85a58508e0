----------------------------- MODULE SignInProofs -----------------------------
(***************************************************************************)
(* Proofs about SignIn, for any browsers, logins and number of requests.   *)
(*                                                                         *)
(* What a cookie or a request holds stays true of the login it names: the  *)
(* login was started by that browser, its token has been issued, its row   *)
(* has been recorded.  Nothing takes such a fact back (Keeps), so a step   *)
(* has to be looked at only for the cookie or the request it writes.       *)
(***************************************************************************)
EXTENDS SignIn, TLAPS

\* What the request q relies on, given the three histories of each login.
Fits(q, starters, tokens, rows) ==
    \/ q = Idle
    \/ /\ q \in InFlight
       /\ q.op \in {"login", "callback"} => starters[q.l] = q.b
       /\ q.op = "callback" /\ q.stage # "exchange" => tokens[q.l] # "none"
       /\ q.op \in {"page", "logout"} /\ q.l # None => tokens[q.l] # "none"
       /\ q.stage \in {"find", "revoke"} /\ q.met = "nothing" => rows[q.l][q.o] # "none"

RequestsFit == \A r \in Requests : Fits(req[r], starter, token, row)

CookiesFit ==
    \A b \in Browsers :
        /\ state[b] # None => starter[state[b]] = b
        /\ session[b] # None => starter[session[b]] = b /\ token[session[b]] # "none"

\* A token comes of a code, which is redeemed once.
CodesFit == \A l \in Logins : code[l] # "used" => token[l] = "none"

Inv == TypeOK /\ RequestsFit /\ CookiesFit /\ CodesFit /\ LogoutEnds

\* What no step takes back.
Keeps ==
    \A l \in Logins :
        /\ starter[l] # None => starter'[l] = starter[l]
        /\ token[l] # "none" => token'[l] # "none"
        /\ token[l] = "expired" => token'[l] = "expired"
        /\ \A o \in Orgs : row[l][o] # "none" => row'[l][o] # "none"
        /\ \A o \in Orgs : row[l][o] = "revoked" => row'[l][o] = "revoked"

\* The fields of a request, one fact per kind.
LEMMA Kinds ==
    ASSUME NEW q \in InFlight
    PROVE  /\ q # Idle
           /\ q.op \in {"login", "callback", "page", "logout"}
           /\ q.b \in Browsers
           /\ q.met \in {"nothing", "failure"}
           /\ q.stage \notin {"find", "revoke"} => q.met = "nothing"
           /\ q.op = "logout" /\ q.stage = "answered" => q.l = None
           /\ ~ (q.op = "logout" /\ q.stage = "answered") => q.l \in Logins
           /\ q.stage \in {"check", "record", "find", "revoke"} => q.o \in Orgs
           /\ q.op = "login" => q.stage = "answered"
           /\ q.op = "callback" => q.stage \in {"exchange", "provision", "answered"}
           /\ q.op = "page" => q.stage \in {"resolve", "check", "record"}
           /\ q.op = "logout" =>
                 q.stage \in {"resolve", "check", "record", "find", "revoke", "answered"}
<1> DEFINE
      F1 == [op : {"login"}, stage : {"answered"},
             b : Browsers, l : Logins, o : {None}, met : {"nothing"}]
      F2 == [op : {"callback"}, stage : {"exchange", "provision", "answered"},
             b : Browsers, l : Logins, o : {None}, met : {"nothing"}]
      F3 == [op : {"page", "logout"}, stage : {"resolve"},
             b : Browsers, l : Logins, o : {None}, met : {"nothing"}]
      F4 == [op : {"page", "logout"}, stage : {"check", "record"},
             b : Browsers, l : Logins, o : Orgs, met : {"nothing"}]
      F5 == [op : {"logout"}, stage : {"find", "revoke"},
             b : Browsers, l : Logins, o : Orgs, met : {"nothing", "failure"}]
      F6 == [op : {"logout"}, stage : {"answered"},
             b : Browsers, l : {None}, o : {None}, met : {"nothing"}]
<1>1. q \in F1 \/ q \in F2 \/ q \in F3 \/ q \in F4 \/ q \in F5 \/ q \in F6
  BY DEF InFlight
<1>2. q.op # "idle"
  BY <1>1
<1>3. q # Idle
  BY <1>2 DEF Idle
<1> QED BY <1>1, <1>3

\* A record with the fields of a kind is a request.
LEMMA Formed ==
    ASSUME NEW op, NEW stage, NEW b \in Browsers, NEW l, NEW o, NEW met,
           \/ /\ op = "login" /\ stage = "answered"
              /\ l \in Logins /\ o = None /\ met = "nothing"
           \/ /\ op = "callback" /\ stage \in {"exchange", "provision", "answered"}
              /\ l \in Logins /\ o = None /\ met = "nothing"
           \/ /\ op \in {"page", "logout"} /\ stage = "resolve"
              /\ l \in Logins /\ o = None /\ met = "nothing"
           \/ /\ op \in {"page", "logout"} /\ stage \in {"check", "record"}
              /\ l \in Logins /\ o \in Orgs /\ met = "nothing"
           \/ /\ op = "logout" /\ stage \in {"find", "revoke"}
              /\ l \in Logins /\ o \in Orgs /\ met \in {"nothing", "failure"}
           \/ /\ op = "logout" /\ stage = "answered"
              /\ l = None /\ o = None /\ met = "nothing"
    PROVE  [op |-> op, stage |-> stage, b |-> b, l |-> l, o |-> o, met |-> met] \in InFlight
BY DEF InFlight

\* A request that a step does not touch goes on to fit.
LEMMA StillFits ==
    ASSUME NEW q, Fits(q, starter, token, row), TypeOK, Keeps
    PROVE  Fits(q, starter', token', row')
<1>1. CASE q = Idle
  BY <1>1 DEF Fits
<1>2. CASE q # Idle
  <2>1. q \in InFlight
    BY <1>2 DEF Fits
  <2>2. /\ q.b \in Browsers
        /\ q.op = "logout" /\ q.stage = "answered" => q.l = None
        /\ ~ (q.op = "logout" /\ q.stage = "answered") => q.l \in Logins
        /\ q.stage \in {"check", "record", "find", "revoke"} => q.o \in Orgs
    BY <2>1, Kinds
  <2>3. None \notin Browsers /\ None \notin Logins
    BY SignInAssumption
  <2> QED BY <1>2, <2>1, <2>2, <2>3 DEF Fits, Keeps
<1> QED BY <1>1, <1>2

\* One request is replaced by q, or ends.
LEMMA OneRequest ==
    ASSUME NEW r \in Requests, NEW q, Inv, Keeps,
           req' = [req EXCEPT ![r] = q], Fits(q, starter', token', row')
    PROVE  RequestsFit' /\ req' \in [Requests -> {Idle} \cup InFlight]
<1>1. \A s \in Requests : Fits(req[s], starter', token', row')
  BY StillFits DEF Inv, RequestsFit
<1>2. \A s \in Requests : req'[s] = IF s = r THEN q ELSE req[s]
  BY DEF Inv, TypeOK
<1>3. q \in {Idle} \cup InFlight
  BY DEF Fits
<1>4. RequestsFit'
  BY <1>1, <1>2 DEF RequestsFit
<1> QED BY <1>3, <1>4 DEF Inv, TypeOK

\* No request changes.
LEMMA NoRequest ==
    ASSUME Inv, Keeps, req' = req
    PROVE  RequestsFit' /\ req' \in [Requests -> {Idle} \cup InFlight]
<1>1. \A s \in Requests : Fits(req[s], starter', token', row')
  BY StillFits DEF Inv, RequestsFit
<1> QED BY <1>1 DEF RequestsFit, Inv, TypeOK

\* Cookies that do not change go on to fit.
LEMMA CookiesStay ==
    ASSUME Inv, Keeps, UNCHANGED cookies
    PROVE  CookiesFit'
BY SignInAssumption DEF Inv, TypeOK, CookiesFit, Keeps, cookies

\* So do the tokens of the logouts that are over.
LEMMA EndsStay ==
    ASSUME Inv, Keeps, UNCHANGED ended
    PROVE  LogoutEnds'
BY DEF Inv, TypeOK, LogoutEnds, Keeps

\* A step that changes neither logins nor rows keeps all of it.
LEMMA KeepsAll ==
    ASSUME UNCHANGED <<keycloak, row, starter>>
    PROVE  Keeps
BY DEF Keeps, keycloak

-------------------------------------------------------------------------------
\* A request of a browser, given where it stands.
LEMMA Standing ==
    ASSUME Inv, NEW r \in Requests, req[r] # Idle
    PROVE  /\ req[r] \in InFlight
           /\ Fits(req[r], starter, token, row)
BY DEF Inv, RequestsFit, Fits

\* A step that only replaces one request.
LEMMA RequestOnly ==
    ASSUME Inv, NEW r \in Requests, NEW q, Fits(q, starter, token, row),
           req' = [req EXCEPT ![r] = q],
           UNCHANGED <<cookies, keycloak, row, starter, ended>>
    PROVE  Inv'
<1>1. Keeps
  BY KeepsAll
<1>2. Fits(q, starter', token', row')
  BY <1>1, StillFits DEF Inv
<1>3. RequestsFit' /\ req' \in [Requests -> {Idle} \cup InFlight]
  BY <1>1, <1>2, OneRequest
<1>4. TypeOK' /\ CodesFit'
  BY <1>3 DEF Inv, TypeOK, CodesFit, cookies, keycloak
<1> QED BY <1>1, <1>3, <1>4, CookiesStay, EndsStay DEF Inv

\* A step that changes nothing but the requests.
LEMMA RequestsOnly ==
    ASSUME Inv, Keeps, RequestsFit' /\ req' \in [Requests -> {Idle} \cup InFlight],
           UNCHANGED <<cookies, keycloak, row, starter, ended>>
    PROVE  Inv'
<1>1. TypeOK' /\ CodesFit'
  BY DEF Inv, TypeOK, CodesFit, cookies, keycloak
<1> QED BY <1>1, CookiesStay, EndsStay DEF Inv

LEMMA SigningInStep ==
    ASSUME Inv, NEW r \in Requests, SigningIn(r)
    PROVE  Inv'
<1> USE SignInAssumption
<1>idle. Fits(Idle, starter', token', row')
  BY DEF Fits
<1>1. ASSUME NEW b \in Browsers, NEW l \in Logins, Login(r, b, l)
      PROVE  Inv'
  <2> DEFINE q == [op |-> "login", stage |-> "answered", b |-> b, l |-> l, o |-> None,
                   met |-> "nothing"]
  <2>1. req' = [req EXCEPT ![r] = q] /\ UNCHANGED <<cookies, keycloak, row, ended>>
    BY <1>1 DEF Login, Send, Continue
  <2>2. starter' = [starter EXCEPT ![l] = b] /\ starter[l] = None
    BY <1>1 DEF Login
  <2>3. Keeps
    BY <2>1, <2>2 DEF Keeps, keycloak, Inv, TypeOK
  <2>4. q \in InFlight
    BY Formed
  <2>5. starter'[l] = b
    BY <2>2 DEF Inv, TypeOK
  <2>6. Fits(q, starter', token', row')
    BY <2>4, <2>5 DEF Fits
  <2>7. RequestsFit' /\ req' \in [Requests -> {Idle} \cup InFlight]
    BY <2>1, <2>3, <2>6, OneRequest
  <2>8. TypeOK'
    BY <2>1, <2>2, <2>7 DEF Inv, TypeOK, cookies, keycloak
  <2>9. CodesFit'
    BY <2>1 DEF Inv, CodesFit, keycloak
  <2> QED BY <2>1, <2>3, <2>7, <2>8, <2>9, CookiesStay, EndsStay DEF Inv
<1>2. ASSUME NEW b \in Browsers, NEW l \in Logins, Callback(r, b, l)
      PROVE  Inv'
  <2> DEFINE q == [op |-> "callback", stage |-> "exchange", b |-> b, l |-> l, o |-> None,
                   met |-> "nothing"]
  <2>1. req' = [req EXCEPT ![r] = q] /\ UNCHANGED <<cookies, keycloak, row, starter, ended>>
    BY <1>2 DEF Callback, Send, Continue
  <2>2. state[b] = l /\ starter[l] = b
    BY <1>2 DEF Callback, Inv, CookiesFit
  <2>3. q \in InFlight
    BY Formed
  <2>4. Fits(q, starter, token, row)
    BY <2>2, <2>3 DEF Fits
  <2> QED BY <2>1, <2>4, RequestOnly
<1>3. CASE LoginArrives(r)
  <2>1. /\ req' = [req EXCEPT ![r] = Idle]
        /\ state' = [state EXCEPT ![req[r].b] = req[r].l]
        /\ UNCHANGED <<session, keycloak, row, starter, ended>>
    BY <1>3 DEF LoginArrives, End
  <2>2. req[r].op = "login" /\ req[r] # Idle
    BY <1>3 DEF LoginArrives, At, Idle
  <2>3. req[r].b \in Browsers /\ req[r].l \in Logins /\ starter[req[r].l] = req[r].b
    BY <2>2, Standing, Kinds DEF Fits
  <2>4. Keeps
    BY <2>1, KeepsAll
  <2>5. RequestsFit' /\ req' \in [Requests -> {Idle} \cup InFlight]
    BY <1>idle, <2>1, <2>4, OneRequest
  <2>6. TypeOK' /\ CodesFit'
    BY <2>1, <2>3, <2>5 DEF Inv, TypeOK, CodesFit, keycloak
  <2>7. CookiesFit'
    BY <2>1, <2>3 DEF Inv, TypeOK, CookiesFit, keycloak
  <2> QED BY <2>1, <2>4, <2>5, <2>6, <2>7, EndsStay DEF Inv
<1>4. CASE Exchange(r)
  <2> DEFINE l == req[r].l
             q == [op |-> "callback", stage |-> "provision", b |-> req[r].b, l |-> l,
                   o |-> None, met |-> "nothing"]
  <2>1. req[r].op = "callback" /\ req[r].stage = "exchange" /\ req[r] # Idle
    BY <1>4 DEF Exchange, At, Idle
  <2>2. req[r].b \in Browsers /\ l \in Logins /\ starter[l] = req[r].b
    BY <2>1, Standing, Kinds DEF Fits
  <2>3. /\ code[l] = "issued" /\ token[l] = "none"
        /\ code' = [code EXCEPT ![l] = "used"]
        /\ token' = [token EXCEPT ![l] = "valid"]
        /\ UNCHANGED <<cookies, row, starter, ended>>
    BY <1>4, <2>2 DEF Exchange, Inv, CodesFit
  <2>4. Keeps
    BY <2>2, <2>3 DEF Keeps, Inv, TypeOK
  <2>5. token'[l] = "valid"
    BY <2>2, <2>3 DEF Inv, TypeOK
  <2>6. q \in InFlight
    BY <2>2, Formed
  <2>7. Fits(q, starter', token', row')
    BY <2>2, <2>3, <2>5, <2>6 DEF Fits
  <2>8. req' = [req EXCEPT ![r] = q] \/ req' = [req EXCEPT ![r] = Idle]
    BY <1>4, <2>1 DEF Exchange, Go, Continue, End
  <2>9. RequestsFit' /\ req' \in [Requests -> {Idle} \cup InFlight]
    <3>1. CASE req' = [req EXCEPT ![r] = q]
      BY <2>4, <2>7, <3>1, OneRequest
    <3>2. CASE req' = [req EXCEPT ![r] = Idle]
      BY <1>idle, <2>4, <3>2, OneRequest
    <3> QED BY <2>8, <3>1, <3>2
  <2>10. TypeOK' /\ CodesFit'
    BY <2>2, <2>3, <2>9 DEF Inv, TypeOK, CodesFit, cookies
  <2> QED BY <2>3, <2>4, <2>9, <2>10, CookiesStay, EndsStay DEF Inv
<1>5. CASE Provision(r)
  <2> DEFINE q == [op |-> "callback", stage |-> "answered", b |-> req[r].b, l |-> req[r].l,
                   o |-> None, met |-> "nothing"]
  <2>1. /\ req[r].op = "callback" /\ req[r] # Idle /\ token[req[r].l] = "valid"
        /\ req' = [req EXCEPT ![r] = q]
        /\ UNCHANGED <<cookies, keycloak, row, starter, ended>>
    BY <1>5 DEF Provision, At, Idle, Go, Continue
  <2>2. req[r].b \in Browsers /\ req[r].l \in Logins /\ starter[req[r].l] = req[r].b
    BY <2>1, Standing, Kinds DEF Fits
  <2>3. q \in InFlight
    BY <2>2, Formed
  <2>4. Fits(q, starter, token, row)
    BY <2>1, <2>2, <2>3 DEF Fits
  <2> QED BY <2>1, <2>4, RequestOnly
<1>6. CASE CallbackFails(r)
  <2>1. /\ req' = [req EXCEPT ![r] = Idle]
        /\ UNCHANGED <<cookies, keycloak, row, starter, ended>>
    BY <1>6 DEF CallbackFails, End
  <2>2. Fits(Idle, starter, token, row)
    BY DEF Fits
  <2> QED BY <2>1, <2>2, RequestOnly
<1>7. CASE CallbackArrives(r)
  <2>1. /\ req' = [req EXCEPT ![r] = Idle]
        /\ session' = [session EXCEPT ![req[r].b] = req[r].l]
        /\ state' = [state EXCEPT ![req[r].b] = None]
        /\ UNCHANGED <<keycloak, row, starter, ended>>
    BY <1>7 DEF CallbackArrives, End
  <2>2. req[r].op = "callback" /\ req[r].stage = "answered" /\ req[r] # Idle
    BY <1>7 DEF CallbackArrives, At, Idle
  <2>3. /\ req[r].b \in Browsers /\ req[r].l \in Logins
        /\ starter[req[r].l] = req[r].b /\ token[req[r].l] # "none"
    BY <2>2, Standing, Kinds DEF Fits
  <2>4. Keeps
    BY <2>1, KeepsAll
  <2>5. RequestsFit' /\ req' \in [Requests -> {Idle} \cup InFlight]
    BY <1>idle, <2>1, <2>4, OneRequest
  <2>6. TypeOK' /\ CodesFit'
    BY <2>1, <2>3, <2>5 DEF Inv, TypeOK, CodesFit, keycloak
  <2>7. CookiesFit'
    BY <2>1, <2>3 DEF Inv, TypeOK, CookiesFit, keycloak
  <2> QED BY <2>1, <2>4, <2>5, <2>6, <2>7, EndsStay DEF Inv
<1> QED BY <1>1, <1>2, <1>3, <1>4, <1>5, <1>6, <1>7 DEF SigningIn

-------------------------------------------------------------------------------
\* A handler is through.
LEMMA Concluded ==
    ASSUME Inv, Keeps, NEW r \in Requests, Conclude(r), req[r] # Idle
    PROVE  RequestsFit' /\ req' \in [Requests -> {Idle} \cup InFlight]
<1>1. CASE req[r].op = "page" /\ End(r)
  <2>1. Fits(Idle, starter', token', row')
    BY DEF Fits
  <2> QED BY <1>1, <2>1, OneRequest DEF End
<1>2. CASE /\ req[r].op = "logout"
           /\ Continue(r, "logout", "answered", req[r].b, None, None, "nothing")
  <2> DEFINE q == [op |-> "logout", stage |-> "answered", b |-> req[r].b, l |-> None,
                   o |-> None, met |-> "nothing"]
  <2>1. req[r].b \in Browsers
    BY Standing, Kinds
  <2>2. q \in InFlight
    BY <2>1, Formed
  <2>3. Fits(q, starter', token', row')
    BY <2>2 DEF Fits
  <2>4. req' = [req EXCEPT ![r] = q]
    BY <1>2 DEF Continue
  <2> QED BY <2>3, <2>4, OneRequest
<1> QED BY <1>1, <1>2 DEF Conclude

\* The token has been revoked where a logout ends it.
LEMMA Ended ==
    ASSUME Inv, Keeps, NEW r \in Requests, Ends(r), req[r].l \in Logins, req[r].o \in Orgs,
           req[r].op = "logout" /\ req[r].met = "nothing" =>
               row'[req[r].l][req[r].o] = "revoked"
    PROVE  LogoutEnds' /\ ended' \in [Logins -> SUBSET Orgs]
<1>1. CASE req[r].op = "logout" /\ req[r].met = "nothing"
  <2>1. ended' = [ended EXCEPT ![req[r].l] = ended[req[r].l] \cup {req[r].o}]
    BY <1>1 DEF Ends
  <2>2. ended' \in [Logins -> SUBSET Orgs]
    BY <2>1 DEF Inv, TypeOK
  <2>3. ASSUME NEW l \in Logins, NEW o \in ended'[l]
        PROVE  row'[l][o] = "revoked"
    <3>1. CASE o \in ended[l]
      BY <3>1 DEF Inv, TypeOK, LogoutEnds, Keeps
    <3>2. CASE o \notin ended[l]
      <4>1. l = req[r].l /\ o = req[r].o
        BY <2>1, <2>3, <3>2 DEF Inv, TypeOK
      <4> QED BY <1>1, <4>1
    <3> QED BY <3>1, <3>2
  <2> QED BY <2>2, <2>3 DEF LogoutEnds
<1>2. CASE ~ (req[r].op = "logout" /\ req[r].met = "nothing")
  <2>1. UNCHANGED ended
    BY <1>2 DEF Ends
  <2> QED BY <2>1, EndsStay DEF Inv, TypeOK
<1> QED BY <1>1, <1>2

\* A request goes on after its authentication, which has recorded its row
\* unless it met a failure.
LEMMA Admitted ==
    ASSUME Inv, Keeps, NEW r \in Requests, NEW met \in {"nothing", "failure"},
           Admit(r, met), req[r] # Idle, req[r].stage \in {"check", "record"},
           met = "nothing" => row'[req[r].l][req[r].o] # "none"
    PROVE  RequestsFit' /\ req' \in [Requests -> {Idle} \cup InFlight]
<1>1. CASE req[r].op = "page" /\ End(r)
  <2>1. Fits(Idle, starter', token', row')
    BY DEF Fits
  <2> QED BY <1>1, <2>1, OneRequest DEF End
<1>2. CASE req[r].op = "logout" /\ Go(r, "find", req[r].o, met)
  <2> DEFINE q == [op |-> "logout", stage |-> "find", b |-> req[r].b, l |-> req[r].l,
                   o |-> req[r].o, met |-> met]
  <2>1. req[r].b \in Browsers /\ req[r].l \in Logins /\ req[r].o \in Orgs
    BY Standing, Kinds
  <2>2. q \in InFlight
    BY <2>1, Formed
  <2>3. token'[req[r].l] # "none"
    BY <1>2, <2>1, Standing, SignInAssumption DEF Fits, Keeps
  <2>4. Fits(q, starter', token', row')
    BY <2>2, <2>3 DEF Fits
  <2>5. req' = [req EXCEPT ![r] = q]
    BY <1>2 DEF Go, Continue
  <2> QED BY <2>4, <2>5, OneRequest
<1> QED BY <1>1, <1>2 DEF Admit

\* A request goes on as q: what it relies on is known already.
LEMMA GoesOn ==
    ASSUME Inv, NEW r \in Requests, NEW stage, NEW o \in Orgs, req[r] # Idle,
           \/ req[r].stage = "resolve" /\ stage = "check"
           \/ req[r].stage = "check" /\ stage = "record"
           \/ req[r].op = "logout" /\ req[r].stage = "find" /\ stage = "revoke" /\ o = req[r].o,
           Go(r, stage, o, req[r].met),
           UNCHANGED <<cookies, keycloak, row, starter, ended>>
    PROVE  Inv'
<1> DEFINE q == [op |-> req[r].op, stage |-> stage, b |-> req[r].b, l |-> req[r].l,
                 o |-> o, met |-> req[r].met]
<1>1. /\ req[r].b \in Browsers /\ req[r].l \in Logins
      /\ req[r].op \in {"page", "logout"}
      /\ req[r].met \in {"nothing", "failure"}
      /\ req[r].stage # "find" => req[r].met = "nothing"
  BY Standing, Kinds
<1>2. q \in InFlight
  BY <1>1, Formed
<1>3. token[req[r].l] # "none"
  BY <1>1, Standing, SignInAssumption DEF Fits
<1>4. stage = "revoke" /\ req[r].met = "nothing" => row[req[r].l][o] # "none"
  BY <1>1, Standing DEF Fits
<1>5. Fits(q, starter, token, row)
  BY <1>1, <1>2, <1>3, <1>4 DEF Fits
<1>6. req' = [req EXCEPT ![r] = q]
  BY DEF Go, Continue
<1> QED BY <1>5, <1>6, RequestOnly

\* A row is written over by a status that takes nothing back.
LEMMA Written ==
    ASSUME Inv, NEW r \in Requests, NEW status \in {"live", "revoked"},
           req[r].l \in Logins, req[r].o \in Orgs, Write(r, status),
           Row(r) = "revoked" => status = "revoked", UNCHANGED <<keycloak, starter>>
    PROVE  /\ Keeps
           /\ row' \in [Logins -> [Orgs -> {"none", "live", "revoked"}]]
           /\ row'[req[r].l][req[r].o] = status
<1>1. /\ row \in [Logins -> [Orgs -> {"none", "live", "revoked"}]]
      /\ row' = [row EXCEPT ![req[r].l][req[r].o] = status]
  BY DEF Inv, TypeOK, Write
<1>2. /\ row' \in [Logins -> [Orgs -> {"none", "live", "revoked"}]]
      /\ row'[req[r].l][req[r].o] = status
  BY <1>1
<1>3. \A l \in Logins, o \in Orgs :
          row'[l][o] = IF l = req[r].l /\ o = req[r].o THEN status ELSE row[l][o]
  BY <1>1
<1>4. Keeps
  BY <1>3 DEF Keeps, keycloak, Row
<1> QED BY <1>2, <1>4

LEMMA SignedInStep ==
    ASSUME Inv, NEW r \in Requests, SignedIn(r)
    PROVE  Inv'
<1> USE SignInAssumption
<1>1. ASSUME NEW b \in Browsers, Page(r, b)
      PROVE  Inv'
  <2> DEFINE q == [op |-> "page", stage |-> "resolve", b |-> b, l |-> session[b],
                   o |-> None, met |-> "nothing"]
  <2>1. session[b] \in Logins /\ token[session[b]] # "none"
    BY <1>1 DEF Page, Inv, TypeOK, CookiesFit
  <2>2. q \in InFlight
    BY <2>1, Formed
  <2>3. Fits(q, starter, token, row)
    BY <2>1, <2>2 DEF Fits
  <2> QED BY <1>1, <2>3, RequestOnly DEF Page, Send, Continue
<1>2. ASSUME NEW b \in Browsers, Logout(r, b)
      PROVE  Inv'
  <2> DEFINE stage == IF session[b] = None THEN "answered" ELSE "resolve"
             q == [op |-> "logout", stage |-> stage, b |-> b, l |-> session[b],
                   o |-> None, met |-> "nothing"]
  <2>1. /\ session[b] \in Logins \cup {None}
        /\ session[b] # None => token[session[b]] # "none"
    BY DEF Inv, TypeOK, CookiesFit
  <2>2. q \in InFlight
    BY <2>1, Formed
  <2>3. Fits(q, starter, token, row)
    BY <2>1, <2>2 DEF Fits
  <2> QED BY <1>2, <2>3, RequestOnly DEF Logout, Send, Continue
<1>3. ASSUME NEW o \in Orgs, Resolve(r, o)
      PROVE  Inv'
  <2>1. req[r] # Idle /\ req[r].stage = "resolve"
    BY <1>3 DEF Resolve
  <2>2. req[r].met = "nothing"
    BY <2>1, Standing, Kinds
  <2> QED BY <1>3, <2>1, <2>2, GoesOn DEF Resolve
<1>4. CASE NoContext(r)
  <2>1. /\ req[r] # Idle /\ Conclude(r)
        /\ UNCHANGED <<cookies, keycloak, row, starter, ended>>
    BY <1>4 DEF NoContext
  <2> QED BY <2>1, KeepsAll, Concluded, RequestsOnly
<1>5. CASE Check(r)
  <2>1. /\ req[r] # Idle /\ req[r].stage = "check"
        /\ UNCHANGED <<cookies, keycloak, row, starter>>
    BY <1>5 DEF Check
  <2>2. req[r].l \in Logins /\ req[r].o \in Orgs /\ req[r].met = "nothing"
    BY <2>1, Standing, Kinds
  <2>3. CASE Go(r, "record", req[r].o, "nothing") /\ UNCHANGED ended
    BY <2>1, <2>2, <2>3, GoesOn
  <2>4. CASE Row(r) = "revoked" /\ Conclude(r) /\ Ends(r)
    <3>1. Keeps
      BY <2>1, KeepsAll
    <3>2. RequestsFit' /\ req' \in [Requests -> {Idle} \cup InFlight]
      BY <2>1, <2>4, <3>1, Concluded
    <3>3. LogoutEnds' /\ ended' \in [Logins -> SUBSET Orgs]
      BY <2>1, <2>2, <2>4, <3>1, Ended DEF Row
    <3>4. TypeOK' /\ CodesFit'
      BY <2>1, <3>2, <3>3 DEF Inv, TypeOK, CodesFit, cookies, keycloak
    <3> QED BY <2>1, <3>1, <3>2, <3>3, <3>4, CookiesStay DEF Inv
  <2> QED BY <1>5, <2>3, <2>4 DEF Check
<1>6. CASE Record(r)
  <2> DEFINE status == IF Row(r) = "none" THEN "live" ELSE Row(r)
  <2>1. /\ req[r] # Idle /\ req[r].stage = "record"
        /\ Write(r, status)
        /\ Admit(r, "nothing")
        /\ UNCHANGED <<cookies, keycloak, starter, ended>>
    BY <1>6 DEF Record
  <2>2. req[r].l \in Logins /\ req[r].o \in Orgs
    BY <2>1, Standing, Kinds
  <2>3. status \in {"live", "revoked"} /\ (Row(r) = "revoked" => status = "revoked")
    BY <2>2 DEF Row, Inv, TypeOK
  <2> HIDE DEF status
  <2>4. /\ Keeps
        /\ row' \in [Logins -> [Orgs -> {"none", "live", "revoked"}]]
        /\ row'[req[r].l][req[r].o] # "none"
    BY <2>1, <2>2, <2>3, Written
  <2>5. RequestsFit' /\ req' \in [Requests -> {Idle} \cup InFlight]
    BY <2>1, <2>4, Admitted
  <2>6. TypeOK' /\ CodesFit'
    BY <2>1, <2>4, <2>5 DEF Inv, TypeOK, CodesFit, cookies, keycloak
  <2> QED BY <2>1, <2>4, <2>5, <2>6, CookiesStay, EndsStay DEF Inv
<1>7. CASE RegistryFails(r)
  <2>1. req[r] # Idle /\ UNCHANGED <<cookies, keycloak, row, starter, ended>>
    BY <1>7 DEF RegistryFails
  <2>2. Keeps
    BY <2>1, KeepsAll
  <2>3. CASE req[r].stage \in {"check", "record"} /\ Admit(r, "failure")
    BY <2>1, <2>2, <2>3, Admitted, RequestsOnly
  <2>4. CASE Conclude(r)
    BY <2>1, <2>2, <2>4, Concluded, RequestsOnly
  <2> QED BY <1>7, <2>3, <2>4 DEF RegistryFails
<1>8. CASE Find(r)
  <2>1. /\ req[r] # Idle /\ req[r].op = "logout" /\ req[r].stage = "find"
        /\ UNCHANGED <<cookies, keycloak, row, starter>>
    BY <1>8 DEF Find, At, Idle
  <2>2. req[r].l \in Logins /\ req[r].o \in Orgs
    BY <2>1, Standing, Kinds
  <2>3. CASE Go(r, "revoke", req[r].o, req[r].met) /\ UNCHANGED ended
    BY <2>1, <2>2, <2>3, GoesOn
  <2>4. CASE Row(r) # "live" /\ Conclude(r) /\ Ends(r)
    <3>1. req[r].met = "nothing" => row'[req[r].l][req[r].o] = "revoked"
      <4>1. req[r].met = "nothing" => row[req[r].l][req[r].o] # "none"
        BY <2>1, Standing DEF Fits
      <4>2. row[req[r].l][req[r].o] \in {"none", "live", "revoked"}
        BY <2>2 DEF Inv, TypeOK
      <4> QED BY <2>1, <2>4, <4>1, <4>2 DEF Row
    <3>2. Keeps
      BY <2>1, KeepsAll
    <3>3. RequestsFit' /\ req' \in [Requests -> {Idle} \cup InFlight]
      BY <2>1, <2>4, <3>2, Concluded
    <3>4. LogoutEnds' /\ ended' \in [Logins -> SUBSET Orgs]
      BY <2>2, <2>4, <3>1, <3>2, Ended
    <3>5. TypeOK' /\ CodesFit'
      BY <2>1, <3>3, <3>4 DEF Inv, TypeOK, CodesFit, cookies, keycloak
    <3> QED BY <2>1, <3>2, <3>3, <3>4, <3>5, CookiesStay DEF Inv
  <2> QED BY <1>8, <2>3, <2>4 DEF Find
<1>9. CASE Revoke(r)
  <2>1. /\ req[r] # Idle /\ req[r].op = "logout" /\ req[r].stage = "revoke"
        /\ Write(r, "revoked") /\ Conclude(r) /\ Ends(r)
        /\ UNCHANGED <<cookies, keycloak, starter>>
    BY <1>9 DEF Revoke, At, Idle
  <2>2. req[r].l \in Logins /\ req[r].o \in Orgs
    BY <2>1, Standing, Kinds
  <2>3. /\ Keeps
        /\ row' \in [Logins -> [Orgs -> {"none", "live", "revoked"}]]
        /\ row'[req[r].l][req[r].o] = "revoked"
    BY <2>1, <2>2, Written
  <2>4. RequestsFit' /\ req' \in [Requests -> {Idle} \cup InFlight]
    BY <2>1, <2>3, Concluded
  <2>5. LogoutEnds' /\ ended' \in [Logins -> SUBSET Orgs]
    BY <2>1, <2>2, <2>3, Ended
  <2>6. TypeOK' /\ CodesFit'
    BY <2>1, <2>3, <2>4, <2>5 DEF Inv, TypeOK, CodesFit, cookies, keycloak
  <2> QED BY <2>1, <2>3, <2>4, <2>5, <2>6, CookiesStay DEF Inv
<1>10. CASE LogoutArrives(r)
  <2>1. /\ req' = [req EXCEPT ![r] = Idle]
        /\ session' = [session EXCEPT ![req[r].b] = None]
        /\ UNCHANGED <<state, keycloak, row, starter, ended>>
    BY <1>10 DEF LogoutArrives, End
  <2>2. Keeps /\ Fits(Idle, starter', token', row')
    BY <2>1, KeepsAll DEF Fits
  <2>3. RequestsFit' /\ req' \in [Requests -> {Idle} \cup InFlight]
    BY <2>1, <2>2, OneRequest
  <2>4. TypeOK' /\ CodesFit'
    BY <2>1, <2>3 DEF Inv, TypeOK, CodesFit, keycloak
  <2>5. CookiesFit'
    BY <2>1 DEF Inv, TypeOK, CookiesFit, keycloak
  <2> QED BY <2>1, <2>2, <2>3, <2>4, <2>5, EndsStay DEF Inv
<1> QED BY <1>1, <1>2, <1>3, <1>4, <1>5, <1>6, <1>7, <1>8, <1>9, <1>10 DEF SignedIn

-------------------------------------------------------------------------------
\* The inductive invariant.
THEOREM Invariance == Spec => []Inv
<1>1. Init => Inv
  BY SignInAssumption
     DEF Init, Inv, TypeOK, RequestsFit, Fits, CookiesFit, CodesFit, LogoutEnds
<1>2. Inv /\ [Next]_vars => Inv'
  <2> SUFFICES ASSUME Inv, [Next]_vars PROVE Inv'
    OBVIOUS
  <2>1. ASSUME NEW r \in Requests, Lose(r)
        PROVE  Inv'
    <3>1. Fits(Idle, starter, token, row)
      BY DEF Fits
    <3> QED BY <2>1, <3>1, RequestOnly DEF Lose, End
  <2>2. ASSUME NEW l \in Logins, KeycloakRedirects(l)
        PROVE  Inv'
    <3>1. Keeps
      BY <2>2 DEF KeycloakRedirects, Keeps
    <3>2. RequestsFit' /\ req' \in [Requests -> {Idle} \cup InFlight]
      BY <2>2, <3>1, NoRequest DEF KeycloakRedirects
    <3>3. TypeOK' /\ CodesFit'
      BY <2>2, <3>2 DEF KeycloakRedirects, Inv, TypeOK, CodesFit, cookies
    <3> QED BY <2>2, <3>1, <3>2, <3>3, CookiesStay, EndsStay DEF KeycloakRedirects, Inv
  <2>3. ASSUME NEW l \in Logins, TokenExpires(l)
        PROVE  Inv'
    <3>1. Keeps
      BY <2>3 DEF TokenExpires, Keeps, Inv, TypeOK
    <3>2. RequestsFit' /\ req' \in [Requests -> {Idle} \cup InFlight]
      BY <2>3, <3>1, NoRequest DEF TokenExpires
    <3>3. TypeOK' /\ CodesFit'
      BY <2>3, <3>2 DEF TokenExpires, Inv, TypeOK, CodesFit, cookies
    <3> QED BY <2>3, <3>1, <3>2, <3>3, CookiesStay, EndsStay DEF TokenExpires, Inv
  <2>4. ASSUME NEW b \in Browsers, CookieExpires(b)
        PROVE  Inv'
    <3>1. Keeps
      BY <2>4, KeepsAll DEF CookieExpires
    <3>2. RequestsFit' /\ req' \in [Requests -> {Idle} \cup InFlight]
      BY <2>4, <3>1, NoRequest DEF CookieExpires
    <3>3. TypeOK' /\ CodesFit'
      BY <2>4, <3>2 DEF CookieExpires, Inv, TypeOK, CodesFit, keycloak
    <3>4. CookiesFit'
      BY <2>4 DEF CookieExpires, Inv, TypeOK, CookiesFit, keycloak
    <3> QED BY <2>4, <3>1, <3>2, <3>3, <3>4, EndsStay DEF CookieExpires, Inv
  <2>5. CASE UNCHANGED vars
    BY <2>5 DEF vars, cookies, keycloak, Inv, TypeOK, RequestsFit, Fits, CookiesFit,
                CodesFit, LogoutEnds
  <2> QED BY <2>1, <2>2, <2>3, <2>4, <2>5, SigningInStep, SignedInStep DEF Next
<1> QED BY <1>1, <1>2, PTL DEF Spec

\* Cookies, Keycloak's side, rows and requests keep their types.
THEOREM TypeCorrect == Spec => []TypeOK
BY Invariance, PTL DEF Inv

\* A browser has only sessions of logins it started, whatever arrives late,
\* twice or elsewhere (auth/callback/route.ts).
THEOREM CookieIsOwnHolds == Spec => []CookieIsOwn
<1>1. Inv => CookieIsOwn
  BY DEF Inv, CookiesFit, CookieIsOwn
<1> QED BY <1>1, Invariance, PTL

\* A logout that was authenticated for an organization and met no failure has
\* ended its token there for good, whatever was admitted before it or comes
\* meanwhile (auth/logout/route.ts).
THEOREM LogoutEndsHolds == Spec => []LogoutEnds
BY Invariance, PTL DEF Inv
===============================================================================
