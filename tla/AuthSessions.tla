----------------------------- MODULE AuthSessions -----------------------------
(***************************************************************************)
(* AuthService with its routes on one surface: login transactions and      *)
(* sessions in Redis, users in PostgreSQL, cookies in browsers.            *)
(*                                                                         *)
(* Requests of several browsers and tabs interleave at every access to     *)
(* Redis, to the directory and to the provider, and any of them may be     *)
(* given up half-way.  A browser keeps one transaction cookie, so a second *)
(* login replaces the first; a callback carries the state of one           *)
(* transaction in its URL and the id of possibly another in its cookie.    *)
(* The secrets of a transaction (id, state, nonce, verifier) are unique    *)
(* and stored together: the transaction itself stands for each of them.    *)
(*                                                                         *)
(* All logins are of one user at the provider: every one writes the same   *)
(* row of the directory, as concurrent logins of a user do.                *)
(***************************************************************************)
EXTENDS Naturals

CONSTANTS
    Logins,         \* login transactions
    Browsers,
    Requests,       \* requests handled at the same time
    Roles,          \* what the claims of a verified token grant
    None            \* no cookie, nobody

\* A session id is made by the request that completes a login.
Sessions == Logins \X Requests

\* A row of auth_user: the login whose request drew its id, and the roles.
Users == [id : Logins, roles : Roles]

ASSUME NoneAssumption ==
    None \notin Logins \union Browsers \union Requests \union Roles \union Sessions \union Users

\* What a session says of its user, and the login whose code it came of.
Principals == [user : Users, code : Logins]

VARIABLES
    stored,         \* transactions Redis holds
    starter,        \* which browser began each transaction, or None
    taker,          \* which request took it, or None
    session,        \* what Redis holds of each session
    principal,      \* its principal
    directory,      \* the committed row of auth_user, or None
    rowLock,        \* whose transaction has written that row and is open
    loginCookie, sessionCookie,
    page,           \* the session whose csrf_token the browser's page knows
    pc, from,       \* where each request is, and whose it is
    login, state,   \* transaction in its cookie; state in its URL
    claims,         \* roles granted by the token it verified
    user,           \* local_user: the row RETURNING gave back
    sid, csrf       \* session in its cookie; whose csrf_token it carries

redis == <<stored, session, principal>>
database == <<directory, rowLock>>
ghosts == <<starter, taker>>
browsers == <<loginCookie, sessionCookie, page>>
inputs == <<from, login, state, claims, user, sid, csrf>>
vars == <<redis, ghosts, database, browsers, pc, inputs>>

\* A void session is past its expires_at, or of another policy version.
Statuses == {"none", "live", "void", "gone"}

PCs == {"idle", "url", "abandon", "take", "exchange", "upsert", "commit", "create",
        "cancel", "read", "check", "end"}

TypeOK ==
    /\ stored \subseteq Logins
    /\ starter \in [Logins -> Browsers \union {None}]
    /\ taker \in [Logins -> Requests \union {None}]
    /\ session \in [Sessions -> Statuses]
    /\ principal \in [Sessions -> Principals \union {None}]
    /\ directory \in Users \union {None}
    /\ rowLock \in Requests \union {None}
    /\ loginCookie \in [Browsers -> Logins \union {None}]
    /\ sessionCookie \in [Browsers -> Sessions \union {None}]
    /\ page \in [Browsers -> Sessions \union {None}]
    /\ pc \in [Requests -> PCs]
    /\ from \in [Requests -> Browsers \union {None}]
    /\ login \in [Requests -> Logins \union {None}]
    /\ state \in [Requests -> Logins \union {None}]
    /\ claims \in [Requests -> Roles \union {None}]
    /\ user \in [Requests -> Users \union {None}]
    /\ sid \in [Requests -> Sessions \union {None}]
    /\ csrf \in [Requests -> Sessions \union {None}]

Init ==
    /\ stored = {}
    /\ starter = [t \in Logins |-> None]
    /\ taker = [t \in Logins |-> None]
    /\ session = [s \in Sessions |-> "none"]
    /\ principal = [s \in Sessions |-> None]
    /\ directory = None
    /\ rowLock = None
    /\ loginCookie = [b \in Browsers |-> None]
    /\ sessionCookie = [b \in Browsers |-> None]
    /\ page = [b \in Browsers |-> None]
    /\ pc = [r \in Requests |-> "idle"]
    /\ from = [r \in Requests |-> None]
    /\ login = [r \in Requests |-> None]
    /\ state = [r \in Requests |-> None]
    /\ claims = [r \in Requests |-> None]
    /\ user = [r \in Requests |-> None]
    /\ sid = [r \in Requests |-> None]
    /\ csrf = [r \in Requests |-> None]

-----------------------------------------------------------------------------
Goto(r, label) == pc' = [pc EXCEPT ![r] = label]

\* The request is over; what it carried is forgotten.
Done(r) ==
    /\ Goto(r, "idle")
    /\ from' = [from EXCEPT ![r] = None]
    /\ login' = [login EXCEPT ![r] = None]
    /\ state' = [state EXCEPT ![r] = None]
    /\ claims' = [claims EXCEPT ![r] = None]
    /\ user' = [user EXCEPT ![r] = None]
    /\ sid' = [sid EXCEPT ![r] = None]
    /\ csrf' = [csrf EXCEPT ![r] = None]

\* A response that sets or deletes (None) one of the browser's cookies.
SetLogin(r, t) == loginCookie' = [loginCookie EXCEPT ![from[r]] = t]
SetSession(r, s) == sessionCookie' = [sessionCookie EXCEPT ![from[r]] = s]

Drop(s) == session' = [session EXCEPT ![s] = "gone"]

-----------------------------------------------------------------------------
(* Login: begin_login and _start.                                          *)

\* The new transaction is stored; then the provider's metadata are needed.
BeginLogin(r, b, t) ==
    /\ pc[r] = "idle" /\ starter[t] = None
    /\ starter' = [starter EXCEPT ![t] = b]
    /\ stored' = stored \union {t}
    /\ Goto(r, "url")
    /\ from' = [from EXCEPT ![r] = b]
    /\ login' = [login EXCEPT ![r] = t]
    /\ UNCHANGED <<session, principal, taker, database, browsers, state, claims, user, sid, csrf>>

\* The redirect to the provider carries the transaction cookie.
RedirectToProvider(r) ==
    /\ pc[r] = "url"
    /\ SetLogin(r, login[r])
    /\ Done(r)
    /\ UNCHANGED <<redis, ghosts, database, sessionCookie, page>>

\* build_authorization_url raises ...
UrlFails(r) ==
    /\ pc[r] = "url"
    /\ Goto(r, "abandon")
    /\ UNCHANGED <<redis, ghosts, database, browsers, inputs>>

\* ... and the transaction is deleted.
Abandon(r) ==
    /\ pc[r] = "abandon"
    /\ stored' = stored \ {login[r]}
    /\ Done(r)
    /\ UNCHANGED <<session, principal, ghosts, database, browsers>>

-----------------------------------------------------------------------------
(* Callback: complete_login.                                               *)

\* A browser opens a callback URL: its own, an old one, or one of another
\* browser; once or twice.
Callback(r, b, t) ==
    /\ pc[r] = "idle" /\ starter[t] # None
    /\ from' = [from EXCEPT ![r] = b]
    /\ login' = [login EXCEPT ![r] = loginCookie[b]]
    /\ state' = [state EXCEPT ![r] = t]
    /\ Goto(r, "take")
    /\ UNCHANGED <<redis, ghosts, database, browsers, claims, user, sid, csrf>>

\* A faulty variant: GET, and the key is left to expire.
Take_Read(r) ==
    /\ pc[r] = "take" /\ login[r] \in stored
    /\ taker' = [taker EXCEPT ![login[r]] = r]
    /\ Goto(r, "exchange")
    /\ UNCHANGED <<redis, starter, database, browsers, inputs>>

\* GETDEL: whoever takes the transaction is the only one to have it.
Take(r) ==
    /\ pc[r] = "take" /\ login[r] \in stored
    /\ stored' = stored \ {login[r]}
    /\ taker' = [taker EXCEPT ![login[r]] = r]
    /\ Goto(r, "exchange")
    /\ UNCHANGED <<session, principal, starter, database, browsers, inputs>>

\* The code in the URL belongs to the transaction of the cookie.
StateMatches(r) == state[r] = login[r]

\* The login fails: no transaction, another state, the provider refuses the
\* code or its token, or the account may not sign in here.  The response
\* deletes the transaction cookie, a newer one too.
LoginFails(r) ==
    /\ \/ pc[r] = "take" /\ login[r] \notin stored
       \/ pc[r] = "exchange"
    /\ SetLogin(r, None)
    /\ Done(r)
    /\ UNCHANGED <<redis, ghosts, database, sessionCookie, page>>

\* A faulty variant: the state is not compared.
Exchange_AnyState(r) ==
    /\ pc[r] = "exchange"
    /\ \E granted \in Roles : claims' = [claims EXCEPT ![r] = granted]
    /\ Goto(r, "upsert")
    /\ UNCHANGED <<redis, ghosts, database, browsers, from, login, state, user, sid, csrf>>

\* The code is exchanged, and the verified claims grant some roles.
Exchange(r) ==
    /\ pc[r] = "exchange" /\ StateMatches(r)
    /\ \E granted \in Roles : claims' = [claims EXCEPT ![r] = granted]
    /\ Goto(r, "upsert")
    /\ UNCHANGED <<redis, ghosts, database, browsers, from, login, state, user, sid, csrf>>

\* INSERT ... ON CONFLICT DO UPDATE waits for another transaction's row and
\* then writes: a new row, or the claims over the row that is there.  The
\* row it wrote is handed back, and stays locked until COMMIT.
UpsertUser(r) ==
    /\ pc[r] = "upsert" /\ rowLock = None
    /\ user' = [user EXCEPT ![r] =
          [id |-> IF directory = None THEN login[r] ELSE directory.id, roles |-> claims[r]]]
    /\ rowLock' = r
    /\ Goto(r, "commit")
    /\ UNCHANGED <<redis, ghosts, directory, browsers, from, login, state, claims, sid, csrf>>

CommitUser(r) ==
    /\ pc[r] = "commit"
    /\ directory' = user[r]
    /\ rowLock' = None
    /\ Goto(r, "create")
    /\ UNCHANGED <<redis, ghosts, browsers, inputs>>

StoreSession(r, row) ==
    LET s == <<login[r], r>>
    IN  /\ session' = [session EXCEPT ![s] = "live"]
        /\ principal' = [principal EXCEPT ![s] = [user |-> row, code |-> state[r]]]

\* A faulty variant: the user is read from the directory after the commit.
CreateSession_Reread(r) ==
    /\ pc[r] = "create"
    /\ StoreSession(r, directory)
    /\ SetSession(r, <<login[r], r>>)
    /\ SetLogin(r, None)
    /\ Done(r)
    /\ UNCHANGED <<stored, ghosts, database, page>>

\* The session is stored with the row the upsert returned; its cookie is set.
CreateSession(r) ==
    /\ pc[r] = "create"
    /\ StoreSession(r, user[r])
    /\ SetSession(r, <<login[r], r>>)
    /\ SetLogin(r, None)
    /\ Done(r)
    /\ UNCHANGED <<stored, ghosts, database, page>>

-----------------------------------------------------------------------------
(* cancel_login: the provider reports an error instead of a code.          *)

CancelledCallback(r, b) ==
    /\ pc[r] = "idle"
    /\ from' = [from EXCEPT ![r] = b]
    /\ login' = [login EXCEPT ![r] = loginCookie[b]]
    /\ Goto(r, "cancel")
    /\ UNCHANGED <<redis, ghosts, database, browsers, state, claims, user, sid, csrf>>

CancelLogin(r) ==
    /\ pc[r] = "cancel"
    /\ stored' = stored \ {login[r]}
    /\ SetLogin(r, None)
    /\ Done(r)
    /\ UNCHANGED <<session, principal, ghosts, database, sessionCookie, page>>

-----------------------------------------------------------------------------
(* Requests under a session.                                               *)

\* GET /me, and POST /logout from the page the browser shows.
Visit(r, b) ==
    /\ pc[r] = "idle"
    /\ from' = [from EXCEPT ![r] = b]
    /\ sid' = [sid EXCEPT ![r] = sessionCookie[b]]
    /\ \/ Goto(r, "read") /\ UNCHANGED csrf
       \/ /\ page[b] # None
          /\ csrf' = [csrf EXCEPT ![r] = page[b]]
          /\ Goto(r, "check")
    /\ UNCHANGED <<redis, ghosts, database, browsers, login, state, claims, user>>

\* A faulty variant: a safe request needs no CSRF token, and neither does
\* any other.
CsrfMatches_Any(r) == csrf[r] # None

CsrfMatches(r) == csrf[r] = sid[r]

\* get_browser_session finds a session to serve.
Serves(r) == sid[r] # None /\ session[sid[r]] = "live"

\* get_browser_session, which deletes a void session, or validate_csrf
\* refuses the request.
Refuse(r) ==
    /\ pc[r] \in {"read", "check"}
    /\ \/ ~Serves(r)
       \/ pc[r] = "check" /\ ~CsrfMatches(r)
    /\ IF sid[r] # None /\ session[sid[r]] = "void" THEN Drop(sid[r]) ELSE UNCHANGED session
    /\ Done(r)
    /\ UNCHANGED <<stored, principal, ghosts, database, browsers>>

\* /me answers with the csrf_token of the session.
Me(r) ==
    /\ pc[r] = "read" /\ Serves(r)
    /\ page' = [page EXCEPT ![from[r]] = sid[r]]
    /\ Done(r)
    /\ UNCHANGED <<redis, ghosts, database, loginCookie, sessionCookie>>

\* A logout with a session and its token passes.
CheckLogout(r) ==
    /\ pc[r] = "check" /\ Serves(r) /\ CsrfMatches(r)
    /\ Goto(r, "end")
    /\ UNCHANGED <<redis, ghosts, database, browsers, inputs>>

\* end_session: local logout does not depend on the provider's answer.
EndSession(r) ==
    /\ pc[r] = "end"
    /\ Drop(sid[r])
    /\ SetSession(r, None)
    /\ Done(r)
    /\ UNCHANGED <<stored, principal, ghosts, database, loginCookie, page>>

-----------------------------------------------------------------------------
\* A request is given up: its client is gone, a store fails or the process
\* dies.  The browser sees no response; an open transaction rolls back, or
\* the COMMIT that was cut short has happened.
GiveUp(r) ==
    /\ pc[r] # "idle"
    /\ directory' \in {directory} \union (IF pc[r] = "commit" THEN {user[r]} ELSE {})
    /\ rowLock' = IF rowLock = r THEN None ELSE rowLock
    /\ Done(r)
    /\ UNCHANGED <<redis, ghosts, browsers>>

\* The last step happened, but the response with its cookie is lost.
ResponseLost(r) ==
    /\ \/ pc[r] = "create" /\ StoreSession(r, user[r])
       \/ pc[r] = "end" /\ Drop(sid[r]) /\ UNCHANGED principal
    /\ Done(r)
    /\ UNCHANGED <<stored, ghosts, database, browsers>>

\* The keys of Redis expire; sessions also become void before that.
ExpireLogin(t) ==
    /\ t \in stored
    /\ stored' = stored \ {t}
    /\ UNCHANGED <<session, principal, ghosts, database, browsers, pc, inputs>>

Fade(s) ==
    /\ \/ session[s] = "live" /\ session' = [session EXCEPT ![s] = "void"]
       \/ session[s] \in {"live", "void"} /\ Drop(s)
    /\ UNCHANGED <<stored, principal, ghosts, database, browsers, pc, inputs>>

Start(r) == RedirectToProvider(r) \/ UrlFails(r) \/ Abandon(r)
Complete(r) == Take(r) \/ LoginFails(r) \/ Exchange(r) \/ UpsertUser(r)
                   \/ CommitUser(r) \/ CreateSession(r)
Serve(r) == Refuse(r) \/ Me(r) \/ CheckLogout(r) \/ EndSession(r)

Next ==
    \/ \E r \in Requests :
          \/ \E b \in Browsers :
                \/ CancelledCallback(r, b) \/ Visit(r, b)
                \/ \E t \in Logins : BeginLogin(r, b, t) \/ Callback(r, b, t)
          \/ Start(r) \/ Complete(r) \/ CancelLogin(r) \/ Serve(r)
          \/ GiveUp(r) \/ ResponseLost(r)
    \/ \E t \in Logins : ExpireLogin(t)
    \/ \E s \in Sessions : Fade(s)

Spec == Init /\ [][Next]_vars

-----------------------------------------------------------------------------
(* Properties.                                                             *)

\* Callbacks that run twice, or race with a cancellation or the expiry, make
\* at most one session of a login: only the request that took it makes one.
OneSessionPerLogin ==
    \A s \in Sessions : session[s] # "none" => taker[s[1]] = s[2]

\* A browser ends up only in sessions of logins it began itself, signed in by
\* a code that such a login was sent for, whatever callback URLs it opens and
\* however its tabs interleave.
LoginsAreOnesOwn ==
    \A b \in Browsers :
        LET s == sessionCookie[b]
        IN  s # None => starter[s[1]] = b /\ starter[principal[s].code] = b

\* Concurrent logins of one user, first ones too, of which any may roll back,
\* overwrite one row of the directory: still every session names the user
\* that is committed, and a new one has the roles its own token granted.
SessionsCarryTheirClaims ==
    [][\A s \in Sessions :
          /\ session'[s] # "none" =>
                directory' # None /\ principal'[s].user.id = directory'.id
          /\ session[s] = "none" /\ session'[s] # "none" =>
                principal'[s].user.roles = claims[s[2]]]_vars

\* A logout ends the session its page was loaded under: a page left over
\* from an earlier login cannot end the session of a later one.
LogoutsEndTheirOwn ==
    [][\A r \in Requests :
          pc[r] = "end" /\ session' # session /\ pc'[r] = "idle"
              => session' = [session EXCEPT ![csrf[r]] = "gone"]]_vars
=============================================================================
