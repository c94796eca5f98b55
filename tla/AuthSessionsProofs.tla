--------------------------- MODULE AuthSessionsProofs ---------------------------
(***************************************************************************)
(* Proofs about login transactions and sessions, for any browsers,         *)
(* requests, logins and roles.                                             *)
(*                                                                         *)
(* Ownership is followed from hand to hand: the cookie of a browser names  *)
(* a login it began, so does a request of the browser, and so do the       *)
(* session it makes and the cookie of that.  A login has no taker while it *)
(* is stored, so the one who takes it is the only one ever.                *)
(*                                                                         *)
(* The row of the user is written under its lock, so what is committed     *)
(* names the user that was there, if any; the request keeps the row it     *)
(* wrote for itself, whatever is written over it later.                    *)
(***************************************************************************)
EXTENDS AuthSessions, TLAPS

RequestsAreOwn ==
    \A r \in Requests :
        /\ pc[r] = "idle" => login[r] = None
        /\ pc[r] # "idle" => from[r] \in Browsers
        /\ login[r] # None => starter[login[r]] = from[r]

TakenOnce ==
    /\ \A t \in Logins : t \in stored \/ starter[t] = None => taker[t] = None
    /\ \A r \in Requests :
          pc[r] \in {"exchange", "upsert", "commit", "create"} =>
              login[r] \in Logins /\ taker[login[r]] = r

LogoutsAreChecked ==
    \A r \in Requests :
        pc[r] = "end" => sid[r] \in Sessions /\ csrf[r] = sid[r] /\ session[sid[r]] # "none"

CookiesAreOwn ==
    /\ \A b \in Browsers : loginCookie[b] # None => starter[loginCookie[b]] = b
    /\ \A b \in Browsers, s \in Sessions :
          sessionCookie[b] = s => session[s] # "none" /\ starter[s[1]] = b

SessionsAreTaken ==
    \A t \in Logins, r \in Requests : session[<<t, r>>] # "none" => taker[t] = r

\* The code is the login's own.
CodesAreOwn ==
    /\ \A r \in Requests : pc[r] \in {"upsert", "commit", "create"} => state[r] = login[r]
    /\ \A s \in Sessions :
          session[s] # "none" => principal[s] \in Principals /\ principal[s].code = s[1]

Written(r) == user[r] \in Users /\ user[r].roles = claims[r]

UserIsOne ==
    /\ \A r \in Requests :
          /\ pc[r] \in {"upsert", "commit", "create"} => claims[r] \in Roles
          /\ pc[r] \in {"commit", "create"} => Written(r)
          /\ pc[r] = "commit" => rowLock = r /\ (directory # None => user[r].id = directory.id)
          /\ pc[r] = "create" => directory # None /\ user[r].id = directory.id
    /\ \A s \in Sessions :
          session[s] # "none" => directory # None /\ principal[s].user.id = directory.id

Safe ==
    /\ RequestsAreOwn /\ TakenOnce /\ LogoutsAreChecked /\ CookiesAreOwn /\ SessionsAreTaken
    /\ CodesAreOwn /\ UserIsOne

IInv == TypeOK /\ Safe

LEMMA Pairs ==
    /\ \A t \in Logins, r \in Requests : <<t, r>> \in Sessions
    /\ \A s \in Sessions : s[1] \in Logins /\ s[2] \in Requests /\ s = <<s[1], s[2]>>
    /\ None \notin Sessions
BY NoneAssumption DEF Sessions

\* No row is None.
LEMMA NoUser == None \notin Users
BY NoneAssumption

LEMMA InitInv == Init => IInv
BY NoneAssumption, Pairs
DEF Init, IInv, TypeOK, PCs, Statuses, Safe, RequestsAreOwn, TakenOnce, LogoutsAreChecked,
    CookiesAreOwn, SessionsAreTaken, CodesAreOwn, UserIsOne

\* Steps that neither write the directory nor make a session.
Stays(q) ==
    /\ pc'[q] = pc[q] /\ login'[q] = login[q] /\ state'[q] = state[q]
    /\ claims'[q] = claims[q] /\ user'[q] = user[q]

Quiet ==
    /\ \A q \in Requests : Stays(q) \/ pc'[q] \notin {"upsert", "commit", "create"}
    /\ \A s \in Sessions : session'[s] # "none" => session[s] # "none"
    /\ UNCHANGED <<principal, database>>

LEMMA QuietInv ==
    ASSUME IInv, Quiet
    PROVE  CodesAreOwn' /\ UserIsOne'
BY DEF IInv, Safe, CodesAreOwn, UserIsOne, Written, Quiet, Stays, database

-----------------------------------------------------------------------------
(* Login.                                                                  *)

LEMMA BeginLoginInv ==
    ASSUME IInv, NEW r \in Requests, NEW b \in Browsers, NEW t \in Logins, BeginLogin(r, b, t)
    PROVE  IInv'
<1>1. TypeOK'
    BY DEF IInv, TypeOK, PCs, BeginLogin, Goto, database, browsers
<1>2. RequestsAreOwn' /\ CookiesAreOwn'
    BY NoneAssumption, Pairs
    DEF IInv, TypeOK, Safe, BeginLogin, Goto, browsers, RequestsAreOwn, CookiesAreOwn
<1>3. TakenOnce' /\ LogoutsAreChecked' /\ SessionsAreTaken'
    BY NoneAssumption
    DEF IInv, TypeOK, Safe, BeginLogin, Goto, TakenOnce, LogoutsAreChecked, SessionsAreTaken
<1>4. Quiet
    BY DEF IInv, TypeOK, BeginLogin, Goto, Quiet, Stays
<1> QED  BY <1>1, <1>2, <1>3, <1>4, QuietInv DEF IInv, Safe

LEMMA StartInv ==
    ASSUME IInv, NEW r \in Requests, Start(r)
    PROVE  IInv'
<1>1. TypeOK'
    BY DEF IInv, TypeOK, PCs, Safe, RequestsAreOwn, Start, RedirectToProvider, UrlFails, Abandon,
           Done, Goto, SetLogin, redis, ghosts, database, browsers, inputs
<1>2. RequestsAreOwn'
    BY NoneAssumption
    DEF IInv, TypeOK, Safe, Start, RedirectToProvider, UrlFails, Abandon, Done, Goto, redis,
        ghosts, inputs, RequestsAreOwn
<1>3. CookiesAreOwn'
    BY NoneAssumption
    DEF IInv, TypeOK, Safe, Start, RedirectToProvider, UrlFails, Abandon, SetLogin, redis,
        ghosts, browsers, RequestsAreOwn, CookiesAreOwn
<1>4. TakenOnce' /\ LogoutsAreChecked' /\ SessionsAreTaken'
    BY NoneAssumption
    DEF IInv, TypeOK, Safe, Start, RedirectToProvider, UrlFails, Abandon, Done, Goto, redis,
        ghosts, inputs, TakenOnce, LogoutsAreChecked, SessionsAreTaken
<1>5. Quiet
    BY DEF IInv, TypeOK, Start, RedirectToProvider, UrlFails, Abandon, Done, Goto, redis,
           inputs, Quiet, Stays
<1> QED  BY <1>1, <1>2, <1>3, <1>4, <1>5, QuietInv DEF IInv, Safe

-----------------------------------------------------------------------------
(* Callback.                                                               *)

LEMMA CallbackInv ==
    ASSUME IInv, NEW r \in Requests, NEW b \in Browsers,
           (\E t \in Logins : Callback(r, b, t)) \/ CancelledCallback(r, b) \/ Visit(r, b)
    PROVE  IInv'
<1>1. TypeOK'
    BY DEF IInv, TypeOK, PCs, Callback, CancelledCallback, Visit, Goto, redis, ghosts, database,
           browsers
<1>2. RequestsAreOwn'
    BY NoneAssumption
    DEF IInv, TypeOK, Safe, Callback, CancelledCallback, Visit, Goto, ghosts, RequestsAreOwn,
        CookiesAreOwn
<1>3. TakenOnce' /\ LogoutsAreChecked' /\ CookiesAreOwn' /\ SessionsAreTaken'
    BY DEF IInv, TypeOK, Safe, Callback, CancelledCallback, Visit, Goto, redis, ghosts, browsers,
           TakenOnce, LogoutsAreChecked, CookiesAreOwn, SessionsAreTaken
<1>4. Quiet
    BY DEF IInv, TypeOK, Callback, CancelledCallback, Visit, Goto, redis, Quiet, Stays
<1> QED  BY <1>1, <1>2, <1>3, <1>4, QuietInv DEF IInv, Safe

LEMMA TakeInv ==
    ASSUME IInv, NEW r \in Requests, Take(r)
    PROVE  IInv'
<1>1. login[r] \in Logins /\ taker[login[r]] = None /\ starter[login[r]] # None
    BY NoneAssumption DEF IInv, TypeOK, Safe, RequestsAreOwn, TakenOnce, Take
<1>2. TypeOK'
    BY <1>1 DEF IInv, TypeOK, PCs, Take, Goto, database, browsers, inputs
<1>3. RequestsAreOwn' /\ LogoutsAreChecked' /\ CookiesAreOwn'
    BY DEF IInv, TypeOK, Safe, Take, Goto, browsers, inputs, RequestsAreOwn, LogoutsAreChecked,
           CookiesAreOwn
<1>4. TakenOnce' /\ SessionsAreTaken'
    BY <1>1, NoneAssumption
    DEF IInv, TypeOK, Safe, Take, Goto, inputs, TakenOnce, SessionsAreTaken
<1>5. Quiet
    BY DEF IInv, TypeOK, Take, Goto, inputs, Quiet, Stays
<1> QED  BY <1>2, <1>3, <1>4, <1>5, QuietInv DEF IInv, Safe

\* Steps that store or end no session: the directory and the cookie change.
LEMMA WriteInv ==
    ASSUME IInv, NEW r \in Requests,
           Exchange(r) \/ UpsertUser(r) \/ CommitUser(r) \/ GiveUp(r)
    PROVE  CodesAreOwn' /\ UserIsOne'
<1>1. \A q \in Requests : q # r => Stays(q)
    BY DEF IInv, TypeOK, Exchange, UpsertUser, CommitUser, GiveUp, Done, Goto, inputs, Stays
<1>2. UNCHANGED <<session, principal>>
    BY DEF Exchange, UpsertUser, CommitUser, GiveUp, redis
<1>3. CASE Exchange(r)
    <2>1. /\ pc'[r] = "upsert" /\ claims'[r] \in Roles /\ state'[r] = login'[r]
          /\ UNCHANGED <<directory, rowLock>>
        BY <1>3 DEF IInv, TypeOK, Exchange, StateMatches, Goto, database
    <2> QED  BY <1>1, <1>2, <2>1 DEF IInv, Safe, CodesAreOwn, UserIsOne, Written, Stays
<1>4. CASE UpsertUser(r)
    <2>1. login[r] \in Logins /\ claims[r] \in Roles /\ state[r] = login[r]
        BY <1>4 DEF IInv, Safe, TakenOnce, CodesAreOwn, UserIsOne, UpsertUser
    <2>2. user'[r] = [id |-> IF directory = None THEN login[r] ELSE directory.id,
                      roles |-> claims[r]]
        BY <1>4 DEF IInv, TypeOK, UpsertUser
    <2>3. /\ user'[r] \in Users /\ user'[r].roles = claims[r]
          /\ directory # None => user'[r].id = directory.id
        BY <2>1, <2>2 DEF IInv, TypeOK, Users
    <2>4. /\ pc'[r] = "commit" /\ rowLock' = r
          /\ UNCHANGED <<directory, claims, state, login>>
          /\ \A q \in Requests : pc[q] # "commit"
        BY <1>4, NoneAssumption DEF IInv, TypeOK, Safe, UserIsOne, UpsertUser, Goto
    <2> QED  BY <1>1, <1>2, <2>1, <2>3, <2>4
        DEF IInv, Safe, CodesAreOwn, UserIsOne, Written, Stays
<1>5. CASE CommitUser(r)
    <2>1. /\ user[r] \in Users /\ user[r] # None /\ rowLock = r
          /\ directory # None => user[r].id = directory.id
        BY <1>5, NoUser DEF IInv, Safe, UserIsOne, Written, CommitUser
    <2>2. /\ pc'[r] = "create" /\ directory' = user[r]
          /\ UNCHANGED <<claims, state, login, user>>
        BY <1>5 DEF IInv, TypeOK, CommitUser, Goto, inputs
    <2>3. \A q \in Requests : q # r => pc[q] # "commit"
        BY <2>1 DEF IInv, Safe, UserIsOne
    <2> QED  BY <1>1, <1>2, <1>5, <2>1, <2>2, <2>3
        DEF IInv, Safe, CodesAreOwn, UserIsOne, Written, Stays, CommitUser
<1>6. CASE GiveUp(r)
    <2>1. pc'[r] = "idle"
        BY <1>6 DEF IInv, TypeOK, GiveUp, Done, Goto
    <2>2. \A q \in Requests : q # r /\ pc[q] = "commit" => rowLock' = rowLock /\ pc[r] # "commit"
        BY <1>6 DEF IInv, Safe, UserIsOne, GiveUp
    <2>3. \/ directory' = directory
          \/ pc[r] = "commit" /\ directory' = user[r]
        BY <1>6 DEF GiveUp
    <2>4. pc[r] = "commit" =>
              user[r] # None /\ (directory # None => user[r].id = directory.id)
        BY NoUser DEF IInv, Safe, UserIsOne, Written
    <2>5. directory # None => directory' # None /\ directory'.id = directory.id
        BY <2>3, <2>4
    <2>6. \A q \in Requests : q # r /\ pc[q] = "commit" => directory' = directory
        BY <2>2, <2>3
    <2> QED  BY <1>1, <1>2, <2>1, <2>2, <2>5, <2>6
        DEF IInv, Safe, CodesAreOwn, UserIsOne, Written, Stays
<1> QED  BY <1>3, <1>4, <1>5, <1>6

LEMMA CompleteInv ==
    ASSUME IInv, NEW r \in Requests,
           \/ LoginFails(r) \/ Exchange(r) \/ UpsertUser(r) \/ CommitUser(r)
           \/ CancelLogin(r) \/ GiveUp(r)
    PROVE  IInv'
<1>1. TypeOK'
    <2>1. CASE UpsertUser(r)
        <3>1. login[r] \in Logins /\ claims[r] \in Roles
            BY <2>1 DEF IInv, Safe, TakenOnce, UserIsOne, UpsertUser
        <3>2. [id |-> IF directory = None THEN login[r] ELSE directory.id,
               roles |-> claims[r]] \in Users
            BY <3>1 DEF IInv, TypeOK, Users
        <3> QED  BY <2>1, <3>2 DEF IInv, TypeOK, PCs, UpsertUser, Goto, redis, ghosts, browsers
    <2>2. CASE CommitUser(r)
        BY <2>2 DEF IInv, TypeOK, PCs, CommitUser, Goto, redis, ghosts, browsers, inputs
    <2>3. CASE GiveUp(r)
        <3>1. directory' \in Users \union {None} /\ rowLock' \in Requests \union {None}
            BY <2>3 DEF IInv, TypeOK, GiveUp
        <3> QED  BY <2>3, <3>1 DEF IInv, TypeOK, PCs, GiveUp, Done, Goto, redis, ghosts, browsers
    <2>4. CASE Exchange(r)
        BY <2>4 DEF IInv, TypeOK, PCs, Exchange, Goto, redis, ghosts, database, browsers
    <2>5. CASE LoginFails(r)
        BY <2>5 DEF IInv, TypeOK, PCs, LoginFails, Done, Goto, SetLogin, redis, ghosts, database
    <2>6. CASE CancelLogin(r)
        BY <2>6 DEF IInv, TypeOK, PCs, CancelLogin, Done, Goto, SetLogin, ghosts, database
    <2> QED  BY <2>1, <2>2, <2>3, <2>4, <2>5, <2>6
<1>2. RequestsAreOwn'
    BY NoneAssumption
    DEF IInv, TypeOK, Safe, LoginFails, Exchange, UpsertUser, CommitUser, CancelLogin, GiveUp,
        Done, Goto, redis, ghosts, inputs, RequestsAreOwn
<1>3. CookiesAreOwn'
    BY NoneAssumption
    DEF IInv, TypeOK, Safe, LoginFails, Exchange, UpsertUser, CommitUser, CancelLogin, GiveUp,
        SetLogin, redis, ghosts, browsers, RequestsAreOwn, CookiesAreOwn
<1>4. TakenOnce' /\ LogoutsAreChecked' /\ SessionsAreTaken'
    BY NoneAssumption
    DEF IInv, TypeOK, Safe, LoginFails, Exchange, UpsertUser, CommitUser, CancelLogin, GiveUp,
        Done, Goto, redis, ghosts, inputs, TakenOnce, LogoutsAreChecked, SessionsAreTaken
<1>5. CASE LoginFails(r) \/ CancelLogin(r)
    <2>1. Quiet
        BY <1>5 DEF IInv, TypeOK, LoginFails, CancelLogin, Done, Goto, redis, Quiet, Stays
    <2> QED  BY <1>1, <1>2, <1>3, <1>4, <2>1, QuietInv DEF IInv, Safe
<1> QED  BY <1>1, <1>2, <1>3, <1>4, <1>5, WriteInv DEF IInv, Safe

\* The session of a taken login is stored; its cookie may be lost.
SessionStored(r) ==
    /\ pc[r] = "create"
    /\ StoreSession(r, user[r])
    /\ Done(r)
    /\ UNCHANGED <<stored, ghosts, database, page>>
    /\ \/ SetSession(r, <<login[r], r>>) /\ SetLogin(r, None)
       \/ UNCHANGED <<loginCookie, sessionCookie>>

LEMMA StoreSessionInv ==
    ASSUME IInv, NEW r \in Requests, SessionStored(r)
    PROVE  IInv'
<1> DEFINE new == <<login[r], r>>
           made == [user |-> user[r], code |-> state[r]]
<1>1. /\ login[r] \in Logins /\ new \in Sessions /\ new[1] = login[r] /\ taker[login[r]] = r
      /\ from[r] \in Browsers /\ starter[login[r]] = from[r]
    BY NoneAssumption, Pairs
    DEF IInv, Safe, RequestsAreOwn, TakenOnce, SessionStored
<1>2. /\ session' = [session EXCEPT ![new] = "live"]
      /\ principal' = [principal EXCEPT ![new] = made]
    BY DEF SessionStored, StoreSession
<1>3. /\ made \in Principals /\ made.code = new[1]
      /\ directory # None /\ made.user.id = directory.id
    BY <1>1 DEF IInv, Safe, CodesAreOwn, UserIsOne, Written, SessionStored, Principals
<1>4. TypeOK'
    BY <1>1, <1>2, <1>3
    DEF IInv, TypeOK, PCs, Statuses, SessionStored, Done, Goto, SetLogin, SetSession, ghosts,
        database
<1>5. RequestsAreOwn' /\ TakenOnce'
    BY NoneAssumption
    DEF IInv, TypeOK, Safe, SessionStored, Done, Goto, ghosts, RequestsAreOwn, TakenOnce
<1>6. LogoutsAreChecked'
    BY <1>1, <1>2 DEF IInv, TypeOK, Safe, SessionStored, Done, Goto, LogoutsAreChecked
<1>7. CookiesAreOwn'
    BY <1>1, <1>2, NoneAssumption
    DEF IInv, TypeOK, Safe, SessionStored, SetLogin, SetSession, ghosts, CookiesAreOwn
<1>8. SessionsAreTaken'
    BY <1>1, <1>2, Pairs DEF IInv, TypeOK, Safe, SessionStored, ghosts, SessionsAreTaken
<1>9. \A q \in Requests : Stays(q) \/ pc'[q] = "idle"
    BY DEF IInv, TypeOK, SessionStored, Done, Goto, Stays
<1>10. UNCHANGED <<directory, rowLock>>
    BY DEF SessionStored, database
<1>11. \A s \in Sessions :
           \/ s = new /\ principal'[s] = made
           \/ principal'[s] = principal[s] /\ session'[s] = session[s]
    BY <1>1, <1>2 DEF IInv, TypeOK
<1>12. CodesAreOwn'
    BY <1>3, <1>9, <1>11 DEF IInv, Safe, CodesAreOwn, Stays
<1>13. UserIsOne'
    BY <1>3, <1>9, <1>10, <1>11 DEF IInv, Safe, UserIsOne, Written, Stays
<1> QED  BY <1>4, <1>5, <1>6, <1>7, <1>8, <1>12, <1>13 DEF IInv, Safe

-----------------------------------------------------------------------------
(* Requests under a session.                                               *)

\* A request ends and leaves everything as it is.
Leave(r) ==
    /\ pc[r] \in {"read", "check"}
    /\ Done(r)
    /\ UNCHANGED <<redis, ghosts, database, browsers>>

LEMMA ServeInv ==
    ASSUME IInv, NEW r \in Requests, Me(r) \/ CheckLogout(r) \/ Leave(r)
    PROVE  IInv'
<1>1. TypeOK'
    BY DEF IInv, TypeOK, PCs, Safe, RequestsAreOwn, Me, CheckLogout, Leave, Done, Goto, redis,
           ghosts, database, browsers, inputs
<1>2. RequestsAreOwn' /\ TakenOnce'
    BY NoneAssumption
    DEF IInv, TypeOK, Safe, Me, CheckLogout, Leave, Done, Goto, redis, ghosts, inputs,
        RequestsAreOwn, TakenOnce
<1>3. LogoutsAreChecked'
    BY DEF IInv, TypeOK, Safe, Me, CheckLogout, Leave, Done, Goto, Serves, CsrfMatches, redis,
           inputs, LogoutsAreChecked
<1>4. CookiesAreOwn' /\ SessionsAreTaken'
    BY DEF IInv, Safe, Me, CheckLogout, Leave, redis, ghosts, browsers, CookiesAreOwn,
           SessionsAreTaken
<1>5. Quiet
    BY DEF IInv, TypeOK, Me, CheckLogout, Leave, Done, Goto, redis, inputs, Quiet, Stays
<1> QED  BY <1>1, <1>2, <1>3, <1>4, <1>5, QuietInv DEF IInv, Safe

\* A session that was made is deleted; its cookie may stay.
DeleteSession(s) ==
    /\ s \in Sessions /\ session[s] # "none"
    /\ Drop(s)
    /\ UNCHANGED <<stored, principal, ghosts, database, loginCookie, page>>

LEMMA DeleteSessionInv ==
    ASSUME IInv, NEW r \in Requests, NEW s, DeleteSession(s), Done(r),
           SetSession(r, None) \/ UNCHANGED sessionCookie
    PROVE  IInv'
<1>1. TypeOK'
    BY DEF IInv, TypeOK, PCs, Statuses, DeleteSession, Drop, Done, Goto, SetSession, ghosts,
           database
<1>2. RequestsAreOwn' /\ TakenOnce'
    BY NoneAssumption
    DEF IInv, TypeOK, Safe, DeleteSession, Done, Goto, ghosts, RequestsAreOwn, TakenOnce
<1>3. LogoutsAreChecked'
    BY DEF IInv, TypeOK, Safe, DeleteSession, Drop, Done, Goto, LogoutsAreChecked
<1>4. CookiesAreOwn'
    BY NoneAssumption, Pairs
    DEF IInv, TypeOK, Safe, DeleteSession, Drop, SetSession, ghosts, CookiesAreOwn
<1>5. SessionsAreTaken'
    BY Pairs DEF IInv, TypeOK, Safe, DeleteSession, Drop, ghosts, SessionsAreTaken
<1>6. Quiet
    BY DEF IInv, TypeOK, DeleteSession, Drop, Done, Goto, Quiet, Stays
<1> QED  BY <1>1, <1>2, <1>3, <1>4, <1>5, <1>6, QuietInv DEF IInv, Safe

LEMMA RefuseInv ==
    ASSUME IInv, NEW r \in Requests, Refuse(r)
    PROVE  IInv'
<1>1. CASE sid[r] # None /\ session[sid[r]] = "void"
    <2>1. DeleteSession(sid[r]) /\ Done(r) /\ UNCHANGED sessionCookie
        BY <1>1 DEF IInv, TypeOK, Refuse, DeleteSession, browsers
    <2> QED  BY <2>1, DeleteSessionInv
<1>2. CASE ~(sid[r] # None /\ session[sid[r]] = "void")
    <2>1. Leave(r)
        BY <1>2 DEF Refuse, Leave, redis
    <2> QED  BY <2>1, ServeInv
<1> QED  BY <1>1, <1>2

LEMMA EndInv ==
    ASSUME IInv, NEW r \in Requests, CreateSession(r) \/ EndSession(r) \/ ResponseLost(r)
    PROVE  IInv'
<1>1. CASE SessionStored(r)
    BY <1>1, StoreSessionInv
<1>2. CASE pc[r] = "end" /\ (EndSession(r) \/ ResponseLost(r))
    <2>1. DeleteSession(sid[r]) /\ Done(r) /\ (SetSession(r, None) \/ UNCHANGED sessionCookie)
        BY <1>2 DEF IInv, Safe, LogoutsAreChecked, EndSession, ResponseLost, DeleteSession, browsers
    <2> QED  BY <2>1, DeleteSessionInv
<1> QED  BY <1>1, <1>2 DEF CreateSession, EndSession, ResponseLost, SessionStored, browsers

LEMMA ExpiryInv ==
    ASSUME IInv, (\E t \in Logins : ExpireLogin(t)) \/ (\E s \in Sessions : Fade(s))
    PROVE  IInv'
<1>1. TypeOK'
    BY DEF IInv, TypeOK, Statuses, ExpireLogin, Fade, Drop, ghosts, database, browsers, inputs
<1>2. /\ UNCHANGED <<principal, ghosts, database, loginCookie, sessionCookie, pc, inputs>>
      /\ stored' \subseteq stored
      /\ \A s \in Sessions : session[s] = "none" <=> session'[s] = "none"
    BY DEF IInv, TypeOK, ExpireLogin, Fade, Drop, browsers
<1>3. RequestsAreOwn' /\ TakenOnce' /\ LogoutsAreChecked'
    BY <1>2 DEF IInv, Safe, ghosts, inputs, RequestsAreOwn, TakenOnce, LogoutsAreChecked
<1>4. CookiesAreOwn' /\ SessionsAreTaken'
    BY <1>2, Pairs DEF IInv, Safe, ghosts, CookiesAreOwn, SessionsAreTaken
<1>5. Quiet
    BY <1>2 DEF inputs, Quiet, Stays
<1> QED  BY <1>1, <1>3, <1>4, <1>5, QuietInv DEF IInv, Safe

LEMMA StepInv == IInv /\ [Next]_vars => IInv'
<1> SUFFICES ASSUME IInv, [Next]_vars
             PROVE  IInv'
    OBVIOUS
<1>1. CASE UNCHANGED vars
    <2>1. Quiet
        BY <1>1 DEF vars, redis, inputs, Quiet, Stays
    <2> QED  BY <1>1, <2>1, QuietInv
        DEF IInv, TypeOK, Safe, RequestsAreOwn, TakenOnce, LogoutsAreChecked, CookiesAreOwn,
            SessionsAreTaken, vars, redis, ghosts, database, browsers, inputs
<1>2. ASSUME NEW r \in Requests, NEW b \in Browsers,
             \/ CancelledCallback(r, b) \/ Visit(r, b)
             \/ \E t \in Logins : BeginLogin(r, b, t) \/ Callback(r, b, t)
      PROVE  IInv'
    BY <1>2, BeginLoginInv, CallbackInv
<1>3. ASSUME NEW r \in Requests, Start(r) \/ Complete(r)
      PROVE  IInv'
    BY <1>3, StartInv, TakeInv, CompleteInv, EndInv DEF Complete
<1>4. ASSUME NEW r \in Requests, CancelLogin(r) \/ Serve(r) \/ GiveUp(r) \/ ResponseLost(r)
      PROVE  IInv'
    BY <1>4, CompleteInv, RefuseInv, ServeInv, EndInv DEF Serve
<1>5. CASE (\E t \in Logins : ExpireLogin(t)) \/ (\E s \in Sessions : Fade(s))
    BY <1>5, ExpiryInv
<1> QED  BY <1>1, <1>2, <1>3, <1>4, <1>5 DEF Next

LEMMA Invariant == Spec => []IInv
BY InitInv, StepInv, PTL DEF Spec

-----------------------------------------------------------------------------
\* Stores, cookies, rows and requests keep their types.
THEOREM Types == Spec => []TypeOK
<1>1. IInv => TypeOK
    BY DEF IInv
<1> QED  BY <1>1, Invariant, PTL

\* However its callbacks run, at most one session comes of a login.
THEOREM OneSession == Spec => []OneSessionPerLogin
<1>1. IInv => OneSessionPerLogin
    BY Pairs DEF IInv, Safe, SessionsAreTaken, OneSessionPerLogin
<1> QED  BY <1>1, Invariant, PTL

\* A browser ends up only in sessions of logins it began itself, signed in by
\* the code of such a login.
THEOREM OwnLogins == Spec => []LoginsAreOnesOwn
<1>1. IInv => LoginsAreOnesOwn
    BY DEF IInv, TypeOK, Safe, CookiesAreOwn, CodesAreOwn, LoginsAreOnesOwn
<1> QED  BY <1>1, Invariant, PTL

\* Only a request that completes its login makes a session.
LEMMA SessionsAreMade ==
    ASSUME IInv, [Next]_vars, NEW s \in Sessions, session[s] = "none", session'[s] # "none"
    PROVE  SessionStored(s[2]) /\ s = <<login[s[2]], s[2]>>
<1>1. \A d \in Sessions : session[d] # "none" => ~Drop(d)
    <2> SUFFICES ASSUME NEW d \in Sessions, session[d] # "none", Drop(d)
                 PROVE  FALSE
        OBVIOUS
    <2>1. session'[s] = session[s]
        BY DEF IInv, TypeOK, Drop
    <2> QED  BY <2>1
<1>2. \A d \in Sessions : ~Fade(d)
    <2> SUFFICES ASSUME NEW d \in Sessions, Fade(d)
                 PROVE  FALSE
        OBVIOUS
    <2>1. session'[s] = session[s]
        BY DEF IInv, TypeOK, Fade, Drop
    <2> QED  BY <2>1
<1>3. PICK q \in Requests : CreateSession(q) \/ ResponseLost(q) \/ Refuse(q) \/ EndSession(q)
    BY <1>2 DEF Next, Start, Complete, Serve, vars, redis, CancelledCallback, Visit, BeginLogin,
        Callback, RedirectToProvider, UrlFails, Abandon, Take, LoginFails, Exchange, UpsertUser,
        CommitUser, CancelLogin, Me, CheckLogout, GiveUp, ExpireLogin
<1>4. ~EndSession(q) /\ (pc[q] # "end" \/ ~ResponseLost(q))
    BY <1>1 DEF IInv, Safe, LogoutsAreChecked, EndSession, ResponseLost
<1>5. ~Refuse(q)
    BY <1>1 DEF IInv, TypeOK, Refuse
<1>6. SessionStored(q)
    BY <1>3, <1>4, <1>5 DEF CreateSession, ResponseLost, SessionStored, browsers
<1>7. s = <<login[q], q>>
    BY <1>6 DEF IInv, TypeOK, SessionStored, StoreSession
<1> QED  BY <1>6, <1>7

\* Whatever other logins of the user write, or roll back, a session names the
\* user that is committed, and has the roles of the token it was made with.
THEOREM OwnClaims == Spec => SessionsCarryTheirClaims
<1>1. ASSUME IInv, [Next]_vars, NEW s \in Sessions, session'[s] # "none"
      PROVE  directory' # None /\ principal'[s].user.id = directory'.id
    BY <1>1, StepInv DEF IInv, Safe, UserIsOne
<1>2. ASSUME IInv, [Next]_vars, NEW s \in Sessions, session[s] = "none", session'[s] # "none"
      PROVE  principal'[s].user.roles = claims[s[2]]
    <2>1. SessionStored(s[2]) /\ s = <<login[s[2]], s[2]>>
        BY <1>2, SessionsAreMade
    <2>2. s[2] \in Requests /\ user[s[2]].roles = claims[s[2]]
        BY <1>2, <2>1, Pairs DEF IInv, Safe, UserIsOne, Written, SessionStored
    <2>3. principal'[s] = [user |-> user[s[2]], code |-> state[s[2]]]
        BY <1>2, <2>1 DEF IInv, TypeOK, SessionStored, StoreSession
    <2> QED  BY <2>2, <2>3
<1>3. IInv /\ [Next]_vars => [\A s \in Sessions :
          /\ session'[s] # "none" =>
                directory' # None /\ principal'[s].user.id = directory'.id
          /\ session[s] = "none" /\ session'[s] # "none" =>
                principal'[s].user.roles = claims[s[2]]]_vars
    BY <1>1, <1>2
<1> QED  BY <1>3, Invariant, PTL DEF Spec, SessionsCarryTheirClaims

\* A logout ends the session its page was loaded under, and no other.
THEOREM OwnLogouts == Spec => LogoutsEndTheirOwn
<1>1. ASSUME IInv, [Next]_vars, NEW r \in Requests,
             pc[r] = "end", session' # session, pc'[r] = "idle"
      PROVE  session' = [session EXCEPT ![csrf[r]] = "gone"]
    <2>1. PICK q \in Requests : CreateSession(q) \/ ResponseLost(q) \/ Refuse(q) \/ EndSession(q)
        BY <1>1 DEF Next, Start, Complete, Serve, vars, redis, CancelledCallback, Visit,
            BeginLogin, Callback, RedirectToProvider, UrlFails, Abandon, Take, LoginFails,
            Exchange, UpsertUser, CommitUser, CancelLogin, Me, CheckLogout, GiveUp, ExpireLogin,
            Fade
    <2>2. q = r
        BY <1>1, <2>1
        DEF IInv, TypeOK, CreateSession, ResponseLost, Refuse, EndSession, Done, Goto
    <2> QED  BY <1>1, <2>1, <2>2
        DEF IInv, Safe, LogoutsAreChecked, CreateSession, ResponseLost, Refuse, EndSession, Drop
<1>2. IInv /\ [Next]_vars => [\A r \in Requests :
          pc[r] = "end" /\ session' # session /\ pc'[r] = "idle"
              => session' = [session EXCEPT ![csrf[r]] = "gone"]]_vars
    BY <1>1
<1> QED  BY <1>2, Invariant, PTL DEF Spec, LogoutsEndTheirOwn
=============================================================================
