----------------------------- MODULE WebSession -----------------------------
(* Browser sessions: the Session and CSRF middleware (middleware/session.go,  *)
(* middleware/csrf.go) over the CookieStore (session/), as the handlers of    *)
(* the account module and the application use them.  The store keeps nothing  *)
(* on the server: the session is the cookie, so what one browser with several *)
(* tabs holds depends on the order in which its responses arrive.             *)
(*                                                                            *)
(* External: the browser (cookie jar, tabs, rendered forms), an application   *)
(* handler that uses SetMaxAge.                                               *)
(* Abstracted: encryption and forged cookies (Decode accepts what Encode      *)
(* made), the session ID and other values, which nothing here reads, changes  *)
(* after the first write, which the middleware drops, form validation,        *)
(* rendering, JSON clients with Bearer tokens, which have no session state.   *)
EXTENDS Naturals, Sequences, FiniteSets

CONSTANTS
    Tabs,           \* each has at most one request in flight
    Emails, Passwords,
    FirstID,        \* the first user ID
    Exact,          \* the largest integer float64 holds exactly (2^53)
    DefaultAge,     \* SessionConfig.MaxAge; 0: until the browser closes
    RememberAge,    \* the argument of SetMaxAge
    MaxInFlight,    \* bound on requests in flight
    MaxTokens, MaxLogins, MaxUsers, MaxTime,    \* bounds on what is ever made
    None

ASSUME SessionAssumption ==
    /\ FirstID \in Nat \ {0} /\ Exact \in Nat /\ DefaultAge \in Nat
    /\ RememberAge \in Nat \ {0}
    /\ MaxInFlight \in Nat /\ MaxTokens \in Nat /\ MaxLogins \in Nat
    /\ MaxUsers \in Nat /\ MaxTime \in Nat

\* sessionPayload, and the cookie it is sent in.
SessionData == [csrf : Nat \cup {None}, user : Nat, expires : Nat, login : Nat]
Cookies     == [sess : SessionData, until : Nat]

\* nil is none of the values it is compared with.
ASSUME NoneAssumption == None \notin Nat \cup SessionData \cup Cookies

\* User IDs are counted from FirstID on and do not reach 2^53.
ASSUME ExactAssumption == FirstID + MaxUsers <= Exact + 1

VARIABLES
    jar,        \* the browser's cookie: the session in it and its end, or None
    page,       \* [tab]: the CSRF token of the form it shows, or None
    pc,         \* [tab]: "idle", "handler", "checked", "created", "answered"
    op,         \* [tab]: what its request asks for
    form,       \* [tab]: email and password sent with it
    sess,       \* [tab]: the *Session of its request
    created,    \* [tab]: the user that Service.Register returned, or None
    resp,       \* [tab]: the response: its cookie and the form's token
    users,      \* the repository: email and password of each user, in order
    tokens,     \* CSRF tokens generated so far
    now,
    logins,     \* history: the user of each successful login or registration
    ended,      \* history: the logins whose logout the browser has received,
                \* while no other request of the login was in flight
    shared,     \* history: tabs whose request was in flight with another one
    raced       \* history: emails that were being registered twice at a time

histVars == <<ended, shared, raced>>
reqVars == <<op, form, sess, created, resp>>
vars == <<jar, page, pc, reqVars, users, tokens, now, logins, histVars>>

Ops     == {"show", "login", "register", "logout", "remember"}
Unsafe  == {"login", "register", "logout"}

InFlight == {t \in Tabs : pc[t] # "idle"}
Cookie(s, until) == [sess |-> s, until |-> until]
-----------------------------------------------------------------------------
(* Sessions and cookies *)

\* newSession
NewData == [csrf |-> None, user |-> 0, expires |-> 0, login |-> 0]
Fresh(data, new) ==
    [data |-> data, isNew |-> new, modified |-> FALSE, destroyed |-> FALSE, maxAge |-> 0]

\* JSON hands numbers back as float64: integers beyond Exact are rounded.
Float(n) == IF n <= Exact THEN n ELSE IF n % 4 = 3 THEN n + 1 ELSE n - (n % 2)

\* Encode and Decode: maxAge and the flags are not part of the payload, and an
\* expired session is refused.
Decode(c) ==
    IF c.sess.expires # 0 /\ now > c.sess.expires
    THEN None
    ELSE [c.sess EXCEPT !.user = Float(@)]

\* The browser sends its cookie until it ends.
Sent == IF jar # None /\ (jar.until = 0 \/ now < jar.until) THEN jar ELSE None

\* loadSession
LoadSession ==
    IF Sent = None \/ Decode(Sent) = None
    THEN Fresh(NewData, TRUE)
    ELSE Fresh(Decode(Sent), FALSE)

\* Mutant: a destroyed session is saved like any other.
Save_IgnoresDestroy(s) ==
    IF ~s.isNew /\ ~s.modified THEN {}
    ELSE LET age == IF s.maxAge > 0 THEN s.maxAge ELSE DefaultAge
         IN  {Cookie(s.data, IF age = 0 THEN 0 ELSE now + age)}

\* saveSession: the Set-Cookie of the response: none, {None} to clear the
\* cookie, or the new one.
Save(s) ==
    IF s.destroyed THEN {None}
    ELSE IF ~s.isNew /\ ~s.modified THEN {}
    ELSE LET age == IF s.maxAge > 0 THEN s.maxAge ELSE DefaultAge
         IN  {Cookie(s.data, IF age = 0 THEN 0 ELSE now + age)}

\* Session methods.
Modify(s, data) == [s EXCEPT !.data = data, !.modified = TRUE]
LogIn(s, id) == Modify(s, [s.data EXCEPT !.user = id, !.login = Len(logins')])
Destroy(s)   == [s EXCEPT !.destroyed = TRUE, !.modified = TRUE]
SetMaxAge(s) == [Modify(s, [s.data EXCEPT !.expires = now + RememberAge])
                    EXCEPT !.maxAge = RememberAge]

\* The response is written: WriteHeader saves s and the form, if any, carries tok.
\* Nothing reads the request any more.
Answer(t, s, tok) ==
    /\ sess' = [sess EXCEPT ![t] = s]
    /\ resp' = [resp EXCEPT ![t] = [cookie |-> Save(s), token |-> tok]]
    /\ op' = [op EXCEPT ![t] = "show"]
    /\ form' = [form EXCEPT ![t] = None]
    /\ created' = [created EXCEPT ![t] = None]
-----------------------------------------------------------------------------
Init ==
    /\ jar = None
    /\ page = [t \in Tabs |-> None]
    /\ pc = [t \in Tabs |-> "idle"]
    /\ op = [t \in Tabs |-> "show"]
    /\ form = [t \in Tabs |-> None]
    /\ sess = [t \in Tabs |-> Fresh(NewData, TRUE)]
    /\ created = [t \in Tabs |-> None]
    /\ resp = [t \in Tabs |-> None]
    /\ users = <<>> /\ tokens = 0 /\ now = 0 /\ logins = <<>>
    /\ ended = {} /\ shared = {} /\ raced = {}

\* Mutant: a session that already has a token gets a new one.
WithToken_AlwaysNew(s) == Modify(s, [s.data EXCEPT !.csrf = tokens + 1])

\* CSRF: a session without a token gets one.
WithToken(s) ==
    IF s.data.csrf # None THEN s ELSE Modify(s, [s.data EXCEPT !.csrf = tokens + 1])

\* CSRF: an unsafe request must carry the token of its session.
TokenValid(t, o, s) == o \in Unsafe => page[t] = s.data.csrf

\* A tab sends a request.  The session is loaded and gets a token; a request
\* that CSRF refuses is answered at once, the others reach their handler.
Request(t, o, f) ==
    LET s == WithToken(LoadSession) IN
    /\ pc[t] = "idle" /\ Cardinality(InFlight) < MaxInFlight
    /\ s.data.csrf \in 1..MaxTokens
    /\ tokens' = IF s.data.csrf > tokens THEN s.data.csrf ELSE tokens
    /\ \/ /\ ~TokenValid(t, o, s)
          /\ pc' = [pc EXCEPT ![t] = "answered"]
          /\ Answer(t, s, None)
       \/ /\ TokenValid(t, o, s)
          /\ pc' = [pc EXCEPT ![t] = "handler"]
          /\ sess' = [sess EXCEPT ![t] = s]
          /\ op' = [op EXCEPT ![t] = o]
          /\ form' = [form EXCEPT ![t] = f]
          /\ UNCHANGED <<resp, created>>
    /\ shared' = IF InFlight = {} THEN shared ELSE shared \cup InFlight \cup {t}
    /\ UNCHANGED <<jar, page, users, now, logins, ended, raced>>
-----------------------------------------------------------------------------
(* Handlers *)

\* The repository finds the first user with an email.
FindByEmail(e) ==
    LET found == {n \in DOMAIN users : users[n].email = e}
    IN  IF found = {} THEN None ELSE CHOOSE n \in found : \A m \in found : n <= m
UserID(n) == FirstID + n - 1

\* ShowLogin, ShowRegister, Profile: a page with a form.
Show(t) ==
    /\ pc[t] = "handler" /\ op[t] = "show"
    /\ Answer(t, sess[t], sess[t].data.csrf)
    /\ pc' = [pc EXCEPT ![t] = "answered"]
    /\ UNCHANGED <<jar, page, users, tokens, now, logins, histVars>>

\* Mutant: the password is not verified.
Authenticate_EmailOnly(f) == FindByEmail(f.email)

\* Service.Authenticate: the user the credentials belong to, or None.
Authenticate(f) ==
    LET n == FindByEmail(f.email)
    IN  IF n # None /\ users[n].password = f.password THEN n ELSE None

\* Login: the session of the user, and a redirect; or the form again.
Login(t) ==
    LET n == Authenticate(form[t]) IN
    /\ pc[t] = "handler" /\ op[t] = "login"
    /\ \/ /\ n # None /\ Len(logins) < MaxLogins
          /\ logins' = Append(logins, [id |-> UserID(n), by |-> form[t]])
          /\ Answer(t, LogIn(sess[t], UserID(n)), None)
       \/ /\ n = None
          /\ Answer(t, sess[t], sess[t].data.csrf)
          /\ UNCHANGED logins
    /\ pc' = [pc EXCEPT ![t] = "answered"]
    /\ UNCHANGED <<jar, page, users, tokens, now, histVars>>

\* Mutant: the email is not looked up before the user is created.
RegisterCheck_NoLookup(t) ==
    /\ pc[t] = "handler" /\ op[t] = "register"
    /\ pc' = [pc EXCEPT ![t] = "checked"]
    /\ UNCHANGED <<jar, page, reqVars, users, tokens, now, logins, histVars>>

\* Service.Register looks for the email ...
RegisterCheck(t) ==
    /\ pc[t] = "handler" /\ op[t] = "register"
    /\ pc' = [pc EXCEPT ![t] =
                IF FindByEmail(form[t].email) = None THEN "checked" ELSE "created"]
    /\ raced' = raced \cup {form[u].email : u \in {x \in Tabs :
                                pc[x] = "checked" /\ form[x].email = form[t].email}}
    /\ UNCHANGED <<jar, page, reqVars, users, tokens, now, logins, ended, shared>>

\* Create of the repository; the user has the next ID.
Create(f) == Len(users) < MaxUsers /\ users' = Append(users, f)

\* ... hashes the password, and creates the user.
RegisterCreate(t) ==
    /\ pc[t] = "checked"
    /\ Create(form[t])
    /\ created' = [created EXCEPT ![t] = Len(users')]
    /\ pc' = [pc EXCEPT ![t] = "created"]
    /\ UNCHANGED <<jar, page, op, form, sess, resp, tokens, now, logins, histVars>>

\* Register logs the new user in, or shows the form again.
Register(t) ==
    LET n == created[t] IN
    /\ pc[t] = "created"
    /\ \/ /\ n # None /\ Len(logins) < MaxLogins
          /\ logins' = Append(logins, [id |-> UserID(n), by |-> form[t]])
          /\ Answer(t, LogIn(sess[t], UserID(n)), None)
       \/ /\ n = None
          /\ Answer(t, sess[t], sess[t].data.csrf)
          /\ UNCHANGED logins
    /\ pc' = [pc EXCEPT ![t] = "answered"]
    /\ UNCHANGED <<jar, page, users, tokens, now, histVars>>

Logout(t) ==
    /\ pc[t] = "handler" /\ op[t] = "logout"
    /\ Answer(t, Destroy(sess[t]), None)
    /\ pc' = [pc EXCEPT ![t] = "answered"]
    /\ UNCHANGED <<jar, page, users, tokens, now, logins, histVars>>

\* External: an application handler that calls SetMaxAge ("Remember Me").
Remember(t) ==
    /\ pc[t] = "handler" /\ op[t] = "remember"
    /\ Answer(t, SetMaxAge(sess[t]), None)
    /\ pc' = [pc EXCEPT ![t] = "answered"]
    /\ UNCHANGED <<jar, page, users, tokens, now, logins, histVars>>
-----------------------------------------------------------------------------
\* External: the browser receives the response.
Deliver(t) ==
    LET c == resp[t].cookie
        login == sess[t].data.login
    IN
    /\ pc[t] = "answered"
    /\ pc' = [pc EXCEPT ![t] = "idle"]
    /\ page' = [page EXCEPT ![t] = resp[t].token]
    /\ jar' = IF c = {} THEN jar ELSE CHOOSE new \in c : TRUE
    /\ ended' = IF /\ sess[t].destroyed /\ login # 0
                   /\ \A u \in InFlight \ {t} : sess[u].data.login # login
                THEN ended \cup {login} ELSE ended
    /\ shared' = shared \ {t}
    /\ resp' = [resp EXCEPT ![t] = None]
    /\ sess' = [sess EXCEPT ![t] = Fresh(NewData, TRUE)]
    /\ UNCHANGED <<op, form, created, users, tokens, now, logins, raced>>

\* External: the browser closes and forgets cookies without an end.
Restart ==
    /\ InFlight = {} /\ jar # None
    /\ jar' = IF jar.until = 0 THEN None ELSE jar
    /\ page' = [t \in Tabs |-> None]
    /\ UNCHANGED <<pc, reqVars, users, tokens, now, logins, histVars>>

Tick ==
    /\ now < MaxTime
    /\ now' = now + 1
    /\ UNCHANGED <<jar, page, pc, reqVars, users, tokens, logins, histVars>>

TabStep(t) ==
    \/ \E o \in Ops \ {"login", "register"} : Request(t, o, None)
    \/ \E o \in {"login", "register"}, f \in [email : Emails, password : Passwords] :
          Request(t, o, f)
    \/ Show(t) \/ Login(t) \/ RegisterCheck(t) \/ RegisterCreate(t) \/ Register(t)
    \/ Logout(t) \/ Remember(t)
    \/ Deliver(t)

Next == (\E t \in Tabs : TabStep(t)) \/ Restart \/ Tick

Spec == Init /\ [][Next]_vars
-----------------------------------------------------------------------------
(* Properties *)

\* Whoever the browser's session names has logged in or registered in this
\* browser, with that user's own password, although the ID went through JSON.
SessionUserProved ==
    jar # None /\ jar.sess.user # 0 =>
        /\ jar.sess.login \in DOMAIN logins
        /\ logins[jar.sess.login].id = jar.sess.user
        /\ users[jar.sess.user - FirstID + 1] = logins[jar.sess.login].by

\* Whoever was registered can log in: Authenticate finds that very user, and not
\* another one registered with the same email, as long as no two registrations
\* of the email were both past the lookup (modules/account/service.go:35-36).
CredentialsWork ==
    \A n \in DOMAIN users : users[n].email \notin raced => Authenticate(users[n]) = n

\* Once the browser has received the answer of a logout the login it ended does
\* not come back, whatever other tabs do, unless one of their requests was still
\* in flight with that login: its response may hold a copy of the session.
LogoutFinal == jar # None => jar.sess.login \notin ended

\* The response to a request that no other one overlapped leaves the CSRF token
\* of a valid session as it was, so that forms rendered earlier stay valid
\* through logins and every other change, unless it clears the session.
TokenKept ==
    [][\A t \in Tabs \ shared :
          /\ pc[t] = "answered" /\ pc'[t] = "idle"
          /\ Sent # None /\ Decode(Sent) # None /\ jar' # None
          => jar'.sess.csrf = jar.sess.csrf]_vars
=============================================================================
