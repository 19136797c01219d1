---------------------------- MODULE RequestChain ----------------------------
(* HTTP exchanges through the middleware that main gives to the router, the   *)
(* account module's routes and the renderer.  Each middleware is an operator  *)
(* on the exchange and a step: Pass enters them from the outermost inwards,   *)
(* until one answers, and Unwind does what follows next.ServeHTTP in those    *)
(* that were entered, from the innermost outwards.  The response goes through *)
(* the sessionWriter, then the statusWriter, then net/http.                   *)
(*                                                                            *)
(* Shared by concurrent exchanges: the template cache, the template files,    *)
(* the users' roles, the tokens issued and the clock.                         *)
(* External: net/http, html/template, golang-jwt, the UserFinder, routes      *)
(* guarded by RequireRole and handlers other than the account module's.       *)
(* Abstracted: header values and bodies (what kind they are), cookies that do *)
(* not decode (like no cookie), the buckets behind RateLimit (RateLimiter),   *)
(* credentials and session ages (WebSession); a page's files are one file;    *)
(* PUT, PATCH and DELETE, as unsafe as POST, which no route uses; in Auth the *)
(* TokenService is there and a UserFinder that knows the user or fails (an    *)
(* unknown user, or no UserFinder, is a request without a user).              *)
EXTENDS Naturals, FiniteSets, Sequences

CONSTANTS
    Slots,      \* the goroutines of net/http that serve requests
    Users,
    Traffic,    \* [family]: what clients, files and the clock do in a behaviour:
                \* [parallel, requests, files, reload, edits, time]
    TTL,        \* accessLifetime
    MaxStall,   \* bound on the time a login takes between roles and token
    MaxTokens,  \* bound on tokens in circulation
    None

Pages == {"login", "register", "profile"}
Kinds == {"complete", "incomplete", "failing", "invalid"}

\* A session's data: the user, whether CSRF gave it a token, a value of a handler.
Data == [user : Users \cup {None}, csrf : BOOLEAN, val : {"old", "new", "bad"}]

\* cookie: the session the client presents; tok: it presents its CSRF token;
\* fault: the limiter or the UserFinder refuses.
Requests == [route : STRING, method : STRING, hdrs : SUBSET STRING, auth : STRING,
             origin : STRING, cookie : Data \cup {None}, tok : BOOLEAN, fault : STRING]

Headers  == {"id", "security", "csp", "allowOrigin"}
Response == [status : Nat, hdr : SUBSET Headers, cookie : SUBSET (Data \cup {None})]
Token    == [user : Users, admin : BOOLEAN, exp : Nat]
User     == [id : Users, admin : BOOLEAN, by : {"token", "session", "password"}]

ASSUME ChainAssumption ==
    /\ TTL \in Nat \ {0} /\ MaxStall \in Nat /\ MaxTokens \in Nat
    /\ \A f \in DOMAIN Traffic :
          /\ Traffic[f].requests \subseteq Requests
          /\ Traffic[f].files \subseteq [Pages -> Kinds]
          /\ Traffic[f].reload \in BOOLEAN
    /\ None \notin Nat /\ None \notin Users
    /\ None \notin Response /\ None \notin Token /\ None \notin User

VARIABLES
    exchange,   \* [slot]: the exchange it serves, or None
    tmpls,      \* [page]: Renderer.tmpls, the kind of template it caches
    files,      \* [page]: the kind of file on disk
    past,       \* history: [page]: the kinds its file has been of
    admins,     \* the users that have the admin role
    revoked,    \* history: [user]: when it last lost the role
    tokens,     \* access tokens issued
    now,
    edits,      \* edits of files so far
    family      \* of requests that this behaviour has

fileVars == <<files, past, edits>>
userVars == <<admins, revoked, tokens>>
shared   == <<tmpls, fileVars, userVars, now, family>>
vars     == <<exchange, shared>>

traffic == Traffic[family]

\* Mutant: the headers are set by the innermost middleware.
Chain_HeadersLast == <<"RequestID", "Recovery", "Logger", "ContextDetect", "Session", "Auth",
                       "CSRF", "CORS", "RateLimit", "SecurityHeaders">>

\* What main passes to Use, with Auth, which main leaves out, where it needs to be.
Chain == <<"RequestID", "Recovery", "Logger", "ContextDetect", "SecurityHeaders",
           "Session", "Auth", "CSRF", "CORS", "RateLimit">>
-----------------------------------------------------------------------------
(* Sessions and the response writers *)

newSession == [data |-> [user |-> None, csrf |-> FALSE, val |-> "old"],
               isNew |-> TRUE, modified |-> FALSE, destroyed |-> FALSE]

Set(sess, data) == [sess EXCEPT !.data = data, !.modified = TRUE]

\* Set-Cookie: nothing, a cleared cookie, or the session's data.  "bad" stands
\* for a value that Encode cannot marshal.
saveSession(x) ==
    LET s == x.sess IN
    [x EXCEPT !.cookie =
        IF s.destroyed THEN {None}
        ELSE IF (s.isNew \/ s.modified) /\ s.data.val # "bad" THEN {s.data}
        ELSE @]

\* External: net/http sends the headers as they are with the first status.
Send(x, code) ==
    IF x.out # None THEN x
    ELSE [x EXCEPT !.out = [status |-> code, hdr |-> x.hdr, cookie |-> x.cookie]]

\* sessionWriter: the session is saved before the first byte.
FirstWrite(x) == IF x.saved THEN x ELSE [saveSession(x) EXCEPT !.saved = TRUE]

\* Mutant: Write does not save the session.
Write_NotIntercepted(x, body) == [Send(x, 200) EXCEPT !.body = body, !.saved = TRUE]

\* Write and Flush: the statusWriter does not intercept them.
Write(x, body) == [Send(FirstWrite(x), 200) EXCEPT !.body = body]

\* Mutant: the statusWriter keeps the last status.
StatusWriter_KeepsLast(x, code) == Send([x EXCEPT !.status = code, !.wroteHeader = TRUE], code)

\* statusWriter.WriteHeader keeps the first status for the log.
StatusWriter(x, code) ==
    Send(IF x.wroteHeader THEN x ELSE [x EXCEPT !.status = code, !.wroteHeader = TRUE], code)

\* sessionWriter.WriteHeader
WriteHeader(x, code) == StatusWriter(FirstWrite(x), code)

\* http.Error, http.Redirect, JSON: a status and a body; the handler returns.
Respond(x, code, body) == [Write(WriteHeader(x, code), body) EXCEPT !.pc = "leave"]
-----------------------------------------------------------------------------
(* The middleware on the way in *)

RequestID(x) == [x EXCEPT !.hdr = @ \cup {"id"}]

DetectRequestContext(rq) ==
    IF \/ "json" \in rq.hdrs
       \/ "acceptJson" \in rq.hdrs /\ "acceptHtml" \notin rq.hdrs
       \/ rq.auth = "bearer"
       \/ "xhr" \in rq.hdrs
    THEN "api" ELSE "ssr"

ContextDetect(x) == [x EXCEPT !.ctx = DetectRequestContext(x.in)]

SecurityHeaders(x) ==
    [x EXCEPT !.hdr = @ \cup {"security"} \cup (IF x.ctx = "ssr" THEN {"csp"} ELSE {})]

loadSession(x) ==
    [x EXCEPT !.sess = IF x.in.cookie = None THEN newSession
                       ELSE [newSession EXCEPT !.data = x.in.cookie, !.isNew = FALSE]]

\* Mutant: expired tokens are accepted.
ValidateAccessToken_NoExpiry(t) == t # None

\* External: golang-jwt; a token that was not issued is None.
ValidateAccessToken(t) == t # None /\ now < t.exp

\* History: the time since the user last had the role.
RoleAge(u) ==
    IF u \in admins THEN 0
    ELSE IF revoked[u] = None THEN TTL + MaxStall
    ELSE now - revoked[u]

SetUser(x, id, admin, by) ==
    [x EXCEPT !.user = [id |-> id, admin |-> admin, by |-> by], !.age = RoleAge(id)]

\* Mutant: without a Bearer token the session is used in the API context too.
Auth_FallsBack(x) ==
    LET id == x.sess.data.user IN
    CASE x.in.auth = "bearer" /\ ValidateAccessToken(x.bearer) ->
            SetUser(x, x.bearer.user, x.bearer.admin, "token")
      [] x.in.auth # "bearer" /\ id = None -> x
      [] x.in.auth # "bearer" /\ id # None -> SetUser(x, id, id \in admins, "session")
      [] OTHER -> Respond(x, 401, "refused")

\* authenticateBearer, authenticateSession and handleAuthError.  The UserFinder
\* returns the roles of now, or fails.
Auth(x) ==
    LET id == x.sess.data.user IN
    CASE x.ctx = "api" /\ x.in.auth = "none" -> x
      [] x.ctx = "api" /\ x.in.auth = "bearer" /\ ValidateAccessToken(x.bearer) ->
            SetUser(x, x.bearer.user, x.bearer.admin, "token")
      [] x.ctx = "ssr" /\ id = None -> x
      [] x.ctx = "ssr" /\ id # None /\ x.in.fault # "finder" ->
            SetUser(x, id, id \in admins, "session")
      [] OTHER -> Respond(x, IF x.ctx = "api" THEN 401 ELSE 303, "refused")

\* Skipped for the API; a session without a token gets one, which the request
\* cannot have known.
CSRF(x) ==
    LET known == x.sess.data.csrf
        y == IF known THEN x
             ELSE [x EXCEPT !.sess = Set(@, [@.data EXCEPT !.csrf = TRUE])]
    IN  IF x.ctx = "api" THEN x
        ELSE IF x.in.method # "POST" \/ (known /\ x.in.tok) THEN y
        ELSE Respond(y, 403, "refused")

\* Skipped for SSR and for requests without Origin; answers a preflight itself.
CORS(x) ==
    LET y == IF x.in.origin = "ours"
             THEN [x EXCEPT !.hdr = @ \cup {"allowOrigin"}] ELSE x
    IN  IF x.ctx = "ssr" \/ x.in.origin = "none" THEN x
        ELSE IF x.in.method = "OPTIONS" THEN [WriteHeader(y, 204) EXCEPT !.pc = "leave"]
        ELSE y

RateLimit(x) == IF x.in.fault = "limited" THEN Respond(x, 429, "refused") ELSE x

\* One middleware up to its call of next.ServeHTTP, or to its answer.
Enter(x, m) ==
    CASE m = "RequestID"       -> RequestID(x)
      [] m = "ContextDetect"   -> ContextDetect(x)
      [] m = "SecurityHeaders" -> SecurityHeaders(x)
      [] m = "Session"         -> loadSession(x)
      [] m = "Auth"            -> Auth(x)
      [] m = "CSRF"            -> CSRF(x)
      [] m = "CORS"            -> CORS(x)
      [] m = "RateLimit"       -> RateLimit(x)
      [] m \in {"Recovery", "Logger"} -> x
-----------------------------------------------------------------------------
(* The routes *)

AccountRoutes == {<<"GET", "login">>, <<"POST", "login">>, <<"GET", "register">>,
                  <<"POST", "register">>, <<"POST", "logout">>, <<"GET", "profile">>,
                  <<"POST", "apiLogin">>, <<"GET", "apiMe">>}

\* The patterns mounted on the mux, two of an application among them.
Routes == AccountRoutes \cup {<<"POST", "admin">>, <<"GET", "app">>, <<"POST", "app">>}

ForceContext(x) == [x EXCEPT !.ctx = "api"]

RequireAuth(x) ==
    IF x.user # None THEN x ELSE Respond(x, IF x.ctx = "api" THEN 401 ELSE 303, "refused")

RequireRole(x) ==
    IF x.user = None THEN RequireAuth(x)
    ELSE IF x.user.admin THEN x ELSE Respond(x, 403, "refused")

\* HTML begins; the history notes what its file is from now on.
HTML(x, p) == [x EXCEPT !.pc = "lookup", !.page = p, !.seen = {files[p]}]

\* The mux chooses the handler with what its route wraps around it.
ServeMux(x) ==
    LET route == x.in.route
        y == CASE route = "profile"  -> RequireAuth(x)
               [] route = "apiMe"    -> RequireAuth(ForceContext(x))
               [] route = "apiLogin" -> ForceContext(x)
               [] route = "admin"    -> RequireRole(x)
               [] OTHER              -> x
    IN  IF <<x.in.method, route>> \notin Routes
             THEN Respond(x, IF \E r \in Routes : r[2] = route THEN 405 ELSE 404, "error")
        ELSE IF y.pc = "leave" THEN y
        ELSE IF <<x.in.method, route>> \in {"GET"} \X Pages THEN HTML(y, route)
        ELSE [y EXCEPT !.pc = route]

NewExchange(rq, t) ==
    [in |-> rq, bearer |-> t, ctx |-> "ssr", sess |-> newSession, user |-> None,
     hdr |-> {}, cookie |-> {}, status |-> 200, wroteHeader |-> FALSE, saved |-> FALSE,
     out |-> None, body |-> "", log |-> 0, depth |-> 0, pc |-> "enter",
     page |-> "login", tmpl |-> None, seen |-> {}, began |-> 0, panicking |-> FALSE,
     panicked |-> FALSE, lateHeader |-> FALSE, lateSession |-> FALSE, age |-> 0]

Idle(s) ==
    exchange[s] = None /\ Cardinality({r \in Slots : exchange[r] # None}) < traffic.parallel

At(s, pc) == exchange[s] # None /\ exchange[s].pc = pc
Put(s, x) == exchange' = [exchange EXCEPT ![s] = x]

\* A request comes in.
Arrive(s, rq, t) ==
    /\ Put(s, NewExchange(rq, t))
    /\ UNCHANGED shared

\* The next middleware calls the one it wraps, or answers.
Pass(s) ==
    LET x == exchange[s] IN
    /\ At(s, "enter") /\ x.depth < Len(Chain)
    /\ Put(s, Enter([x EXCEPT !.depth = @ + 1], Chain[x.depth + 1]))
    /\ UNCHANGED shared

\* The innermost middleware calls the mux.
Dispatch(s) ==
    LET x == exchange[s] IN
    /\ At(s, "enter") /\ x.depth = Len(Chain)
    /\ Put(s, ServeMux([x EXCEPT !.bearer = None]))
    /\ UNCHANGED shared
-----------------------------------------------------------------------------
(* The renderer *)

\* Mutant: the template enters the cache before it is parsed.
Lookup_StoresFirst(s) ==
    LET x == exchange[s]  t == tmpls[x.page] IN
    /\ At(s, "lookup")
    /\ Put(s, IF ~traffic.reload /\ t # None THEN [x EXCEPT !.tmpl = t, !.pc = "execute"]
              ELSE [x EXCEPT !.pc = "parse"])
    /\ tmpls' = IF t = None THEN [tmpls EXCEPT ![x.page] = "incomplete"] ELSE tmpls
    /\ UNCHANGED <<fileVars, userVars, now, family>>

\* loadTemplate: under RLock, unless Reload.
Lookup(s) ==
    LET x == exchange[s]  t == tmpls[x.page] IN
    /\ At(s, "lookup")
    /\ Put(s, IF ~traffic.reload /\ t # None THEN [x EXCEPT !.tmpl = t, !.pc = "execute"]
              ELSE [x EXCEPT !.pc = "parse"])
    /\ UNCHANGED shared

\* Reads and parses the files; a failure is answered and not cached.
Parse(s) ==
    LET x == exchange[s]  k == files[x.page] IN
    /\ At(s, "parse")
    /\ Put(s, IF k = "invalid" THEN Respond(x, 500, "error")
              ELSE [x EXCEPT !.tmpl = k, !.pc = IF traffic.reload THEN "execute" ELSE "store"])
    /\ UNCHANGED shared

\* Under Lock: the last of several loads stays.
Store(s) ==
    LET x == exchange[s] IN
    /\ At(s, "store")
    /\ tmpls' = [tmpls EXCEPT ![x.page] = x.tmpl]
    /\ Put(s, [x EXCEPT !.pc = "execute"])
    /\ UNCHANGED <<fileVars, userVars, now, family>>

\* Execute: an error is only logged.  A template that does not define its base
\* name fails before it writes, one that fails half way has written.
Execute(s) ==
    LET x == [exchange[s] EXCEPT !.pc = "leave"] IN
    /\ At(s, "execute")
    /\ Put(s, CASE x.tmpl = "complete"   -> Write(x, "page")
                [] x.tmpl = "failing"    -> Write(x, "part")
                [] x.tmpl = "incomplete" -> x)
    /\ UNCHANGED shared
-----------------------------------------------------------------------------
(* The account module's handlers *)

\* A form that does not parse, one that is refused and shown again, a new user
\* of the session.
Submit(s, p) ==
    LET x == exchange[s] IN
    /\ At(s, p)
    /\ \/ Put(s, Respond(x, 400, "error"))
       \/ Put(s, HTML(x, p))
       \/ \E u \in Users :
             Put(s, Respond([x EXCEPT !.sess = Set(@, [@.data EXCEPT !.user = u])], 303, "moved"))
    /\ UNCHANGED shared

Login(s)    == Submit(s, "login")
Register(s) == Submit(s, "register")

Logout(s) ==
    LET x == exchange[s] IN
    /\ At(s, "logout")
    /\ Put(s, Respond([x EXCEPT !.sess.destroyed = TRUE, !.sess.modified = TRUE], 303, "moved"))
    /\ UNCHANGED shared

\* MustGetUser panics without a user.
APICurrentUser(s) ==
    LET x == exchange[s] IN
    /\ At(s, "apiMe")
    /\ Put(s, IF x.user # None THEN Respond(x, 200, "json")
              ELSE [x EXCEPT !.panicking = TRUE, !.panicked = TRUE, !.pc = "leave"])
    /\ UNCHANGED shared

\* APILogin: invalid JSON or fields, wrong credentials, or a user and its roles ...
APILogin(s) ==
    LET x == exchange[s] IN
    /\ At(s, "apiLogin")
    /\ \/ \E code \in {400, 422, 401, 500} : Put(s, Respond(x, code, "json"))
       \/ /\ Cardinality(tokens) < MaxTokens
          /\ \E u \in Users :
                Put(s, [x EXCEPT !.pc = "generate", !.began = now,
                                 !.user = [id |-> u, admin |-> u \in admins, by |-> "password"]])
    /\ UNCHANGED shared

\* ... which the token repeats until it expires.
GenerateAccessToken(s) ==
    LET x == exchange[s] IN
    /\ At(s, "generate")
    /\ tokens' = tokens \cup {[user |-> x.user.id, admin |-> x.user.admin, exp |-> now + TTL]}
    /\ Put(s, Respond([x EXCEPT !.began = 0], 200, "json"))
    /\ UNCHANGED <<tmpls, fileVars, admins, revoked, now, family>>

\* External: the handler behind RequireRole.
Admin(s) ==
    LET x == exchange[s] IN
    /\ At(s, "admin")
    /\ Put(s, Respond(x, 200, "json"))
    /\ UNCHANGED shared

\* External: a handler that changes the session, writes, sends a status, returns
\* and panics in any order.
App(s) ==
    LET x == exchange[s] IN
    /\ At(s, "app")
    /\ \/ \E v \in {"new", "bad"} :
             Put(s, [x EXCEPT !.sess = Set(@, [@.data EXCEPT !.val = v]), !.lateSession = x.saved])
       \/ Put(s, [x EXCEPT !.sess.destroyed = TRUE, !.sess.modified = TRUE, !.lateSession = x.saved])
       \/ Put(s, Write(x, "text"))
       \/ \E code \in {303, 500} :
             Put(s, [WriteHeader(x, code) EXCEPT
                        !.lateHeader = @ \/ (x.out # None /\ ~x.wroteHeader)])
       \/ Put(s, [x EXCEPT !.pc = "leave"])
       \/ Put(s, [x EXCEPT !.panicking = TRUE, !.panicked = TRUE, !.pc = "leave"])
    /\ UNCHANGED shared
-----------------------------------------------------------------------------
(* The middleware on the way out *)

\* Neither Session nor Logger goes on while a panic unwinds, which Recovery ends
\* with an answer on the writer it was given.
LeaveSession(x)  == IF x.panicking \/ x.saved THEN x ELSE saveSession(x)
LeaveLogger(x)   == IF x.panicking THEN x ELSE [x EXCEPT !.log = x.status]
LeaveRecovery(x) ==
    IF x.panicking THEN [Send(x, 500) EXCEPT !.panicking = FALSE, !.body = "error"] ELSE x

Leave(x, m) ==
    CASE m = "Session"  -> LeaveSession(x)
      [] m = "Logger"   -> LeaveLogger(x)
      [] m = "Recovery" -> LeaveRecovery(x)
      [] OTHER          -> x

\* The innermost middleware that was entered returns.
Unwind(s) ==
    LET x == exchange[s] IN
    /\ At(s, "leave") /\ x.depth > 0
    /\ Put(s, [Leave(x, Chain[x.depth]) EXCEPT !.depth = @ - 1])
    /\ UNCHANGED shared

\* net/http sends a response that has not begun.
Finish(s) ==
    LET x == exchange[s] IN
    /\ At(s, "leave") /\ x.depth = 0
    /\ Put(s, [(IF x.panicking THEN x ELSE Send(x, 200)) EXCEPT !.pc = "done"])
    /\ UNCHANGED shared

\* External: net/http is done with the exchange.
Close(s) ==
    /\ At(s, "done")
    /\ Put(s, None)
    /\ UNCHANGED shared
-----------------------------------------------------------------------------
(* External: files, roles, time *)

\* One of the files that are asked for is replaced.
Edit(p, k) ==
    /\ edits < traffic.edits /\ k # files[p]
    /\ p \in {rq.route : rq \in traffic.requests}
    /\ edits' = edits + 1
    /\ files' = [files EXCEPT ![p] = k]
    /\ past' = [past EXCEPT ![p] = @ \cup {k}]
    /\ exchange' = [s \in Slots |->
          IF exchange[s] # None /\ exchange[s].seen # {} /\ exchange[s].page = p
          THEN [exchange[s] EXCEPT !.seen = @ \cup {k}] ELSE exchange[s]]
    /\ UNCHANGED <<tmpls, userVars, now, family>>

\* Roles change only in behaviours in which time passes.
ChangeRole(u) ==
    /\ traffic.time > 0
    /\ \/ u \notin admins /\ admins' = admins \cup {u} /\ UNCHANGED revoked
       \/ /\ u \in admins
          /\ admins' = admins \ {u}
          /\ revoked' = [revoked EXCEPT ![u] = now]
    /\ UNCHANGED <<exchange, tmpls, fileVars, tokens, now, family>>

\* A login takes at most MaxStall.
Tick ==
    /\ now < traffic.time
    /\ \A s \in Slots : At(s, "generate") => now < exchange[s].began + MaxStall
    /\ now' = now + 1
    /\ UNCHANGED <<exchange, tmpls, fileVars, userVars, family>>
-----------------------------------------------------------------------------
Init ==
    /\ family \in DOMAIN Traffic
    /\ exchange = [s \in Slots |-> None]
    /\ tmpls = [p \in Pages |-> None]
    /\ files \in traffic.files
    /\ past = [p \in Pages |-> {files[p]}]
    /\ admins \in SUBSET Users
    /\ revoked = [u \in Users |-> None]
    /\ tokens = {} /\ now = 0 /\ edits = 0

Serve(s) ==
    \/ /\ Idle(s)
       /\ \E rq \in traffic.requests :
             \E t \in IF rq.auth = "bearer" THEN tokens \cup {None} ELSE {None} : Arrive(s, rq, t)
    \/ Pass(s) \/ Dispatch(s)
    \/ Lookup(s) \/ Parse(s) \/ Store(s) \/ Execute(s)
    \/ Login(s) \/ Register(s) \/ Logout(s)
    \/ APICurrentUser(s) \/ APILogin(s) \/ GenerateAccessToken(s)
    \/ Admin(s) \/ App(s)
    \/ Unwind(s) \/ Finish(s) \/ Close(s)

Next ==
    \/ \E s \in Slots : Serve(s)
    \/ \E p \in Pages, k \in Kinds : Edit(p, k)
    \/ \E u \in Users : ChangeRole(u)
    \/ Tick

Spec == Init /\ [][Next]_vars
-----------------------------------------------------------------------------
(* Properties *)

Done == {exchange[s] : s \in {r \in Slots : At(r, "done")}}

\* The log tells what the client got: a request that did not panic is logged
\* with the status that was sent, whoever answered it, and although a handler
\* may write before it sets a status or set several.  Only a status set after
\* the first Write is logged without having been sent.
StatusLogged ==
    \A x \in Done : ~x.panicked => x.log = x.out.status \/ x.lateHeader

\* The session that the client holds after the answer is the one the exchange
\* left: changed, destroyed, new or untouched, and with the token CSRF made,
\* also on refusals.  Excepted are changes after the first write, a panic before
\* it, and values that cannot be encoded.
SessionDelivered ==
    \A x \in Done :
        LET jar  == IF x.out.cookie = {} THEN {x.in.cookie} ELSE x.out.cookie
            left == {IF x.sess.destroyed THEN None ELSE x.sess.data}
        IN  \/ jar = left
            \/ x.lateSession
            \/ x.panicked /\ ~x.saved
            \/ x.sess.data.val = "bad" /\ ~x.sess.destroyed

\* The context detected once decides for CSRF, Auth and RequireAuth together: a
\* handler that serves an unsafe method for a user whom Auth took from a session
\* has that session's CSRF token, whatever headers the request combines.  Not
\* covered are handlers that use the session itself: in the API context there is
\* no such user, CSRF is skipped, and POST /account/logout destroys the session.
SessionUserChecked ==
    \A s \in Slots :
        LET x == exchange[s] IN
        /\ exchange[s] # None /\ x.pc \notin {"enter", "leave", "done"}
        /\ x.in.method = "POST" /\ x.user # None /\ x.user.by = "session"
        => x.in.tok /\ x.in.cookie.csrf

\* A role works after it was taken away only as long as a token that was issued
\* with it lives, counted from the end of the login that read it: whoever is in a
\* handler behind RequireRole had the role, when Auth accepted it, less than a
\* token's life and a login ago.
RolesBounded == \A s \in Slots : At(s, "admin") => exchange[s].age < TTL + MaxStall

Body == [complete |-> "page", incomplete |-> "", failing |-> "part", invalid |-> "error"]

\* A page is what its file makes it, although concurrent requests load it and
\* the file changes: with Reload the file during the request, otherwise a file
\* of some time; an error comes from the file during the request alone.
PageAsFiles ==
    \A x \in Done :
        x.seen # {} =>
            \E k \in IF traffic.reload THEN x.seen ELSE past[x.page] :
                /\ k = "invalid" => k \in x.seen
                /\ x.out.status = IF k = "invalid" THEN 500 ELSE 200
                /\ x.body = Body[k]

\* Every exchange is answered, refusals, missing routes and panics included, and
\* carries its ID and the security headers, the policy for pages if it was taken
\* for a browser's, and a permission for another origin only if that is allowed
\* and it was taken for the API.
HardenedResponses ==
    \A x \in Done :
        LET ctx == DetectRequestContext(x.in) IN
        /\ x.out # None
        /\ {"id", "security"} \subseteq x.out.hdr
        /\ "csp" \in x.out.hdr <=> ctx = "ssr"
        /\ "allowOrigin" \in x.out.hdr => ctx = "api" /\ x.in.origin = "ours"
=============================================================================
