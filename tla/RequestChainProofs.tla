------------------------- MODULE RequestChainProofs --------------------------
(* Proofs about RequestChain for any requests, any number of exchanges at a   *)
(* time, any files, users and tokens.                                         *)
(*                                                                            *)
(* What an exchange knows is said by its place: on the way in by the depth of *)
(* the chain it has reached (Inbound), on the way out by what the middleware  *)
(* that has returned left behind.  Most of it concerns one exchange alone     *)
(* (Local); pages depend on the files besides (PageInv), roles on the users   *)
(* and the clock (RoleInv).                                                   *)
EXTENDS RequestChain, TLAPS

Session == [data : Data, isNew : BOOLEAN, modified : BOOLEAN, destroyed : BOOLEAN]
Render  == {"lookup", "parse", "store", "execute"}
Serving == Render \cup {"login", "register", "logout", "profile", "apiLogin", "generate",
                        "apiMe", "admin", "app"}

Bodies  == {"", "refused", "error", "moved", "json", "text", "page", "part"}

Exchange ==
    [in : Requests, bearer : Token \cup {None}, ctx : {"api", "ssr"}, sess : Session,
     user : User \cup {None}, hdr : SUBSET Headers, cookie : SUBSET (Data \cup {None}),
     status : Nat, wroteHeader : BOOLEAN, saved : BOOLEAN, out : Response \cup {None},
     body : Bodies, log : Nat, depth : 0..10, pc : Serving \cup {"enter", "leave", "done"},
     page : Pages, tmpl : Kinds \cup {None}, seen : SUBSET Kinds, began : Nat,
     panicking : BOOLEAN, panicked : BOOLEAN, lateHeader : BOOLEAN, lateSession : BOOLEAN,
     age : Nat]

TypeOK ==
    /\ exchange \in [Slots -> Exchange \cup {None}]
    /\ tmpls \in [Pages -> Kinds \cup {None}]
    /\ files \in [Pages -> Kinds] /\ past \in [Pages -> SUBSET Kinds]
    /\ admins \subseteq Users /\ revoked \in [Users -> Nat \cup {None}]
    /\ tokens \subseteq Token /\ now \in Nat /\ family \in DOMAIN Traffic

\* Headers as HardenedResponses wants them.
Hard(h, rq) ==
    /\ {"id", "security"} \subseteq h
    /\ "csp" \in h <=> DetectRequestContext(rq) = "ssr"
    /\ "allowOrigin" \in h => DetectRequestContext(rq) = "api" /\ rq.origin = "ours"

\* An unsafe request that is not the API's had the token of its session.
Checked(rq) ==
    rq.method = "POST" /\ DetectRequestContext(rq) = "ssr" =>
        rq.tok /\ rq.cookie # None /\ rq.cookie.csrf

\* The session is the client's, unless it is new or was changed.
Loaded(x) == ~x.sess.isNew /\ ~x.sess.modified /\ ~x.sess.destroyed => x.sess.data = x.in.cookie

\* Set-Cookie c leaves the client with the session of x, if that can be encoded.
Delivered(c, x) ==
    \/ (IF c = {} THEN {x.in.cookie} ELSE c) = {IF x.sess.destroyed THEN None ELSE x.sess.data}
    \/ x.sess.data.val = "bad" /\ ~x.sess.destroyed

\* Nothing was written.
Clean(x) ==
    /\ x.out = None /\ ~x.saved /\ ~x.wroteHeader /\ x.status = 200
    /\ x.cookie = {} /\ x.body = ""
    /\ ~x.panicking /\ ~x.panicked /\ ~x.lateHeader /\ ~x.lateSession

\* On the way in: ContextDetect is the 4th middleware, SecurityHeaders the 5th,
\* Session the 6th, Auth the 7th, CSRF the 8th, CORS the 9th.
Inbound(x) ==
    LET ctx == DetectRequestContext(x.in) IN
    /\ Clean(x) /\ x.seen = {}
    /\ x.depth >= 1 => "id" \in x.hdr
    /\ x.depth >= 4 => x.ctx = ctx
    /\ x.depth >= 5 => "security" \in x.hdr
    /\ "csp" \in x.hdr <=> x.depth >= 5 /\ ctx = "ssr"
    /\ "allowOrigin" \in x.hdr => x.depth >= 9 /\ ctx = "api" /\ x.in.origin = "ours"
    /\ x.depth >= 6 => Loaded(x)
    /\ x.depth \in {6, 7} /\ x.sess.data.csrf => x.in.cookie # None /\ x.in.cookie.csrf
    /\ x.depth >= 8 => Checked(x.in)

\* In a handler: only handlers of an application write before they return.
Handling(x) ==
    /\ x.depth = 10 /\ ~x.panicking /\ ~x.panicked
    /\ Checked(x.in) /\ Hard(x.hdr, x.in) /\ Loaded(x)
    /\ x.pc # "app" => Clean(x)
    /\ x.out # None => x.saved
    /\ ~x.saved => x.cookie = {}

\* On the way out: Session is the 6th middleware, Logger the 3rd, Recovery the 2nd.
Outbound(x) ==
    /\ Hard(x.hdr, x.in) /\ Loaded(x)
    /\ x.panicking => x.panicked /\ x.depth >= 2
    /\ x.out # None /\ ~x.panicked => x.saved
    /\ ~x.saved /\ ~x.panicked =>
          IF x.depth < 6 THEN Delivered(x.cookie, x) ELSE x.cookie = {}
    /\ x.depth < 3 /\ ~x.panicked => x.log = x.status

Answered(x) ==
    /\ x.out # None
    /\ ~x.panicked => x.log = x.status /\ (x.saved \/ Delivered(x.out.cookie, x))

Local(x) ==
    /\ x.pc = "enter" => Inbound(x)
    /\ x.pc \in Serving => Handling(x)
    /\ x.pc = "leave" => Outbound(x)
    /\ x.pc = "done" => Answered(x)
    /\ x.user # None /\ x.user.by = "session" => DetectRequestContext(x.in) = "ssr"
    /\ x.wroteHeader => x.out # None
    /\ ~x.wroteHeader => x.status = 200
    /\ x.out # None => Hard(x.out.hdr, x.in)
    /\ x.out # None /\ ~x.panicked /\ ~x.lateHeader => x.out.status = x.status
    /\ x.saved => x.out # None
    /\ x.saved /\ ~x.lateSession => Delivered(x.out.cookie, x)

\* What k makes of a page.
Rendered(x, k) ==
    /\ k = "invalid" => k \in x.seen
    /\ x.out # None \/ x.pc = "done" => x.out.status = IF k = "invalid" THEN 500 ELSE 200
    /\ x.pc = "leave" => (x.out # None <=> k # "incomplete")
    /\ x.body = Body[k]

PageInv(x) ==
    /\ x.seen \subseteq past[x.page]
    /\ x.pc \in Serving => (x.seen # {} <=> x.pc \in Render)
    /\ x.pc \in {"lookup", "parse"} => files[x.page] \in x.seen
    /\ x.pc \in {"store", "execute"} =>
          /\ x.tmpl \in past[x.page] \ {"invalid"}
          /\ traffic.reload => x.tmpl \in x.seen
    /\ x.pc \in {"leave", "done"} /\ x.seen # {} =>
          /\ ~x.panicked
          /\ \E k \in IF traffic.reload THEN x.seen ELSE past[x.page] : Rendered(x, k)

FilesInv ==
    \A p \in Pages :
        /\ files[p] \in past[p]
        /\ tmpls[p] # None => tmpls[p] \in past[p] \ {"invalid"}

\* The user has the role or lost it at t or later.
HadRole(u, t) == u \in admins \/ (revoked[u] # None /\ t <= revoked[u])

RoleInv(x) ==
    /\ x.bearer # None => x.bearer \in tokens
    /\ x.pc = "enter" /\ x.user # None => x.user.by # "password"
    /\ x.pc = "admin" => x.user # None /\ x.user.admin /\ x.user.by # "password"
    /\ x.user # None /\ x.user.admin /\ x.user.by # "password" => x.age < TTL + MaxStall
    /\ x.pc = "generate" =>
          /\ x.user # None
          /\ x.began <= now /\ now <= x.began + MaxStall
          /\ x.user.admin => HadRole(x.user.id, x.began)

TokensInv ==
    /\ \A t \in tokens : t.exp <= now + TTL
    /\ \A t \in tokens : t.admin =>
          \/ t.user \in admins
          \/ revoked[t.user] # None /\ t.exp <= revoked[t.user] + MaxStall + TTL
    /\ \A u \in Users : revoked[u] # None => revoked[u] <= now

Good(x) == Local(x) /\ PageInv(x) /\ RoleInv(x)

IInv ==
    /\ TypeOK /\ FilesInv /\ TokensInv
    /\ \A s \in Slots : exchange[s] # None => Good(exchange[s])
-----------------------------------------------------------------------------
(* The response writers *)

\* The writers change nothing else of an exchange than what they keep themselves.
Rest(y, x) ==
    /\ y.in = x.in /\ y.bearer = x.bearer /\ y.ctx = x.ctx /\ y.sess = x.sess
    /\ y.user = x.user /\ y.hdr = x.hdr /\ y.log = x.log /\ y.depth = x.depth
    /\ y.page = x.page /\ y.tmpl = x.tmpl /\ y.seen = x.seen /\ y.began = x.began
    /\ y.panicking = x.panicking /\ y.panicked = x.panicked /\ y.age = x.age
    /\ y.lateHeader = x.lateHeader /\ y.lateSession = x.lateSession

\* What two writers after each other leave alone.
LEMMA RestIsTransitive ==
    ASSUME NEW x, NEW y, NEW z, Rest(y, x), Rest(z, y)
    PROVE  Rest(z, x)
BY DEF Rest

\* saveSession touches the cookie alone.
LEMMA SaveSessionIs ==
    ASSUME NEW x \in Exchange
    PROVE  LET y == saveSession(x) IN
           /\ y \in Exchange /\ Rest(y, x) /\ y.pc = x.pc
           /\ y.status = x.status /\ y.wroteHeader = x.wroteHeader /\ y.body = x.body
           /\ y.out = x.out /\ y.saved = x.saved
<1>1. PICK c \in SUBSET (Data \cup {None}) : saveSession(x) = [x EXCEPT !.cookie = c]
  BY DEF saveSession, Exchange, Session
<1> DEFINE y == [x EXCEPT !.cookie = c]
<1>2. y \in Exchange
  BY DEF Exchange
<1>3. Rest(y, x)
  BY DEF Exchange, Rest
<1> QED
  BY <1>1, <1>2, <1>3 DEF Exchange

\* What saveSession sets is what the client should hold.
LEMMA SaveSessionDelivers ==
    ASSUME NEW x \in Exchange, Loaded(x), x.cookie = {}
    PROVE  Delivered(saveSession(x).cookie, x)
BY DEF saveSession, Exchange, Session, Loaded, Delivered

\* y is x after FirstWrite, Send, WriteHeader, Write, Respond.
IsFirstWrite(y, x) ==
    /\ y \in Exchange /\ Rest(y, x) /\ y.pc = x.pc
    /\ y.status = x.status /\ y.wroteHeader = x.wroteHeader /\ y.body = x.body
    /\ y.out = x.out /\ y.saved
    /\ y.cookie = IF x.saved THEN x.cookie ELSE saveSession(x).cookie

IsSend(y, x, code) ==
    /\ y \in Exchange /\ Rest(y, x) /\ y.pc = x.pc
    /\ y.status = x.status /\ y.wroteHeader = x.wroteHeader /\ y.body = x.body
    /\ y.cookie = x.cookie /\ y.saved = x.saved
    /\ y.out # None
    /\ y.out = IF x.out # None THEN x.out
               ELSE [status |-> code, hdr |-> x.hdr, cookie |-> x.cookie]

IsWriteHeader(y, x, code) ==
    /\ y \in Exchange /\ Rest(y, x) /\ y.pc = x.pc /\ y.body = x.body
    /\ y.wroteHeader /\ y.status = IF x.wroteHeader THEN x.status ELSE code
    /\ y.saved /\ y.cookie = IF x.saved THEN x.cookie ELSE saveSession(x).cookie
    /\ y.out # None
    /\ y.out = IF x.out # None THEN x.out
               ELSE [status |-> code, hdr |-> x.hdr, cookie |-> y.cookie]

IsWrite(y, x, body) ==
    /\ y \in Exchange /\ Rest(y, x) /\ y.pc = x.pc /\ y.body = body
    /\ y.wroteHeader = x.wroteHeader /\ y.status = x.status
    /\ y.saved /\ y.cookie = IF x.saved THEN x.cookie ELSE saveSession(x).cookie
    /\ y.out # None
    /\ y.out = IF x.out # None THEN x.out
               ELSE [status |-> 200, hdr |-> x.hdr, cookie |-> y.cookie]

IsRespond(y, x, code, body) ==
    /\ y \in Exchange /\ Rest(y, x) /\ y.pc = "leave" /\ y.body = body
    /\ y.wroteHeader /\ y.status = code
    /\ y.saved /\ y.cookie = saveSession(x).cookie
    /\ y.out # None
    /\ y.out = [status |-> code, hdr |-> x.hdr, cookie |-> y.cookie]

\* The sessionWriter saves the session at the first write and never again.
LEMMA FirstWriteIs ==
    ASSUME NEW x \in Exchange
    PROVE  IsFirstWrite(FirstWrite(x), x)
<1> DEFINE z == saveSession(x)
           y == [z EXCEPT !.saved = TRUE]
<1>1. CASE x.saved
  BY <1>1 DEF FirstWrite, Rest, IsFirstWrite
<1>2. CASE ~x.saved
  <2>1. /\ z \in Exchange /\ Rest(z, x) /\ z.pc = x.pc
        /\ z.status = x.status /\ z.wroteHeader = x.wroteHeader /\ z.body = x.body
        /\ z.out = x.out
    BY SaveSessionIs
  <2>2. FirstWrite(x) = y
    BY <1>2 DEF FirstWrite
  <2> HIDE DEF z
  <2>3. y \in Exchange /\ Rest(y, z)
    BY <2>1 DEF Exchange, Rest
  <2>4. /\ y.pc = z.pc /\ y.status = z.status /\ y.wroteHeader = z.wroteHeader
        /\ y.body = z.body /\ y.out = z.out /\ y.saved /\ y.cookie = z.cookie
    BY <2>1 DEF Exchange
  <2>5. Rest(y, x)
    BY <2>1, <2>3, RestIsTransitive
  <2> QED
    BY <1>2, <2>1, <2>2, <2>3, <2>4, <2>5 DEF z, IsFirstWrite
<1> QED
  BY <1>1, <1>2

\* net/http keeps the first status, headers and cookie it is given.
LEMMA SendIs ==
    ASSUME NEW x \in Exchange, NEW code \in Nat
    PROVE  IsSend(Send(x, code), x, code)
<1> DEFINE o == [status |-> code, hdr |-> x.hdr, cookie |-> x.cookie]
           y == [x EXCEPT !.out = o]
<1>1. o \in Response /\ o # None
  BY ChainAssumption DEF ChainAssumption, Response, Exchange
<1>2. CASE x.out # None
  BY <1>2 DEF Send, Rest, IsSend
<1>3. CASE x.out = None
  <2>1. Send(x, code) = y
    BY <1>3 DEF Send
  <2>2. y \in Exchange /\ Rest(y, x)
    BY <1>1 DEF Exchange, Rest
  <2>3. /\ y.pc = x.pc /\ y.status = x.status /\ y.wroteHeader = x.wroteHeader
        /\ y.body = x.body /\ y.cookie = x.cookie /\ y.saved = x.saved /\ y.out = o
    BY DEF Exchange
  <2> QED
    BY <1>1, <1>3, <2>1, <2>2, <2>3 DEF IsSend
<1> QED
  BY <1>2, <1>3

\* After WriteHeader the response is sent, the session saved, the status noted.
LEMMA WriteHeaderIs ==
    ASSUME NEW x \in Exchange, NEW code \in Nat
    PROVE  IsWriteHeader(WriteHeader(x, code), x, code)
<1> DEFINE z == FirstWrite(x)
           w == IF z.wroteHeader THEN z ELSE [z EXCEPT !.status = code, !.wroteHeader = TRUE]
           y == Send(w, code)
<1>1. IsFirstWrite(z, x)
  BY FirstWriteIs
<1>2. WriteHeader(x, code) = y
  BY DEF WriteHeader, StatusWriter
<1> HIDE DEF z
<1>3. /\ w \in Exchange /\ Rest(w, z) /\ w.pc = z.pc /\ w.body = z.body
      /\ w.wroteHeader /\ w.status = IF z.wroteHeader THEN z.status ELSE code
      /\ w.saved = z.saved /\ w.cookie = z.cookie /\ w.out = z.out
  <2>0. z \in Exchange
    BY <1>1 DEF IsFirstWrite
  <2>1. CASE z.wroteHeader
    BY <2>0, <2>1 DEF Rest
  <2>2. CASE ~z.wroteHeader
    <3> DEFINE v == [z EXCEPT !.status = code, !.wroteHeader = TRUE]
    <3>1. v \in Exchange
      BY <2>0 DEF Exchange
    <3>2. Rest(v, z)
      BY <2>0 DEF Exchange, Rest
    <3>3. /\ v.pc = z.pc /\ v.body = z.body /\ v.wroteHeader /\ v.status = code
          /\ v.saved = z.saved /\ v.cookie = z.cookie /\ v.out = z.out
      BY <2>0 DEF Exchange
    <3>4. w = v
      BY <2>2
    <3> QED
      BY <2>2, <3>1, <3>2, <3>3, <3>4
  <2> QED
    BY <2>1, <2>2
<1> HIDE DEF w
<1>4. IsSend(y, w, code)
  BY <1>3, SendIs
<1> HIDE DEF y
<1>5. Rest(y, x) /\ w.hdr = x.hdr
  <2>1. Rest(y, x)
    BY <1>1, <1>3, <1>4, RestIsTransitive DEF IsFirstWrite, IsSend
  <2> QED
    BY <2>1, <1>1, <1>3 DEF Rest, IsFirstWrite
<1> QED
  BY <1>1, <1>2, <1>3, <1>4, <1>5 DEF IsFirstWrite, IsSend, IsWriteHeader

\* After Write the response is sent and the session saved.
LEMMA WriteIs ==
    ASSUME NEW x \in Exchange, NEW body \in Bodies
    PROVE  IsWrite(Write(x, body), x, body)
<1> DEFINE z == FirstWrite(x)
           w == Send(z, 200)
           y == [w EXCEPT !.body = body]
<1>1. IsFirstWrite(z, x)
  BY FirstWriteIs
<1>2. Write(x, body) = y
  BY DEF Write
<1> HIDE DEF z
<1>3. IsSend(w, z, 200)
  BY <1>1, SendIs DEF IsFirstWrite
<1> HIDE DEF w
<1>4. /\ y \in Exchange /\ Rest(y, w) /\ y.pc = w.pc /\ y.body = body
      /\ y.status = w.status /\ y.wroteHeader = w.wroteHeader
      /\ y.cookie = w.cookie /\ y.saved = w.saved /\ y.out = w.out
  <2>1. w \in Exchange
    BY <1>3 DEF IsSend
  <2> QED
    BY <2>1 DEF Exchange, Rest
<1> HIDE DEF y
<1>5. Rest(y, x) /\ z.hdr = x.hdr
  <2>1. Rest(y, x)
    BY <1>1, <1>3, <1>4, RestIsTransitive DEF IsFirstWrite, IsSend
  <2> QED
    BY <2>1, <1>1 DEF Rest, IsFirstWrite
<1> QED
  BY <1>1, <1>2, <1>3, <1>4, <1>5 DEF IsFirstWrite, IsSend, IsWrite

\* The first answer of an exchange.
LEMMA RespondIs ==
    ASSUME NEW x \in Exchange, Clean(x), NEW code \in Nat, NEW body \in Bodies
    PROVE  IsRespond(Respond(x, code, body), x, code, body)
<1> DEFINE z == WriteHeader(x, code)
           w == Write(z, body)
           y == [w EXCEPT !.pc = "leave"]
<1>1. IsWriteHeader(z, x, code)
  BY WriteHeaderIs
<1>2. Respond(x, code, body) = y
  BY DEF Respond
<1> HIDE DEF z
<1>3. IsWrite(w, z, body)
  BY <1>1, WriteIs DEF IsWriteHeader
<1> HIDE DEF w
<1>4. /\ y \in Exchange /\ Rest(y, w) /\ y.pc = "leave" /\ y.body = w.body
      /\ y.status = w.status /\ y.wroteHeader = w.wroteHeader
      /\ y.cookie = w.cookie /\ y.saved = w.saved /\ y.out = w.out
  <2>1. w \in Exchange
    BY <1>3 DEF IsWrite
  <2> QED
    BY <2>1 DEF Exchange, Rest
<1> HIDE DEF y
<1>5. Rest(y, x)
  BY <1>1, <1>3, <1>4, RestIsTransitive DEF IsWriteHeader, IsWrite
<1>6. /\ z.wroteHeader /\ z.saved /\ z.out # None
      /\ z.status = code /\ z.cookie = saveSession(x).cookie
      /\ z.out = [status |-> code, hdr |-> x.hdr, cookie |-> z.cookie]
  BY <1>1 DEF Clean, IsWriteHeader
<1>7. w.wroteHeader = z.wroteHeader /\ w.status = z.status /\ w.cookie = z.cookie /\ w.out = z.out
  BY <1>3, <1>6 DEF IsWrite
<1> QED
  BY <1>2, <1>3, <1>4, <1>5, <1>6, <1>7 DEF IsWrite, IsRespond

\* An answer from a middleware or a handler is on its way out.
LEMMA AnswerGood ==
    ASSUME NEW x \in Exchange, Clean(x), Hard(x.hdr, x.in), Loaded(x), x.depth >= 6,
           x.user # None /\ x.user.by = "session" => DetectRequestContext(x.in) = "ssr",
           NEW y, NEW code, NEW body, IsRespond(y, x, code, body)
    PROVE  Local(y)
<1>2. /\ y.in = x.in /\ y.sess = x.sess /\ y.hdr = x.hdr /\ y.depth = x.depth
      /\ y.user = x.user /\ ~y.panicking /\ ~y.panicked
  BY DEF IsRespond, Rest, Clean
<1>3. Delivered(y.out.cookie, y)
  <2>1. Delivered(y.cookie, x)
    BY SaveSessionDelivers DEF Clean, IsRespond
  <2> QED
    BY <1>2, <2>1 DEF Delivered, IsRespond
<1>4. x.depth \in Nat
  BY DEF Exchange
<1>5. Outbound(y)
  BY <1>2, <1>4 DEF Outbound, Loaded, IsRespond
<1> QED
  BY <1>2, <1>3, <1>5 DEF Local, Serving, Render, IsRespond
-----------------------------------------------------------------------------
(* The middleware on the way in *)

\* A session's user came from a request that was taken for a browser's.
FromBrowser(x) ==
    x.user # None /\ x.user.by = "session" => DetectRequestContext(x.in) = "ssr"

\* On the way in nothing but Inbound needs to be shown.
LEMMA InboundGood ==
    ASSUME NEW x \in Exchange, x.pc = "enter", Inbound(x), FromBrowser(x)
    PROVE  Local(x)
BY DEF Local, Inbound, Clean, FromBrowser, Serving, Render

\* y follows x in the chain, or answers.
Follows(y, x) ==
    /\ y \in Exchange /\ Local(y) /\ y.pc \in {"enter", "leave"}
    /\ y.seen = {} /\ y.bearer = x.bearer

\* A middleware's answer.
LEMMA RefusalFollows ==
    ASSUME NEW x \in Exchange, Clean(x), Hard(x.hdr, x.in), Loaded(x), x.depth >= 6,
           FromBrowser(x), x.seen = {}, NEW code \in Nat, NEW body \in Bodies
    PROVE  LET y == Respond(x, code, body) IN
           Follows(y, x) /\ y.user = x.user /\ y.age = x.age
<1> DEFINE y == Respond(x, code, body)
<1>1. IsRespond(y, x, code, body)
  BY RespondIs
<1> HIDE DEF y
<1>2. Local(y)
  BY <1>1, AnswerGood DEF FromBrowser
<1>3. Follows(y, x) /\ y.user = x.user /\ y.age = x.age
  BY <1>1, <1>2 DEF Follows, IsRespond, Rest
<1> QED
  BY <1>3 DEF y

\* w is x one middleware deeper, before that does anything.
Deeper(w, x) ==
    /\ w \in Exchange /\ w.depth = x.depth + 1 /\ w.pc = "enter" /\ Clean(w)
    /\ w.in = x.in /\ w.hdr = x.hdr /\ w.ctx = x.ctx /\ w.sess = x.sess
    /\ w.user = x.user /\ w.age = x.age /\ w.seen = {} /\ w.bearer = x.bearer

\* The next middleware is entered and has done nothing yet.
LEMMA DeeperIs ==
    ASSUME NEW x \in Exchange, x.pc = "enter", Inbound(x), x.depth < 10
    PROVE  Deeper([x EXCEPT !.depth = @ + 1], x)
<1> DEFINE w == [x EXCEPT !.depth = @ + 1]
<1>1. w \in Exchange
  BY DEF Exchange
<1>2. /\ w.depth = x.depth + 1 /\ w.pc = "enter"
      /\ w.in = x.in /\ w.hdr = x.hdr /\ w.ctx = x.ctx /\ w.sess = x.sess
      /\ w.user = x.user /\ w.age = x.age /\ w.seen = {} /\ w.bearer = x.bearer
  BY DEF Exchange, Inbound
<1>3. Clean(w)
  BY DEF Exchange, Inbound, Clean
<1> QED
  BY <1>1, <1>2, <1>3 DEF Deeper

\* What the middleware before w's has established.
Before(w) ==
    LET ctx == DetectRequestContext(w.in)
        d == w.depth - 1 IN
    /\ w \in Exchange /\ w.pc = "enter" /\ Clean(w) /\ w.seen = {} /\ FromBrowser(w)
    /\ d >= 1 => "id" \in w.hdr
    /\ d >= 4 => w.ctx = ctx
    /\ d >= 5 => "security" \in w.hdr
    /\ "csp" \in w.hdr <=> d >= 5 /\ ctx = "ssr"
    /\ "allowOrigin" \in w.hdr => d >= 9 /\ ctx = "api" /\ w.in.origin = "ours"
    /\ d >= 6 => Loaded(w)
    /\ d \in {6, 7} /\ w.sess.data.csrf => w.in.cookie # None /\ w.in.cookie.csrf
    /\ d >= 8 => Checked(w.in)

\* It finds what the ones around it have established.
LEMMA BeforeIs ==
    ASSUME NEW x \in Exchange, x.pc = "enter", Local(x), x.depth < 10
    PROVE  LET w == [x EXCEPT !.depth = @ + 1] IN
           /\ Before(w) /\ w.depth = x.depth + 1
           /\ w.user = x.user /\ w.age = x.age /\ w.bearer = x.bearer
<1> DEFINE w == [x EXCEPT !.depth = @ + 1]
<1>1. Inbound(x) /\ FromBrowser(x)
  BY DEF Local, FromBrowser
<1>2. Deeper(w, x)
  BY <1>1, DeeperIs
<1> HIDE DEF w
<1>3. x.depth \in Nat /\ w.depth - 1 = x.depth
  BY <1>2 DEF Exchange, Deeper
<1>4. Before(w)
  BY <1>1, <1>2, <1>3 DEF Deeper, Before, Inbound, FromBrowser, Loaded
<1> QED
  BY <1>2, <1>4 DEF Deeper, w

\* Every context is one of the two.
LEMMA DetectIs ==
    ASSUME NEW rq
    PROVE  DetectRequestContext(rq) \in {"api", "ssr"}
BY DEF DetectRequestContext

\* RequestID sets the ID before anything can answer.
LEMMA RequestIDFollows ==
    ASSUME NEW w, Before(w), w.depth = 1
    PROVE  LET y == RequestID(w) IN Follows(y, w) /\ y.user = w.user /\ y.age = w.age
<1> DEFINE y == [w EXCEPT !.hdr = @ \cup {"id"}]
<1>1. RequestID(w) = y
  BY DEF RequestID
<1>2. y \in Exchange
  BY DEF Before, Exchange, Headers
<1>3. /\ y.depth = w.depth /\ y.pc = "enter" /\ y.hdr = w.hdr \cup {"id"} /\ y.in = w.in
      /\ y.user = w.user /\ y.age = w.age /\ y.seen = {} /\ y.bearer = w.bearer
  BY DEF Before, Exchange
<1>4. Clean(y)
  BY DEF Before, Exchange, Clean
<1> HIDE DEF y
<1>5. Inbound(y) /\ FromBrowser(y)
  BY <1>3, <1>4 DEF Before, Inbound, FromBrowser
<1>6. Local(y)
  BY <1>2, <1>3, <1>5, InboundGood
<1> QED
  BY <1>1, <1>2, <1>3, <1>6 DEF Follows

\* Recovery and Logger
LEMMA NothingFollows ==
    ASSUME NEW w, Before(w), w.depth \in {2, 3}
    PROVE  Follows(w, w)
<1>1. Inbound(w)
  BY DEF Before, Inbound
<1>2. Local(w)
  BY <1>1, InboundGood DEF Before
<1> QED
  BY <1>2 DEF Follows, Before

\* ContextDetect gives the context that the request's headers say.
LEMMA ContextDetectFollows ==
    ASSUME NEW w, Before(w), w.depth = 4
    PROVE  LET y == ContextDetect(w) IN Follows(y, w) /\ y.user = w.user /\ y.age = w.age
<1> DEFINE y == [w EXCEPT !.ctx = DetectRequestContext(w.in)]
<1>1. ContextDetect(w) = y
  BY DEF ContextDetect
<1>2. y \in Exchange
  BY DetectIs DEF Before, Exchange
<1>3. /\ y.depth = w.depth /\ y.pc = "enter" /\ y.hdr = w.hdr /\ y.in = w.in
      /\ y.ctx = DetectRequestContext(w.in)
      /\ y.user = w.user /\ y.age = w.age /\ y.seen = {} /\ y.bearer = w.bearer
  BY DEF Before, Exchange
<1>4. Clean(y)
  BY DEF Before, Exchange, Clean
<1> HIDE DEF y
<1>5. Inbound(y) /\ FromBrowser(y)
  BY <1>3, <1>4 DEF Before, Inbound, FromBrowser
<1>6. Local(y)
  BY <1>2, <1>3, <1>5, InboundGood
<1> QED
  BY <1>1, <1>2, <1>3, <1>6 DEF Follows

\* SecurityHeaders adds the policy for pages to a browser's exchange alone.
LEMMA SecurityHeadersFollows ==
    ASSUME NEW w, Before(w), w.depth = 5
    PROVE  LET y == SecurityHeaders(w) IN Follows(y, w) /\ y.user = w.user /\ y.age = w.age
<1> DEFINE h == w.hdr \cup {"security"} \cup (IF w.ctx = "ssr" THEN {"csp"} ELSE {})
           y == [w EXCEPT !.hdr = h]
<1>1. SecurityHeaders(w) = y
  BY DEF SecurityHeaders
<1>2. h \in SUBSET Headers
  BY DEF Before, Exchange, Headers
<1>3. /\ "id" \in h /\ "security" \in h
      /\ "csp" \in h <=> DetectRequestContext(w.in) = "ssr"
      /\ "allowOrigin" \notin h
  BY DEF Before
<1> HIDE DEF h
<1>4. y \in Exchange
  BY <1>2 DEF Before, Exchange
<1>5. /\ y.depth = w.depth /\ y.pc = "enter" /\ y.hdr = h /\ y.in = w.in /\ y.ctx = w.ctx
      /\ y.user = w.user /\ y.age = w.age /\ y.seen = {} /\ y.bearer = w.bearer
  BY DEF Before, Exchange
<1>6. Clean(y)
  BY DEF Before, Exchange, Clean
<1> HIDE DEF y
<1>7. Inbound(y) /\ FromBrowser(y)
  BY <1>3, <1>5, <1>6 DEF Before, Inbound, FromBrowser
<1>8. Local(y)
  BY <1>4, <1>5, <1>7, InboundGood
<1> QED
  BY <1>1, <1>4, <1>5, <1>8 DEF Follows

\* From here on the headers are those of every answer.
LEMMA BeforeIsHard ==
    ASSUME NEW w, Before(w), w.depth >= 6
    PROVE  Hard(w.hdr, w.in)
<1>1. w.depth \in Nat
  BY DEF Before, Exchange
<1> QED
  BY <1>1 DEF Before, Hard

\* The session is the client's, or new.
LEMMA LoadSessionFollows ==
    ASSUME NEW w, Before(w), w.depth = 6
    PROVE  LET y == loadSession(w) IN Follows(y, w) /\ y.user = w.user /\ y.age = w.age
<1> DEFINE c == w.in.cookie
           s == IF c = None THEN newSession
                ELSE [newSession EXCEPT !.data = c, !.isNew = FALSE]
           y == [w EXCEPT !.sess = s]
<1>1. loadSession(w) = y
  BY DEF loadSession
<1>2. newSession \in Session
  BY DEF newSession, Session, Data
<1>3. c \in Data \cup {None}
  BY DEF Before, Exchange, Requests
<1>4. /\ s \in Session
      /\ s.data.csrf => c # None /\ c.csrf
      /\ ~s.isNew => s.data = c
  <2>1. CASE c = None
    BY <1>2, <2>1 DEF newSession
  <2>2. CASE c # None
    BY <1>2, <1>3, <2>2 DEF Session, newSession
  <2> QED
    BY <2>1, <2>2
<1> HIDE DEF s
<1>5. y \in Exchange
  BY <1>4 DEF Before, Exchange
<1>6. /\ y.depth = w.depth /\ y.pc = "enter" /\ y.hdr = w.hdr /\ y.in = w.in /\ y.ctx = w.ctx
      /\ y.user = w.user /\ y.age = w.age /\ y.seen = {} /\ y.bearer = w.bearer /\ y.sess = s
  BY DEF Before, Exchange
<1>7. Clean(y)
  BY DEF Before, Exchange, Clean
<1> HIDE DEF y
<1>8. Inbound(y) /\ FromBrowser(y)
  BY <1>4, <1>6, <1>7 DEF Before, Inbound, FromBrowser, Loaded
<1>9. Local(y)
  BY <1>5, <1>6, <1>8, InboundGood
<1> QED
  BY <1>1, <1>5, <1>6, <1>9 DEF Follows

\* The age of a role is a time.
LEMMA RoleAgeIs ==
    ASSUME TypeOK, TokensInv, NEW u \in Users
    PROVE  /\ RoleAge(u) \in Nat
           /\ u \in admins => RoleAge(u) < TTL + MaxStall
<1>1. TTL \in Nat \ {0} /\ MaxStall \in Nat /\ None \notin Nat
  BY ChainAssumption DEF ChainAssumption
<1> QED
  BY <1>1 DEF TypeOK, TokensInv, RoleAge

\* A token that is accepted carries a role that is not too old.
LEMMA TokenAge ==
    ASSUME TypeOK, TokensInv, NEW t \in tokens, t.admin, ValidateAccessToken(t)
    PROVE  RoleAge(t.user) < TTL + MaxStall
<1>1. /\ TTL \in Nat \ {0} /\ MaxStall \in Nat /\ None \notin Nat
      /\ t.user \in Users /\ t.exp \in Nat /\ now \in Nat /\ now < t.exp
      /\ revoked[t.user] \in Nat \cup {None}
  BY ChainAssumption DEF ChainAssumption, TypeOK, Token, ValidateAccessToken
<1>2. \/ t.user \in admins
      \/ revoked[t.user] # None /\ t.exp <= revoked[t.user] + MaxStall + TTL
  BY DEF TokensInv
<1> QED
  BY <1>1, <1>2 DEF RoleAge

\* The user is as before, or has just been found with roles of now or of a token.
UserFound(y, x) ==
    \/ y.user = x.user /\ y.age = x.age
    \/ /\ y.user # None /\ y.user.by # "password"
       /\ y.user.admin => y.age < TTL + MaxStall

\* Auth accepts a user of a session in the browser's context only.
LEMMA SetUserFollows ==
    ASSUME TypeOK, TokensInv, NEW w, Before(w), w.depth = 7,
           NEW id \in Users, NEW admin \in BOOLEAN, NEW by \in {"token", "session"},
           by = "session" => DetectRequestContext(w.in) = "ssr",
           admin => RoleAge(id) < TTL + MaxStall
    PROVE  LET y == SetUser(w, id, admin, by) IN Follows(y, w) /\ UserFound(y, w)
<1> DEFINE u == [id |-> id, admin |-> admin, by |-> by]
           a == RoleAge(id)
           y == [w EXCEPT !.user = u, !.age = a]
<1>1. SetUser(w, id, admin, by) = y
  BY DEF SetUser
<1>2. u \in User /\ u.by = by /\ u.admin = admin /\ a \in Nat
  BY RoleAgeIs DEF User
<1>3. u # None
  BY <1>2, ChainAssumption DEF ChainAssumption
<1> HIDE DEF u, a
<1>5. y \in Exchange
  BY <1>2 DEF Before, Exchange
<1>6. /\ y.depth = w.depth /\ y.pc = "enter" /\ y.hdr = w.hdr /\ y.in = w.in /\ y.ctx = w.ctx
      /\ y.user = u /\ y.age = a /\ y.seen = {} /\ y.bearer = w.bearer /\ y.sess = w.sess
  BY DEF Before, Exchange
<1>7. Clean(y)
  BY DEF Before, Exchange, Clean
<1> HIDE DEF y
<1>8. Inbound(y) /\ FromBrowser(y)
  BY <1>2, <1>6, <1>7 DEF Before, Inbound, FromBrowser, Loaded
<1>9. Local(y)
  BY <1>5, <1>6, <1>8, InboundGood
<1> QED
  BY <1>1, <1>2, <1>3, <1>5, <1>6, <1>9 DEF Follows, UserFound, a

\* Auth refuses, lets pass without a user, or accepts one.
LEMMA AuthFollows ==
    ASSUME TypeOK, TokensInv, NEW w, Before(w), w.depth = 7,
           w.bearer # None => w.bearer \in tokens
    PROVE  LET y == Auth(w) IN Follows(y, w) /\ UserFound(y, w)
<1> DEFINE id == w.sess.data.user
           ctx == DetectRequestContext(w.in)
<1>1. /\ w \in Exchange /\ w.ctx = ctx /\ Loaded(w) /\ Clean(w) /\ FromBrowser(w)
      /\ w.seen = {} /\ w.pc = "enter"
  BY DEF Before
<1>2. id \in Users \cup {None} /\ ctx \in {"api", "ssr"}
  BY <1>1 DEF Exchange, Session, Data
<1>3. Follows(w, w) /\ UserFound(w, w)
  <2>1. Inbound(w)
    BY DEF Before, Inbound
  <2>2. Local(w)
    BY <1>1, <2>1, InboundGood
  <2> QED
    BY <1>1, <2>2 DEF Follows, UserFound
<1>4. \A code \in Nat : LET y == Respond(w, code, "refused") IN Follows(y, w) /\ UserFound(y, w)
  <2> TAKE code \in Nat
  <2>1. Hard(w.hdr, w.in)
    BY BeforeIsHard
  <2> DEFINE y == Respond(w, code, "refused")
  <2>2. Follows(y, w) /\ y.user = w.user /\ y.age = w.age
    <3>1. w.depth >= 6
      OBVIOUS
    <3>2. "refused" \in Bodies
      BY DEF Bodies
    <3> QED
      BY <1>1, <2>1, <3>1, <3>2, RefusalFollows
  <2> QED
    BY <2>2 DEF UserFound
<1>5. CASE w.ctx = "api" /\ w.in.auth = "none"
  BY <1>3, <1>5 DEF Auth
<1>6. CASE w.ctx = "api" /\ w.in.auth = "bearer" /\ ValidateAccessToken(w.bearer)
  <2>1. w.bearer \in tokens /\ w.bearer.user \in Users /\ w.bearer.admin \in BOOLEAN
    BY <1>6 DEF ValidateAccessToken, TypeOK, Token
  <2>2. w.bearer.admin => RoleAge(w.bearer.user) < TTL + MaxStall
    BY <1>6, <2>1, TokenAge
  <2>3. Auth(w) = SetUser(w, w.bearer.user, w.bearer.admin, "token")
    BY <1>6 DEF Auth
  <2> QED
    BY <2>1, <2>2, <2>3, SetUserFollows
<1>7. CASE w.ctx = "ssr" /\ id = None
  BY <1>3, <1>7 DEF Auth
<1>8. CASE w.ctx = "ssr" /\ id # None /\ w.in.fault # "finder"
  <2>1. id \in Users
    BY <1>2, <1>8
  <2>2. Auth(w) = SetUser(w, id, id \in admins, "session")
    BY <1>8 DEF Auth
  <2>3. id \in admins => RoleAge(id) < TTL + MaxStall
    BY <2>1, RoleAgeIs
  <2> QED
    <3> DEFINE admin == id \in admins
    <3>1. admin \in BOOLEAN /\ (admin => RoleAge(id) < TTL + MaxStall)
      BY <2>3
    <3>2. Auth(w) = SetUser(w, id, admin, "session")
      BY <2>2
    <3> HIDE DEF admin
    <3> QED
      BY <1>1, <1>8, <2>1, <3>1, <3>2, SetUserFollows
<1>9. CASE /\ ~(w.ctx = "api" /\ w.in.auth = "none")
           /\ ~(w.ctx = "api" /\ w.in.auth = "bearer" /\ ValidateAccessToken(w.bearer))
           /\ ~(w.ctx = "ssr" /\ id = None)
           /\ ~(w.ctx = "ssr" /\ id # None /\ w.in.fault # "finder")
  <2>1. Auth(w) = Respond(w, IF w.ctx = "api" THEN 401 ELSE 303, "refused")
    BY <1>9 DEF Auth
  <2> QED
    BY <1>4, <2>1
<1> QED
  BY <1>5, <1>6, <1>7, <1>8, <1>9

\* The token that CSRF adds to a session.
LEMMA TokenAdded ==
    ASSUME NEW w, Before(w), w.depth = 8
    PROVE  LET y == [w EXCEPT !.sess = Set(@, [@.data EXCEPT !.csrf = TRUE])] IN
           /\ y \in Exchange /\ Clean(y) /\ Loaded(y) /\ FromBrowser(y)
           /\ y.depth = w.depth /\ y.pc = "enter" /\ y.hdr = w.hdr /\ y.in = w.in
           /\ y.ctx = w.ctx /\ y.user = w.user /\ y.age = w.age /\ y.seen = {}
           /\ y.bearer = w.bearer
<1> DEFINE s == Set(w.sess, [w.sess.data EXCEPT !.csrf = TRUE])
           y == [w EXCEPT !.sess = s]
<1>1. s \in Session /\ s.modified
  BY DEF Before, Exchange, Session, Data, Set
<1> HIDE DEF s
<1>2. y \in Exchange
  BY <1>1 DEF Before, Exchange
<1>3. /\ y.depth = w.depth /\ y.pc = "enter" /\ y.hdr = w.hdr /\ y.in = w.in
      /\ y.ctx = w.ctx /\ y.user = w.user /\ y.age = w.age /\ y.seen = {}
      /\ y.bearer = w.bearer /\ y.sess = s
  BY DEF Before, Exchange
<1>4. Clean(y)
  BY DEF Before, Exchange, Clean
<1> HIDE DEF y
<1>5. Loaded(y) /\ FromBrowser(y)
  BY <1>1, <1>3 DEF Before, Loaded, FromBrowser
<1> QED
  BY <1>2, <1>3, <1>4, <1>5 DEF y, s

\* CSRF lets an unsafe request of a browser pass only with its session's token.
LEMMA CSRFFollows ==
    ASSUME NEW w, Before(w), w.depth = 8
    PROVE  LET y == CSRF(w) IN Follows(y, w) /\ y.user = w.user /\ y.age = w.age
<1> DEFINE known == w.sess.data.csrf
           z == IF known THEN w ELSE [w EXCEPT !.sess = Set(@, [@.data EXCEPT !.csrf = TRUE])]
           ctx == DetectRequestContext(w.in)
<1>1. /\ w \in Exchange /\ w.ctx = ctx /\ Clean(w) /\ Loaded(w) /\ FromBrowser(w)
      /\ w.seen = {} /\ w.pc = "enter"
      /\ known => w.in.cookie # None /\ w.in.cookie.csrf
  BY DEF Before
<1>2. /\ z \in Exchange /\ Clean(z) /\ Loaded(z) /\ FromBrowser(z)
      /\ z.depth = w.depth /\ z.pc = "enter" /\ z.hdr = w.hdr /\ z.in = w.in
      /\ z.ctx = w.ctx /\ z.user = w.user /\ z.age = w.age /\ z.seen = {}
      /\ z.bearer = w.bearer
  <2>1. CASE known
    BY <1>1, <2>1
  <2>2. CASE ~known
    BY <2>2, TokenAdded
  <2> QED
    BY <2>1, <2>2
<1>3. CSRF(w) = IF w.ctx = "api" THEN w
                ELSE IF w.in.method # "POST" \/ (known /\ w.in.tok) THEN z
                ELSE Respond(z, 403, "refused")
  BY DEF CSRF
<1> HIDE DEF z
<1>4. CASE w.ctx = "api"
  <2>1. Checked(w.in)
    BY <1>1, <1>4 DEF Checked
  <2>2. Inbound(w)
    BY <1>1, <2>1 DEF Before, Inbound
  <2>3. Local(w)
    BY <1>1, <2>2, InboundGood
  <2> QED
    BY <1>1, <1>3, <1>4, <2>3 DEF Follows
<1>5. CASE w.ctx # "api" /\ (w.in.method # "POST" \/ (known /\ w.in.tok))
  <2>1. Checked(z.in)
    BY <1>1, <1>2, <1>5 DEF Checked
  <2>2. Inbound(z)
    BY <1>2, <2>1 DEF Before, Inbound
  <2>3. Local(z)
    BY <1>2, <2>2, InboundGood
  <2> QED
    BY <1>2, <1>3, <1>5, <2>3 DEF Follows
<1>6. CASE w.ctx # "api" /\ ~(w.in.method # "POST" \/ (known /\ w.in.tok))
  <2>1. Hard(z.hdr, z.in) /\ z.depth >= 6
    BY <1>2, BeforeIsHard
  <2>2. 403 \in Nat /\ "refused" \in Bodies
    BY DEF Bodies
  <2> DEFINE y == Respond(z, 403, "refused")
  <2>3. Follows(y, z) /\ y.user = z.user /\ y.age = z.age
    BY <1>2, <2>1, <2>2, RefusalFollows
  <2> HIDE DEF y
  <2>4. Follows(y, w) /\ y.user = w.user /\ y.age = w.age
    BY <1>2, <2>3 DEF Follows
  <2> QED
    BY <1>3, <1>6, <2>4 DEF y
<1> QED
  BY <1>4, <1>5, <1>6

\* CORS permits our origin to the API, and answers preflights.
LEMMA CORSFollows ==
    ASSUME NEW w, Before(w), w.depth = 9
    PROVE  LET y == CORS(w) IN Follows(y, w) /\ y.user = w.user /\ y.age = w.age
<1> DEFINE z == IF w.in.origin = "ours" THEN [w EXCEPT !.hdr = @ \cup {"allowOrigin"}] ELSE w
           ctx == DetectRequestContext(w.in)
<1>1. /\ w \in Exchange /\ w.ctx = ctx /\ Clean(w) /\ Loaded(w) /\ FromBrowser(w)
      /\ w.seen = {} /\ w.pc = "enter" /\ Checked(w.in)
  BY DEF Before
<1>2. /\ z \in Exchange /\ Clean(z)
      /\ z.depth = w.depth /\ z.pc = "enter" /\ z.in = w.in /\ z.sess = w.sess
      /\ z.ctx = w.ctx /\ z.user = w.user /\ z.age = w.age /\ z.seen = {}
      /\ z.bearer = w.bearer
      /\ w.hdr \subseteq z.hdr /\ z.hdr \subseteq w.hdr \cup {"allowOrigin"}
      /\ "allowOrigin" \in z.hdr /\ "allowOrigin" \notin w.hdr => w.in.origin = "ours"
  <2>1. CASE w.in.origin = "ours"
    <3> DEFINE v == [w EXCEPT !.hdr = @ \cup {"allowOrigin"}]
    <3>1. v \in Exchange
      BY <1>1 DEF Exchange, Headers
    <3>2. Clean(v)
      BY <1>1 DEF Exchange, Clean
    <3>3. /\ v.depth = w.depth /\ v.pc = "enter" /\ v.in = w.in /\ v.sess = w.sess
          /\ v.ctx = w.ctx /\ v.user = w.user /\ v.age = w.age /\ v.seen = {}
          /\ v.bearer = w.bearer /\ v.hdr = w.hdr \cup {"allowOrigin"}
      BY <1>1 DEF Exchange
    <3> HIDE DEF v
    <3>4. z = v
      BY <2>1 DEF v
    <3> QED
      BY <2>1, <3>1, <3>2, <3>3, <3>4
  <2>2. CASE w.in.origin # "ours"
    BY <1>1, <2>2
  <2> QED
    BY <2>1, <2>2
<1>3. CORS(w) = IF w.ctx = "ssr" \/ w.in.origin = "none" THEN w
                ELSE IF w.in.method = "OPTIONS" THEN [WriteHeader(z, 204) EXCEPT !.pc = "leave"]
                ELSE z
  BY DEF CORS
<1> HIDE DEF z
<1>4. CASE w.ctx = "ssr" \/ w.in.origin = "none"
  <2>2. Inbound(w)
    BY <1>1 DEF Before, Inbound
  <2>3. Local(w)
    BY <1>1, <2>2, InboundGood
  <2> QED
    BY <1>1, <1>3, <1>4, <2>3 DEF Follows
<1>5. ASSUME w.ctx # "ssr"
      PROVE  Loaded(z) /\ FromBrowser(z) /\ Hard(z.hdr, z.in) /\ Inbound(z)
  <2>1. ctx = "api"
    BY <1>1, <1>5, DetectIs
  <2>2. Loaded(z) /\ FromBrowser(z)
    BY <1>1, <1>2 DEF Loaded, FromBrowser
  <2>3. Inbound(z)
    BY <1>1, <1>2, <2>1, <2>2 DEF Before, Inbound
  <2>4. Hard(z.hdr, z.in)
    BY <1>2, <2>3 DEF Inbound, Hard
  <2> QED
    BY <2>2, <2>3, <2>4
<1>6. CASE ~(w.ctx = "ssr" \/ w.in.origin = "none") /\ w.in.method # "OPTIONS"
  <2>3. Local(z)
    BY <1>2, <1>5, <1>6, InboundGood
  <2> QED
    BY <1>2, <1>3, <1>6, <2>3 DEF Follows
<1>7. CASE ~(w.ctx = "ssr" \/ w.in.origin = "none") /\ w.in.method = "OPTIONS"
  <2> DEFINE v == WriteHeader(z, 204)
             y == [v EXCEPT !.pc = "leave"]
  <2>1. IsWriteHeader(v, z, 204)
    BY <1>2, WriteHeaderIs
  <2> HIDE DEF v
  <2>2. v \in Exchange
    BY <2>1 DEF IsWriteHeader
  <2>3. y \in Exchange /\ Rest(y, v)
    BY <2>2 DEF Exchange, Rest
  <2>4. /\ y.pc = "leave" /\ y.body = v.body /\ y.wroteHeader = v.wroteHeader
        /\ y.status = v.status /\ y.saved = v.saved /\ y.cookie = v.cookie /\ y.out = v.out
    BY <2>2 DEF Exchange
  <2>5. CORS(w) = y
    BY <1>3, <1>7 DEF v
  <2> HIDE DEF y
  <2>6. Rest(y, z)
    BY <2>1, <2>3, RestIsTransitive DEF IsWriteHeader
  <2>7. /\ v.wroteHeader /\ v.saved /\ v.out # None
        /\ v.status = 204 /\ v.cookie = saveSession(z).cookie
        /\ v.out = [status |-> 204, hdr |-> z.hdr, cookie |-> v.cookie]
    BY <1>2, <2>1 DEF Clean, IsWriteHeader
  <2>8. IsRespond(y, z, 204, y.body)
    BY <2>3, <2>4, <2>6, <2>7 DEF IsRespond
  <2>9. z.depth >= 6
    BY <1>2
  <2>10. Local(y)
    BY <1>2, <1>5, <1>7, <2>8, <2>9, AnswerGood DEF FromBrowser
  <2> QED
    BY <1>2, <2>3, <2>4, <2>5, <2>6, <2>10 DEF Follows, Rest
<1> QED
  BY <1>4, <1>6, <1>7

\* RateLimit refuses or lets pass.
LEMMA RateLimitFollows ==
    ASSUME NEW w, Before(w), w.depth = 10
    PROVE  LET y == RateLimit(w) IN Follows(y, w) /\ y.user = w.user /\ y.age = w.age
<1>1. /\ w \in Exchange /\ Clean(w) /\ Loaded(w) /\ FromBrowser(w)
      /\ w.seen = {} /\ w.pc = "enter"
  BY DEF Before
<1>2. CASE w.in.fault # "limited"
  <2>1. Inbound(w)
    BY DEF Before, Inbound
  <2>2. Local(w)
    BY <1>1, <2>1, InboundGood
  <2> QED
    BY <1>1, <1>2, <2>2 DEF RateLimit, Follows
<1>3. CASE w.in.fault = "limited"
  <2>1. Hard(w.hdr, w.in) /\ w.depth >= 6
    BY BeforeIsHard
  <2>2. 429 \in Nat /\ "refused" \in Bodies
    BY DEF Bodies
  <2>3. RateLimit(w) = Respond(w, 429, "refused")
    BY <1>3 DEF RateLimit
  <2> QED
    BY <1>1, <2>1, <2>2, <2>3, RefusalFollows
<1> QED
  BY <1>2, <1>3

\* Any middleware: what it hands on is in order for the next one, and so is what
\* it answers.
LEMMA EnterFollows ==
    ASSUME TypeOK, TokensInv, NEW x \in Exchange, x.pc = "enter", Local(x), x.depth < 10,
           x.bearer # None => x.bearer \in tokens
    PROVE  LET y == Enter([x EXCEPT !.depth = @ + 1], Chain[x.depth + 1]) IN
           Follows(y, x) /\ UserFound(y, x)
<1> DEFINE w == [x EXCEPT !.depth = @ + 1]
           y == Enter(w, Chain[x.depth + 1])
<1>1. /\ Before(w) /\ w.depth = x.depth + 1
      /\ w.user = x.user /\ w.age = x.age /\ w.bearer = x.bearer
  BY BeforeIs
<1>2. x.depth \in 0..9
  BY DEF Exchange
<1> HIDE DEF w
<1>3. Follows(y, w) /\ UserFound(y, w)
  <2>1. CASE x.depth = 0
    <3>1. y = RequestID(w)
      BY <2>1 DEF Chain, Enter
    <3> QED
      BY <1>1, <2>1, <3>1, RequestIDFollows DEF UserFound
  <2>2. CASE x.depth \in {1, 2}
    <3>1. y = w
      BY <2>2 DEF Chain, Enter
    <3> QED
      BY <1>1, <2>2, <3>1, NothingFollows DEF UserFound
  <2>4. CASE x.depth = 3
    <3>1. y = ContextDetect(w)
      BY <2>4 DEF Chain, Enter
    <3> QED
      BY <1>1, <2>4, <3>1, ContextDetectFollows DEF UserFound
  <2>5. CASE x.depth = 4
    <3>1. y = SecurityHeaders(w)
      BY <2>5 DEF Chain, Enter
    <3> QED
      BY <1>1, <2>5, <3>1, SecurityHeadersFollows DEF UserFound
  <2>6. CASE x.depth = 5
    <3>1. y = loadSession(w)
      BY <2>6 DEF Chain, Enter
    <3> QED
      BY <1>1, <2>6, <3>1, LoadSessionFollows DEF UserFound
  <2>7. CASE x.depth = 6
    <3>1. y = Auth(w)
      BY <2>7 DEF Chain, Enter
    <3> QED
      BY <1>1, <2>7, <3>1, AuthFollows
  <2>8. CASE x.depth = 7
    <3>1. y = CSRF(w)
      BY <2>8 DEF Chain, Enter
    <3> QED
      BY <1>1, <2>8, <3>1, CSRFFollows DEF UserFound
  <2>9. CASE x.depth = 8
    <3>1. y = CORS(w)
      BY <2>9 DEF Chain, Enter
    <3> QED
      BY <1>1, <2>9, <3>1, CORSFollows DEF UserFound
  <2>10. CASE x.depth = 9
    <3>1. y = RateLimit(w)
      BY <2>10 DEF Chain, Enter
    <3> QED
      BY <1>1, <2>10, <3>1, RateLimitFollows DEF UserFound
  <2> QED
    BY <1>2, <2>1, <2>2, <2>4, <2>5, <2>6, <2>7, <2>8, <2>9, <2>10
<1> HIDE DEF y
<1>4. Follows(y, x) /\ UserFound(y, x)
  BY <1>1, <1>3 DEF Follows, UserFound
<1> QED
  BY <1>4 DEF y, w
-----------------------------------------------------------------------------
(* The routes *)

\* The whole chain was passed, and nothing was written.
Ready(w) ==
    /\ w \in Exchange /\ w.pc = "enter" /\ w.depth = 10 /\ w.seen = {} /\ w.bearer = None
    /\ Clean(w) /\ Hard(w.hdr, w.in) /\ Loaded(w) /\ Checked(w.in) /\ FromBrowser(w)

\* What the mux can rely on.
LEMMA ReadyIs ==
    ASSUME NEW x \in Exchange, x.pc = "enter", x.depth = 10, Local(x)
    PROVE  LET w == [x EXCEPT !.bearer = None] IN
           Ready(w) /\ w.in = x.in /\ w.user = x.user /\ w.age = x.age
<1> DEFINE w == [x EXCEPT !.bearer = None]
<1>1. Inbound(x) /\ FromBrowser(x)
  BY DEF Local, FromBrowser
<1>2. w \in Exchange
  BY DEF Exchange
<1>3. /\ w.pc = "enter" /\ w.depth = 10 /\ w.seen = {} /\ w.bearer = None
      /\ w.in = x.in /\ w.user = x.user /\ w.age = x.age /\ w.hdr = x.hdr /\ w.sess = x.sess
  BY <1>1 DEF Exchange, Inbound
<1>4. Clean(w)
  BY <1>1 DEF Exchange, Inbound, Clean
<1> HIDE DEF w
<1>5. Ready(w)
  BY <1>1, <1>2, <1>3, <1>4 DEF Ready, Inbound, Hard, Loaded, FromBrowser
<1> QED
  BY <1>3, <1>5 DEF w

\* y answers in place of w's handler.
Refused(y, w) ==
    /\ y \in Exchange /\ Local(y) /\ y.pc = "leave" /\ y.seen = {} /\ y.bearer = None
    /\ y.user = w.user /\ y.age = w.age

\* A refusal by the mux or by what a route wraps around its handler.
LEMMA ReadyRefused ==
    ASSUME NEW w, Ready(w), NEW code \in Nat, NEW body \in Bodies
    PROVE  Refused(Respond(w, code, body), w)
<1> DEFINE y == Respond(w, code, body)
<1>1. IsRespond(y, w, code, body)
  BY RespondIs DEF Ready
<1> HIDE DEF y
<1>2. w.depth >= 6
  BY DEF Ready
<1>3. Local(y)
  BY <1>1, <1>2, AnswerGood DEF Ready, FromBrowser
<1>4. Refused(y, w)
  BY <1>1, <1>3 DEF Refused, Ready, IsRespond, Rest
<1> QED
  BY <1>4 DEF y

\* ForceContext changes what the headers said, nobody relies on it from here on.
LEMMA ForceContextReady ==
    ASSUME NEW w, Ready(w)
    PROVE  LET y == ForceContext(w) IN
           Ready(y) /\ y.in = w.in /\ y.user = w.user /\ y.age = w.age
<1> DEFINE y == [w EXCEPT !.ctx = "api"]
<1>1. y \in Exchange
  BY DEF Ready, Exchange
<1>2. /\ y.pc = "enter" /\ y.depth = 10 /\ y.seen = {} /\ y.bearer = None
      /\ y.in = w.in /\ y.user = w.user /\ y.age = w.age /\ y.hdr = w.hdr /\ y.sess = w.sess
  BY DEF Exchange, Ready
<1>3. Clean(y)
  BY DEF Exchange, Ready, Clean
<1>4. ForceContext(w) = y
  BY DEF ForceContext
<1> HIDE DEF y
<1>5. Ready(y)
  BY <1>1, <1>2, <1>3 DEF Ready, Loaded, FromBrowser
<1> QED
  BY <1>2, <1>4, <1>5

\* Behind RequireAuth there is a user.
LEMMA RequireAuthIs ==
    ASSUME NEW w, Ready(w)
    PROVE  RequireAuth(w) = w \/ Refused(RequireAuth(w), w)
<1>1. CASE w.user # None
  BY <1>1 DEF RequireAuth
<1>2. CASE w.user = None
  <2> DEFINE code == IF w.ctx = "api" THEN 401 ELSE 303
  <2>1. code \in Nat /\ "refused" \in Bodies
    BY DEF Bodies
  <2>2. RequireAuth(w) = Respond(w, code, "refused")
    BY <1>2 DEF RequireAuth
  <2> HIDE DEF code
  <2> QED
    BY <2>1, <2>2, ReadyRefused
<1> QED
  BY <1>1, <1>2

\* Behind RequireRole there is a user with the role.
LEMMA RequireRoleIs ==
    ASSUME NEW w, Ready(w)
    PROVE  \/ RequireRole(w) = w /\ w.user # None /\ w.user.admin
           \/ Refused(RequireRole(w), w)
<1>1. CASE w.user = None
  <2>1. RequireRole(w) = RequireAuth(w)
    BY <1>1 DEF RequireRole
  <2> DEFINE code == IF w.ctx = "api" THEN 401 ELSE 303
  <2>2. code \in Nat /\ "refused" \in Bodies
    BY DEF Bodies
  <2>3. RequireAuth(w) = Respond(w, code, "refused")
    BY <1>1 DEF RequireAuth
  <2> HIDE DEF code
  <2> QED
    BY <2>1, <2>2, <2>3, ReadyRefused
<1>2. CASE w.user # None /\ w.user.admin
  BY <1>2 DEF RequireRole
<1>3. CASE w.user # None /\ ~w.user.admin
  <2>1. 403 \in Nat /\ "refused" \in Bodies
    BY DEF Bodies
  <2>2. RequireRole(w) = Respond(w, 403, "refused")
    BY <1>3 DEF RequireRole
  <2> QED
    BY <2>1, <2>2, ReadyRefused
<1> QED
  BY <1>1, <1>2, <1>3

\* A handler that has not written begins.
LEMMA HandlerBegins ==
    ASSUME NEW w, Ready(w), NEW p \in Serving \ Render
    PROVE  LET y == [w EXCEPT !.pc = p] IN
           /\ y \in Exchange /\ Local(y) /\ y.pc = p /\ y.seen = {} /\ y.bearer = None
           /\ y.user = w.user /\ y.age = w.age
<1> DEFINE y == [w EXCEPT !.pc = p]
<1>1. y \in Exchange
  BY DEF Ready, Exchange
<1>2. /\ y.pc = p /\ y.depth = 10 /\ y.seen = {} /\ y.bearer = None
      /\ y.in = w.in /\ y.user = w.user /\ y.age = w.age /\ y.hdr = w.hdr /\ y.sess = w.sess
  BY DEF Exchange, Ready
<1>3. Clean(y)
  BY DEF Exchange, Ready, Clean
<1> HIDE DEF y
<1>4. Handling(y)
  BY <1>2, <1>3 DEF Ready, Handling, Clean, Loaded
<1>5. Local(y)
  BY <1>2, <1>3, <1>4 DEF Local, Clean, Serving, Render, Ready, FromBrowser
<1> QED
  BY <1>1, <1>2, <1>5 DEF y

\* HTML begins, for a page or for a form that is shown again.
LEMMA HTMLBegins ==
    ASSUME TypeOK, NEW w \in Exchange, NEW p \in Pages,
           w.depth = 10, Clean(w), Hard(w.hdr, w.in), Loaded(w), Checked(w.in), FromBrowser(w)
    PROVE  LET y == HTML(w, p) IN
           /\ y \in Exchange /\ Local(y) /\ y.pc = "lookup" /\ y.page = p
           /\ y.seen = {files[p]} /\ y.bearer = w.bearer
           /\ y.user = w.user /\ y.age = w.age
<1> DEFINE k == files[p]
           y == [w EXCEPT !.pc = "lookup", !.page = p, !.seen = {k}]
<1>1. k \in Kinds
  BY DEF TypeOK
<1>2. HTML(w, p) = y
  BY DEF HTML
<1> HIDE DEF k
<1>3. y \in Exchange
  BY <1>1 DEF Exchange, Serving, Render
<1>4. /\ y.pc = "lookup" /\ y.depth = 10 /\ y.seen = {k} /\ y.bearer = w.bearer /\ y.page = p
      /\ y.in = w.in /\ y.user = w.user /\ y.age = w.age /\ y.hdr = w.hdr /\ y.sess = w.sess
  BY DEF Exchange
<1>5. Clean(y)
  BY DEF Exchange, Clean
<1> HIDE DEF y
<1>6. Handling(y)
  BY <1>4, <1>5 DEF Handling, Clean, Loaded
<1>7. Local(y)
  BY <1>4, <1>5, <1>6 DEF Local, Clean, Serving, Render, FromBrowser
<1> QED
  BY <1>2, <1>3, <1>4, <1>7 DEF k

\* What the mux hands an exchange to.
Dispatched(y, x) ==
    /\ y \in Exchange /\ Local(y) /\ y.bearer = None /\ y.user = x.user /\ y.age = x.age
    /\ \/ y.pc = "leave" /\ y.seen = {}
       \/ y.pc = "lookup" /\ y.seen = {files[y.page]}
       \/ y.pc \in Serving \ (Render \cup {"generate"}) /\ y.seen = {}
    /\ y.pc = "admin" => x.user # None /\ x.user.admin

\* The mux answers, begins a page or calls a handler.
LEMMA ServeMuxIs ==
    ASSUME TypeOK, NEW x \in Exchange, x.pc = "enter", x.depth = 10, Local(x)
    PROVE  Dispatched(ServeMux([x EXCEPT !.bearer = None]), x)
<1> DEFINE w == [x EXCEPT !.bearer = None]
           route == w.in.route
           y == CASE route = "profile"  -> RequireAuth(w)
                  [] route = "apiMe"    -> RequireAuth(ForceContext(w))
                  [] route = "apiLogin" -> ForceContext(w)
                  [] route = "admin"    -> RequireRole(w)
                  [] OTHER              -> w
<1>1. Ready(w) /\ w.in = x.in /\ w.user = x.user /\ w.age = x.age
  BY ReadyIs
<1> HIDE DEF w
<1>2. \/ Refused(y, w)
      \/ /\ Ready(y) /\ y.in = w.in /\ y.user = w.user /\ y.age = w.age
         /\ route = "admin" => y.user # None /\ y.user.admin
  <2> DEFINE v == ForceContext(w)
  <2>1. Ready(v) /\ v.in = w.in /\ v.user = w.user /\ v.age = w.age
    BY <1>1, ForceContextReady
  <2> HIDE DEF v
  <2>2. CASE route = "profile"
    <3>1. y = RequireAuth(w)
      BY <2>2
    <3> QED
      BY <1>1, <2>2, <3>1, RequireAuthIs
  <2>3. CASE route = "apiMe"
    <3>1. y = RequireAuth(v)
      BY <2>3 DEF v
    <3>2. y = v \/ Refused(y, v)
      BY <2>1, <3>1, RequireAuthIs
    <3> QED
      BY <2>1, <2>3, <3>2 DEF Refused
  <2>4. CASE route = "apiLogin"
    <3>1. y = v
      BY <2>4 DEF v
    <3> QED
      BY <2>1, <2>4, <3>1
  <2>5. CASE route = "admin"
    <3>1. y = RequireRole(w)
      BY <2>5
    <3> QED
      BY <1>1, <2>5, <3>1, RequireRoleIs
  <2>6. CASE route \notin {"profile", "apiMe", "apiLogin", "admin"}
    <3>1. y = w
      BY <2>6
    <3> QED
      BY <1>1, <2>6, <3>1
  <2> QED
    BY <2>2, <2>3, <2>4, <2>5, <2>6
<1>3. ServeMux(w) =
        IF <<w.in.method, route>> \notin Routes
        THEN Respond(w, IF \E r \in Routes : r[2] = route THEN 405 ELSE 404, "error")
        ELSE IF y.pc = "leave" THEN y
        ELSE IF <<w.in.method, route>> \in {"GET"} \X Pages THEN HTML(y, route)
        ELSE [y EXCEPT !.pc = route]
  BY DEF ServeMux
<1> HIDE DEF y
<1>4. CASE <<w.in.method, route>> \notin Routes
  <2> DEFINE code == IF \E r \in Routes : r[2] = route THEN 405 ELSE 404
  <2>1. code \in Nat /\ "error" \in Bodies
    BY DEF Bodies
  <2>2. ServeMux(w) = Respond(w, code, "error")
    BY <1>3, <1>4
  <2> HIDE DEF code
  <2>3. Refused(ServeMux(w), w)
    BY <1>1, <2>1, <2>2, ReadyRefused
  <2> QED
    BY <1>1, <2>3 DEF Refused, Dispatched, w
<1>5. CASE <<w.in.method, route>> \in Routes /\ y.pc = "leave"
  <2>1. Refused(y, w)
    BY <1>2, <1>5 DEF Ready
  <2>2. ServeMux(w) = y
    BY <1>3, <1>5
  <2> QED
    BY <1>1, <2>1, <2>2 DEF Refused, Dispatched, w
<1>6. CASE <<w.in.method, route>> \in Routes /\ y.pc # "leave"
  <2>1. /\ Ready(y) /\ y.in = w.in /\ y.user = w.user /\ y.age = w.age
        /\ route = "admin" => y.user # None /\ y.user.admin
    BY <1>2, <1>6 DEF Refused
  <2>2. CASE <<w.in.method, route>> \in {"GET"} \X Pages
    <3>1. route \in Pages
      BY <2>2
    <3>2. ServeMux(w) = HTML(y, route)
      BY <1>3, <1>6, <2>2
    <3> DEFINE z == HTML(y, route)
    <3>3. /\ z \in Exchange /\ Local(z) /\ z.pc = "lookup" /\ z.page = route
          /\ z.seen = {files[route]} /\ z.bearer = y.bearer
          /\ z.user = y.user /\ z.age = y.age
      BY <2>1, <3>1, HTMLBegins DEF Ready
    <3> HIDE DEF z
    <3>4. Dispatched(z, x)
      BY <1>1, <2>1, <3>3 DEF Dispatched, Ready
    <3> QED
      BY <3>2, <3>4 DEF z, w
  <2>3. CASE <<w.in.method, route>> \notin {"GET"} \X Pages
    <3>1. route \in Serving \ (Render \cup {"generate"})
      BY <1>6, <2>3 DEF Routes, AccountRoutes, Pages, Serving, Render
    <3>2. ServeMux(w) = [y EXCEPT !.pc = route]
      BY <1>3, <1>6, <2>3
    <3> DEFINE z == [y EXCEPT !.pc = route]
    <3>3. /\ z \in Exchange /\ Local(z) /\ z.pc = route /\ z.seen = {} /\ z.bearer = None
          /\ z.user = y.user /\ z.age = y.age
      BY <2>1, <3>1, HandlerBegins
    <3> HIDE DEF z
    <3>4. Dispatched(z, x)
      BY <1>1, <2>1, <3>1, <3>3 DEF Dispatched
    <3> QED
      BY <3>2, <3>4 DEF z, w
  <2> QED
    BY <2>2, <2>3
<1> QED
  BY <1>4, <1>5, <1>6 DEF w
-----------------------------------------------------------------------------
(* Handlers *)

\* An exchange that renders no page has no page to keep true.
LEMMA NoPage ==
    ASSUME NEW y \in Exchange, y.seen = {}, y.pc \notin Render
    PROVE  PageInv(y)
BY DEF PageInv, Render

\* Roles matter on the way in, at the admin route and while a token is made.
LEMMA RolesKept ==
    ASSUME NEW x, RoleInv(x), NEW y, y.bearer = None \/ y.bearer = x.bearer,
           y.user = x.user, y.age = x.age, y.pc \notin {"enter", "admin", "generate"}
    PROVE  RoleInv(y)
BY DEF RoleInv

\* What is known when a handler takes a step.
LEMMA InHandler ==
    ASSUME NEW x \in Exchange, Good(x), x.pc \in Serving \ {"app"}
    PROVE  /\ x.depth = 10 /\ x.depth >= 6 /\ Clean(x) /\ Hard(x.hdr, x.in) /\ Loaded(x)
           /\ Checked(x.in) /\ FromBrowser(x)
           /\ x.pc \notin Render => x.seen = {}
<1>1. Local(x) /\ PageInv(x)
  BY DEF Good
<1>2. Handling(x)
  BY <1>1 DEF Local
<1> QED
  BY <1>1, <1>2 DEF Handling, Local, FromBrowser, PageInv, Render

\* A handler that has written nothing answers.
LEMMA HandlerAnswers ==
    ASSUME NEW x \in Exchange, Clean(x), Hard(x.hdr, x.in), Loaded(x), x.depth = 10,
           FromBrowser(x), x.seen = {}, RoleInv(x),
           NEW code \in Nat, NEW body \in Bodies
    PROVE  LET y == Respond(x, code, body) IN
           y \in Exchange /\ Good(y)
<1> DEFINE y == Respond(x, code, body)
<1>1. IsRespond(y, x, code, body)
  BY RespondIs
<1> HIDE DEF y
<1>2. x.depth >= 6
  OBVIOUS
<1>3. Local(y)
  BY <1>1, <1>2, AnswerGood DEF FromBrowser
<1>4. /\ y \in Exchange /\ y.pc = "leave" /\ y.bearer = x.bearer /\ y.user = x.user
      /\ y.age = x.age /\ y.seen = {}
  BY <1>1 DEF IsRespond, Rest
<1>5. PageInv(y)
  BY <1>4, NoPage DEF Render
<1>6. RoleInv(y)
  BY <1>4, RolesKept
<1> QED
  BY <1>3, <1>4, <1>5, <1>6 DEF Good, y

\* A handler changes the session before it answers.
LEMMA SessionChanged ==
    ASSUME NEW x \in Exchange, NEW s \in Session, s.modified
    PROVE  LET w == [x EXCEPT !.sess = s] IN
           /\ w \in Exchange /\ Loaded(w)
           /\ Clean(x) => Clean(w)
           /\ w.sess = s /\ w.in = x.in /\ w.hdr = x.hdr /\ w.depth = x.depth /\ w.pc = x.pc
           /\ w.user = x.user /\ w.age = x.age /\ w.seen = x.seen /\ w.bearer = x.bearer
<1> DEFINE w == [x EXCEPT !.sess = s]
<1>1. w \in Exchange
  BY DEF Exchange
<1>2. /\ w.sess = s /\ w.in = x.in /\ w.hdr = x.hdr /\ w.depth = x.depth /\ w.pc = x.pc
      /\ w.user = x.user /\ w.age = x.age /\ w.seen = x.seen /\ w.bearer = x.bearer
  BY DEF Exchange
<1>3. Clean(x) => Clean(w)
  BY DEF Exchange, Clean
<1>4. Loaded(w)
  BY <1>2 DEF Loaded
<1> QED
  BY <1>1, <1>2, <1>3, <1>4

\* Set marks the session as modified.
LEMMA SetSession ==
    ASSUME NEW x \in Exchange, NEW d \in Data
    PROVE  Set(x.sess, d) \in Session /\ Set(x.sess, d).modified
BY DEF Set, Exchange, Session

\* Destroy changes the session and nothing else.
LEMMA SessionDestroyed ==
    ASSUME NEW x \in Exchange
    PROVE  [x EXCEPT !.sess.destroyed = TRUE, !.sess.modified = TRUE]
         = [x EXCEPT !.sess = [x.sess EXCEPT !.destroyed = TRUE, !.modified = TRUE]]
BY DEF Exchange, Session

\* A handler that answers after it changed the session.
LEMMA SessionAnswered ==
    ASSUME NEW x \in Exchange, Good(x), x.pc \in Serving \ (Render \cup {"app"}),
           NEW s \in Session, s.modified, NEW code \in Nat, NEW body \in Bodies
    PROVE  LET y == Respond([x EXCEPT !.sess = s], code, body) IN
           y \in Exchange /\ Good(y)
<1> DEFINE w == [x EXCEPT !.sess = s]
<1>1. /\ x.depth = 10 /\ Clean(x) /\ Hard(x.hdr, x.in) /\ FromBrowser(x) /\ x.seen = {}
      /\ RoleInv(x)
  BY InHandler DEF Good
<1>2. /\ w \in Exchange /\ Loaded(w) /\ Clean(w)
      /\ w.in = x.in /\ w.hdr = x.hdr /\ w.depth = x.depth /\ w.pc = x.pc
      /\ w.user = x.user /\ w.age = x.age /\ w.seen = x.seen /\ w.bearer = x.bearer
  BY <1>1, SessionChanged
<1>3. w.began = x.began
  BY DEF Exchange
<1> HIDE DEF w
<1>4. RoleInv(w)
  BY <1>1, <1>2, <1>3 DEF RoleInv
<1>5. FromBrowser(w)
  BY <1>1, <1>2 DEF FromBrowser
<1>6. Respond(w, code, body) \in Exchange /\ Good(Respond(w, code, body))
  BY <1>1, <1>2, <1>4, <1>5, HandlerAnswers
<1> QED
  BY <1>6 DEF w

\* A handler panics, or returns without an answer.
LEMMA HandlerReturns ==
    ASSUME NEW x \in Exchange, Good(x), x.pc \in Serving \ Render, NEW panics \in BOOLEAN
    PROVE  LET y == [x EXCEPT !.panicking = panics, !.panicked = panics, !.pc = "leave"] IN
           y \in Exchange /\ Good(y)
<1> DEFINE y == [x EXCEPT !.panicking = panics, !.panicked = panics, !.pc = "leave"]
<1>1. Local(x) /\ PageInv(x) /\ RoleInv(x) /\ Handling(x)
  BY DEF Good, Local
<1>2. y \in Exchange
  BY DEF Exchange
<1>3. /\ y.pc = "leave" /\ y.in = x.in /\ y.hdr = x.hdr /\ y.sess = x.sess /\ y.depth = x.depth
      /\ y.user = x.user /\ y.age = x.age /\ y.bearer = x.bearer /\ y.seen = x.seen
      /\ y.panicking = panics /\ y.panicked = panics
  BY DEF Exchange
<1>4. /\ y.out = x.out /\ y.saved = x.saved /\ y.cookie = x.cookie /\ y.status = x.status
      /\ y.wroteHeader = x.wroteHeader /\ y.lateHeader = x.lateHeader
      /\ y.lateSession = x.lateSession
  BY DEF Exchange
<1> HIDE DEF y
<1>5. Outbound(y)
  BY <1>1, <1>3, <1>4 DEF Handling, Outbound, Loaded
<1>6. Local(y)
  BY <1>1, <1>3, <1>4, <1>5 DEF Local, Handling, Delivered, Serving, Render
<1>7. PageInv(y)
  <2>1. y.seen = {}
    BY <1>1, <1>3 DEF PageInv
  <2> QED
    BY <1>2, <1>3, <2>1, NoPage DEF Render
<1>8. RoleInv(y)
  BY <1>1, <1>3, RolesKept
<1> QED
  BY <1>2, <1>6, <1>7, <1>8 DEF Good, y

\* An application's handler changes the session, perhaps too late.
LEMMA AppSession ==
    ASSUME NEW x \in Exchange, Good(x), x.pc = "app", NEW s \in Session, s.modified
    PROVE  LET y == [x EXCEPT !.sess = s, !.lateSession = x.saved] IN
           y \in Exchange /\ Good(y)
<1> DEFINE y == [x EXCEPT !.sess = s, !.lateSession = x.saved]
<1>1. Local(x) /\ PageInv(x) /\ RoleInv(x) /\ Handling(x)
  BY DEF Good, Local, Serving
<1>2. y \in Exchange
  BY DEF Exchange
<1>3. /\ y.pc = "app" /\ y.in = x.in /\ y.hdr = x.hdr /\ y.sess = s /\ y.depth = x.depth
      /\ y.user = x.user /\ y.age = x.age /\ y.bearer = x.bearer /\ y.seen = x.seen
      /\ y.panicking = x.panicking /\ y.panicked = x.panicked
  BY DEF Exchange
<1>4. /\ y.out = x.out /\ y.saved = x.saved /\ y.cookie = x.cookie /\ y.status = x.status
      /\ y.wroteHeader = x.wroteHeader /\ y.lateHeader = x.lateHeader
      /\ y.lateSession = x.saved
  BY DEF Exchange
<1> HIDE DEF y
<1>5. Handling(y)
  BY <1>1, <1>3, <1>4 DEF Handling, Loaded
<1>6. Local(y)
  BY <1>1, <1>3, <1>4, <1>5 DEF Local
<1>7. PageInv(y)
  <2>1. y.seen = {}
    BY <1>1, <1>3 DEF PageInv, Serving, Render
  <2> QED
    BY <1>2, <1>3, <2>1, NoPage DEF Render
<1>8. RoleInv(y)
  BY <1>1, <1>3, RolesKept
<1> QED
  BY <1>2, <1>6, <1>7, <1>8 DEF Good, y

\* What an application's handler writes: the first byte takes the session along.
AppWritten(y, x) ==
    /\ y \in Exchange /\ y.pc = "app"
    /\ y.in = x.in /\ y.hdr = x.hdr /\ y.sess = x.sess /\ y.depth = x.depth
    /\ y.user = x.user /\ y.age = x.age /\ y.bearer = x.bearer /\ y.seen = x.seen
    /\ y.panicking = x.panicking /\ y.panicked = x.panicked /\ y.lateSession = x.lateSession
    /\ y.saved /\ y.cookie = IF x.saved THEN x.cookie ELSE saveSession(x).cookie
    /\ y.out # None
    /\ x.out # None => y.out = x.out
    /\ x.out = None => y.out.hdr = x.hdr /\ y.out.cookie = y.cookie
    /\ ~y.lateHeader => y.out.status = y.status
    /\ ~y.wroteHeader => y.status = 200

\* An application's handler may write as often as it likes ...
LEMMA AppWrites ==
    ASSUME NEW x \in Exchange, Good(x), x.pc = "app", NEW y, AppWritten(y, x)
    PROVE  Good(y)
<1>1. Local(x) /\ PageInv(x) /\ RoleInv(x) /\ Handling(x)
  BY DEF Good, Local, Serving
<1>3. Handling(y)
  BY <1>1 DEF Handling, Loaded, AppWritten
<1>4. Hard(y.out.hdr, y.in)
  BY <1>1 DEF Handling, Local, AppWritten
<1>5. ~y.lateSession => Delivered(y.out.cookie, y)
  <2>1. CASE x.saved
    BY <1>1, <2>1 DEF Local, Delivered, AppWritten
  <2>2. CASE ~x.saved
    <3>1. x.out = None /\ x.cookie = {} /\ Loaded(x)
      BY <1>1, <2>2 DEF Handling
    <3>2. Delivered(saveSession(x).cookie, x)
      BY <3>1, SaveSessionDelivers
    <3>3. y.out.cookie = saveSession(x).cookie
      BY <2>2, <3>1 DEF AppWritten
    <3> QED
      BY <3>2, <3>3 DEF Delivered, AppWritten
  <2> QED
    BY <2>1, <2>2
<1>8. Local(y)
  BY <1>1, <1>3, <1>4, <1>5 DEF Local, AppWritten
<1>9. PageInv(y)
  <2>1. y.seen = {} /\ y.pc \notin Render /\ y \in Exchange
    BY <1>1 DEF PageInv, Serving, Render, AppWritten
  <2> QED
    BY <2>1, NoPage
<1>10. RoleInv(y)
  BY <1>1, RolesKept DEF AppWritten
<1> QED
  BY <1>8, <1>9, <1>10 DEF Good

\* ... by Write, whether or not a status was set ...
LEMMA AppWrite ==
    ASSUME NEW x \in Exchange, Good(x), x.pc = "app"
    PROVE  LET y == Write(x, "text") IN y \in Exchange /\ Good(y)
<1> DEFINE y == Write(x, "text")
<1>1. "text" \in Bodies
  BY DEF Bodies
<1>2. IsWrite(y, x, "text")
  BY <1>1, WriteIs
<1> HIDE DEF y
<1>3. Local(x) /\ Handling(x)
  BY DEF Good, Local, Serving
<1>4. /\ ~y.lateHeader => y.out.status = y.status
      /\ ~y.wroteHeader => y.status = 200
  BY <1>2, <1>3 DEF IsWrite, Rest, Local, Handling
<1>5. AppWritten(y, x)
  BY <1>2, <1>4 DEF IsWrite, Rest, AppWritten
<1>6. y \in Exchange /\ Good(y)
  BY <1>5, AppWrites DEF AppWritten
<1> QED
  BY <1>6 DEF y

\* ... and by WriteHeader, which after a Write is too late.
LEMMA AppWriteHeader ==
    ASSUME NEW x \in Exchange, Good(x), x.pc = "app", NEW code \in Nat
    PROVE  LET y == [WriteHeader(x, code) EXCEPT
                        !.lateHeader = @ \/ (x.out # None /\ ~x.wroteHeader)] IN
           y \in Exchange /\ Good(y)
<1> DEFINE w == WriteHeader(x, code)
           late == w.lateHeader \/ (x.out # None /\ ~x.wroteHeader)
           y == [w EXCEPT !.lateHeader = late]
<1>1. IsWriteHeader(w, x, code)
  BY WriteHeaderIs
<1> HIDE DEF w
<1>2. w \in Exchange /\ Rest(w, x) /\ late \in BOOLEAN
  BY <1>1 DEF IsWriteHeader
<1>3. late <=> x.lateHeader \/ (x.out # None /\ ~x.wroteHeader)
  BY <1>2 DEF Rest
<1>4. Local(x) /\ Handling(x)
  BY DEF Good, Local, Serving
<1>5. ~late => w.out.status = w.status
  BY <1>1, <1>3, <1>4 DEF IsWriteHeader, Local, Handling
<1> HIDE DEF late
<1>6. y \in Exchange
  BY <1>2 DEF Exchange
<1>7. /\ y.in = w.in /\ y.hdr = w.hdr /\ y.sess = w.sess /\ y.depth = w.depth
      /\ y.user = w.user /\ y.age = w.age /\ y.bearer = w.bearer /\ y.seen = w.seen
      /\ y.panicking = w.panicking /\ y.panicked = w.panicked /\ y.lateSession = w.lateSession
  BY <1>2 DEF Exchange
<1>8. /\ y.lateHeader = late /\ y.pc = w.pc /\ y.saved = w.saved /\ y.cookie = w.cookie
      /\ y.out = w.out /\ y.wroteHeader = w.wroteHeader /\ y.status = w.status
  BY <1>2 DEF Exchange
<1> HIDE DEF y
<1>9. AppWritten(y, x)
  BY <1>1, <1>5, <1>6, <1>7, <1>8 DEF IsWriteHeader, Rest, AppWritten
<1>10. Good(y)
  BY <1>9, AppWrites
<1> QED
  BY <1>6, <1>10 DEF y, late, w
-----------------------------------------------------------------------------
(* The renderer *)

\* y is x with another template or place in the renderer.
Renders(y, x) ==
    /\ y \in Exchange /\ y.pc \in Render
    /\ y.in = x.in /\ y.hdr = x.hdr /\ y.sess = x.sess /\ y.depth = x.depth
    /\ y.user = x.user /\ y.age = x.age /\ y.bearer = x.bearer
    /\ y.seen = x.seen /\ y.page = x.page /\ Clean(y)

\* Rendering writes nothing before Execute.
LEMMA RendersLocal ==
    ASSUME NEW x \in Exchange, Good(x), x.pc \in Render, NEW y, Renders(y, x)
    PROVE  Local(y) /\ RoleInv(y)
<1>1. /\ x.depth = 10 /\ Clean(x) /\ Hard(x.hdr, x.in) /\ Loaded(x) /\ Checked(x.in)
      /\ FromBrowser(x) /\ RoleInv(x)
  BY InHandler DEF Good, Serving, Render
<1>2. Handling(y)
  BY <1>1 DEF Renders, Handling, Clean, Loaded
<1>3. Local(y)
  BY <1>1, <1>2 DEF Renders, Local, Clean, FromBrowser, Serving, Render
<1>4. y.pc \notin {"enter", "admin", "generate"}
  BY DEF Renders, Render
<1>5. RoleInv(y)
  BY <1>1, <1>4, RolesKept DEF Renders
<1> QED
  BY <1>3, <1>5

\* HTML goes on without a template ...
LEMMA PlaceRenders ==
    ASSUME NEW x \in Exchange, Good(x), x.pc \in Render, NEW p \in Render
    PROVE  LET y == [x EXCEPT !.pc = p] IN
           Renders(y, x) /\ y.pc = p /\ y.tmpl = x.tmpl
<1> DEFINE y == [x EXCEPT !.pc = p]
<1>1. y \in Exchange
  BY DEF Exchange, Serving
<1>2. Clean(x)
  BY InHandler DEF Serving, Render
<1>3. Clean(y)
  BY <1>2 DEF Clean, Exchange
<1> QED
  BY <1>1, <1>3 DEF Renders, Exchange

Loads(y, x, t, p) == Renders(y, x) /\ y.pc = p /\ y.tmpl = t

\* ... or with the one it loaded.
LEMMA TemplateRenders ==
    ASSUME NEW x \in Exchange, Good(x), x.pc \in Render, NEW p \in Render, NEW t \in Kinds
    PROVE  Loads([x EXCEPT !.tmpl = t, !.pc = p], x, t, p)
<1> DEFINE y == [x EXCEPT !.tmpl = t, !.pc = p]
<1>1. y \in Exchange
  BY DEF Exchange, Serving
<1>2. Clean(x)
  BY InHandler DEF Serving, Render
<1>3. Clean(y)
  BY <1>2 DEF Clean, Exchange
<1> QED
  BY <1>1, <1>3 DEF Loads, Renders, Exchange

\* Execute wrote the page, a part of it or nothing, and the handler returns.
LEMMA ExecuteGood ==
    ASSUME TypeOK, NEW x \in Exchange, Good(x), x.pc = "execute"
    PROVE  LET w == [x EXCEPT !.pc = "leave"]
               y == CASE w.tmpl = "complete"   -> Write(w, "page")
                      [] w.tmpl = "failing"    -> Write(w, "part")
                      [] w.tmpl = "incomplete" -> w
           IN  y \in Exchange /\ Good(y)
<1> DEFINE w == [x EXCEPT !.pc = "leave"]
           y == CASE w.tmpl = "complete"   -> Write(w, "page")
                  [] w.tmpl = "failing"    -> Write(w, "part")
                  [] w.tmpl = "incomplete" -> w
           k == w.tmpl
<1>1. /\ x.depth = 10 /\ Clean(x) /\ Hard(x.hdr, x.in) /\ Loaded(x)
      /\ FromBrowser(x) /\ RoleInv(x) /\ PageInv(x)
  BY InHandler DEF Good, Serving, Render
<1>2. w \in Exchange
  BY DEF Exchange
<1>3. /\ w.pc = "leave" /\ w.tmpl = x.tmpl /\ w.page = x.page /\ w.seen = x.seen
      /\ w.in = x.in /\ w.hdr = x.hdr /\ w.sess = x.sess /\ w.depth = x.depth
      /\ w.user = x.user /\ w.age = x.age /\ w.bearer = x.bearer
  BY DEF Exchange
<1>4. Clean(w)
  BY <1>1 DEF Clean, Exchange
<1> HIDE DEF w
<1>5. /\ k \in past[w.page] \ {"invalid"} /\ k \in Kinds \ {"invalid"} /\ w.seen # {}
      /\ traffic.reload => k \in w.seen
      /\ w.seen \subseteq past[w.page]
  <2>1. x.tmpl \in past[x.page] \ {"invalid"} /\ x.tmpl \in Kinds \cup {None}
    BY <1>1 DEF PageInv, Exchange
  <2>2. x.tmpl \in Kinds
    BY <2>1 DEF TypeOK, Exchange
  <2> QED
    BY <1>1, <1>3, <2>1, <2>2 DEF PageInv, Serving, Render
<1>6. Loaded(w)
  BY <1>1, <1>3 DEF Loaded
<1>7. ASSUME NEW v, NEW body \in Bodies, k # "incomplete", v = Write(w, body),
             body = Body[k]
      PROVE  v \in Exchange /\ Good(v)
  <2>1. IsWrite(v, w, body)
    BY <1>2, <1>7, WriteIs
  <2>2. /\ v.in = w.in /\ v.hdr = w.hdr /\ v.sess = w.sess /\ v.depth = w.depth /\ v.pc = "leave"
        /\ v.user = w.user /\ v.age = w.age /\ v.bearer = w.bearer
        /\ v.page = w.page /\ v.seen = w.seen /\ ~v.panicking /\ ~v.panicked
        /\ v.status = 200 /\ v.wroteHeader = w.wroteHeader /\ v.body = body
    BY <1>3, <1>4, <2>1 DEF IsWrite, Rest, Clean
  <2>3. v.out = [status |-> 200, hdr |-> w.hdr, cookie |-> saveSession(w).cookie]
    BY <1>4, <2>1 DEF IsWrite, Clean
  <2>4. v.saved /\ v.out # None /\ v \in Exchange
    BY <2>1 DEF IsWrite
  <2>5. Delivered(v.out.cookie, v)
    <3>1. Delivered(saveSession(w).cookie, w)
      BY <1>2, <1>4, <1>6, SaveSessionDelivers DEF Clean
    <3> QED
      BY <2>2, <2>3, <3>1 DEF Delivered
  <2>6. Outbound(v)
    BY <1>1, <1>3, <1>6, <2>2, <2>4 DEF Outbound, Loaded
  <2>7. Local(v)
    BY <1>1, <1>3, <2>2, <2>3, <2>4, <2>5, <2>6 DEF Local, FromBrowser, Serving, Render
  <2>8. Rendered(v, k)
    BY <1>5, <1>7, <2>2, <2>3, <2>4 DEF Rendered
  <2>9. PageInv(v)
    BY <1>5, <2>2, <2>8 DEF PageInv, Serving, Render
  <2>10. RoleInv(v)
    BY <1>1, <1>3, <2>2, RolesKept
  <2> QED
    BY <2>4, <2>7, <2>9, <2>10 DEF Good
<1>8. CASE k = "complete"
  <2>1. y = Write(w, "page") /\ "page" \in Bodies /\ "page" = Body[k]
    BY <1>8 DEF Bodies, Body
  <2> QED
    BY <1>7, <1>8, <2>1 DEF w
<1>9. CASE k = "failing"
  <2>1. y = Write(w, "part") /\ "part" \in Bodies /\ "part" = Body[k]
    BY <1>9 DEF Bodies, Body
  <2> QED
    BY <1>7, <1>9, <2>1 DEF w
<1>10. CASE k = "incomplete"
  <2>1. y = w
    BY <1>10
  <2>2. Outbound(w)
    <3>1. w.depth = 10 /\ Hard(w.hdr, w.in)
      BY <1>1, <1>3
    <3>2. w.out = None /\ w.cookie = {} /\ ~w.panicking /\ ~w.panicked
      BY <1>4 DEF Clean
    <3> HIDE DEF k, y
    <3> QED
      BY <1>6, <3>1, <3>2 DEF Outbound
  <2>3. Local(w)
    BY <1>1, <1>3, <1>4, <2>2 DEF Local, Clean, FromBrowser, Serving, Render
  <2>4. Rendered(w, k)
    <3>1. w.body = Body[k]
      <4>1. Body["incomplete"] = ""
        BY DEF Body
      <4>2. w.body = ""
        BY <1>4 DEF Clean
      <4> QED
        BY <1>10, <4>1, <4>2
    <3>2. w.pc = "leave" /\ w.out = None /\ k = "incomplete"
      BY <1>3, <1>4, <1>10 DEF Clean
    <3> HIDE DEF k
    <3> QED
      BY <3>1, <3>2 DEF Rendered
  <2>5. PageInv(w)
    <3>1. w.pc = "leave" /\ ~w.panicked
      BY <1>3, <1>4 DEF Clean
    <3> HIDE DEF k
    <3> QED
      BY <1>5, <2>4, <3>1 DEF PageInv, Serving, Render
  <2>6. RoleInv(w)
    BY <1>1, <1>3, RolesKept
  <2> QED
    BY <1>2, <2>1, <2>3, <2>5, <2>6 DEF Good, w
<1> QED
  BY <1>5, <1>8, <1>9, <1>10 DEF Kinds

\* A file that cannot be parsed is answered.
LEMMA ParseFails ==
    ASSUME NEW x \in Exchange, Good(x), x.pc = "parse", files[x.page] = "invalid"
    PROVE  LET y == Respond(x, 500, "error") IN y \in Exchange /\ Good(y)
<1> DEFINE y == Respond(x, 500, "error")
<1>1. /\ x.depth = 10 /\ x.depth >= 6 /\ Clean(x) /\ Hard(x.hdr, x.in) /\ Loaded(x)
      /\ FromBrowser(x) /\ RoleInv(x) /\ PageInv(x)
  BY InHandler DEF Good, Serving, Render
<1>2. 500 \in Nat /\ "error" \in Bodies
  BY DEF Bodies
<1>3. IsRespond(y, x, 500, "error")
  BY <1>1, <1>2, RespondIs
<1> HIDE DEF y
<1>4. Local(y)
  BY <1>1, <1>3, AnswerGood DEF FromBrowser
<1>5. /\ y \in Exchange /\ y.pc = "leave" /\ y.body = "error"
      /\ y.out # None /\ y.out.status = 500
      /\ y.page = x.page /\ y.seen = x.seen /\ ~y.panicked
      /\ y.user = x.user /\ y.age = x.age /\ y.bearer = x.bearer
  <2>1. y.out = [status |-> 500, hdr |-> x.hdr, cookie |-> y.cookie]
    BY <1>3 DEF IsRespond
  <2>2. y.out.status = 500
    BY <2>1
  <2>3. /\ y \in Exchange /\ y.pc = "leave" /\ y.body = "error" /\ y.out # None
        /\ Rest(y, x)
    BY <1>3 DEF IsRespond
  <2>4. ~x.panicked
    BY <1>1 DEF Clean
  <2>5. y.panicked = x.panicked /\ y.page = x.page /\ y.seen = x.seen
    BY <2>3 DEF Rest
  <2>6. y.user = x.user /\ y.age = x.age /\ y.bearer = x.bearer
    BY <2>3 DEF Rest
  <2> QED
    BY <2>2, <2>3, <2>4, <2>5, <2>6
<1>6. "invalid" \in y.seen /\ y.seen \subseteq past[y.page]
  BY <1>1, <1>5 DEF PageInv
<1>7. Rendered(y, "invalid")
  BY <1>5, <1>6 DEF Rendered, Body
<1>8. PageInv(y)
  BY <1>5, <1>6, <1>7 DEF PageInv, Serving, Render
<1>9. RoleInv(y)
  BY <1>1, <1>5, RolesKept
<1> QED
  BY <1>4, <1>5, <1>8, <1>9 DEF Good, y
-----------------------------------------------------------------------------
(* The middleware on the way out *)

\* y is z one middleware further out.
Shallower(y, z) ==
    /\ y \in Exchange /\ y.depth = z.depth - 1
    /\ y.in = z.in /\ y.bearer = z.bearer /\ y.sess = z.sess /\ y.user = z.user
    /\ y.hdr = z.hdr /\ y.log = z.log /\ y.page = z.page /\ y.seen = z.seen
    /\ y.panicking = z.panicking /\ y.panicked = z.panicked /\ y.age = z.age
    /\ y.lateHeader = z.lateHeader /\ y.lateSession = z.lateSession
    /\ y.pc = z.pc /\ y.status = z.status /\ y.wroteHeader = z.wroteHeader
    /\ y.body = z.body /\ y.cookie = z.cookie /\ y.saved = z.saved /\ y.out = z.out

\* A middleware that returns leaves the exchange to the one around it.
LEMMA ShallowerIs ==
    ASSUME NEW z \in Exchange, z.depth > 0
    PROVE  Shallower([z EXCEPT !.depth = @ - 1], z)
<1> DEFINE y == [z EXCEPT !.depth = @ - 1]
<1>0. z.depth \in 0..10
  BY DEF Exchange
<1>1. z.depth - 1 \in 0..10
  BY <1>0
<1>2. y \in Exchange
  BY <1>1 DEF Exchange
<1>3. /\ y.depth = z.depth - 1
      /\ y.in = z.in /\ y.bearer = z.bearer /\ y.sess = z.sess /\ y.user = z.user
      /\ y.hdr = z.hdr /\ y.log = z.log /\ y.page = z.page /\ y.seen = z.seen
      /\ y.panicking = z.panicking /\ y.panicked = z.panicked /\ y.age = z.age
  BY DEF Exchange
<1>4. /\ y.lateHeader = z.lateHeader /\ y.lateSession = z.lateSession
      /\ y.pc = z.pc /\ y.status = z.status /\ y.wroteHeader = z.wroteHeader
      /\ y.body = z.body /\ y.cookie = z.cookie /\ y.saved = z.saved /\ y.out = z.out
  BY DEF Exchange
<1> QED
  BY <1>2, <1>3, <1>4 DEF Shallower

\* A middleware that writes nothing returns: y differs from x in the cookie, the
\* log and the depth at most.
Returned(y, x) ==
    /\ y.in = x.in /\ y.bearer = x.bearer /\ y.sess = x.sess /\ y.user = x.user
    /\ y.page = x.page /\ y.seen = x.seen /\ y.panicked = x.panicked /\ y.age = x.age
    /\ y.lateHeader = x.lateHeader /\ y.lateSession = x.lateSession
    /\ y.pc = x.pc /\ y.status = x.status /\ y.wroteHeader = x.wroteHeader
    /\ y.body = x.body /\ y.saved = x.saved /\ y.out = x.out

\* On the way out nothing but Outbound needs to be shown.
LEMMA ReturnedGood ==
    ASSUME NEW x \in Exchange, Good(x), x.pc = "leave", NEW y, Returned(y, x), Outbound(y)
    PROVE  Good(y)
<1>1. Local(x) /\ PageInv(x) /\ RoleInv(x)
  BY DEF Good
<1>2. Local(y)
  BY <1>1 DEF Local, Returned, Delivered, Serving, Render
<1>3. PageInv(y)
  BY <1>1 DEF PageInv, Rendered, Returned, Serving, Render
<1>4. RoleInv(y)
  BY <1>1, RolesKept DEF Returned
<1> QED
  BY <1>2, <1>3, <1>4 DEF Good

\* Session, after the handler returned: what was not saved yet is saved now.
LEMMA SessionReturns ==
    ASSUME NEW x \in Exchange, Good(x), x.pc = "leave", x.depth = 6
    PROVE  LET y == [LeaveSession(x) EXCEPT !.depth = @ - 1] IN y \in Exchange /\ Good(y)
<1> DEFINE z == LeaveSession(x)
           y == [z EXCEPT !.depth = @ - 1]
<1>1. Local(x) /\ Outbound(x)
  BY DEF Good, Local
<1>2. /\ z \in Exchange /\ Rest(z, x) /\ z.pc = x.pc
      /\ z.status = x.status /\ z.wroteHeader = x.wroteHeader /\ z.body = x.body
      /\ z.out = x.out /\ z.saved = x.saved
      /\ ~x.saved /\ ~x.panicking => z.cookie = saveSession(x).cookie
  <2>1. CASE x.panicking \/ x.saved
    BY <2>1 DEF LeaveSession, Rest
  <2>2. CASE ~(x.panicking \/ x.saved)
    BY <2>2, SaveSessionIs DEF LeaveSession
  <2> QED
    BY <2>1, <2>2
<1> HIDE DEF z
<1>3. z.depth = 6
  BY <1>2 DEF Rest
<1>4. Shallower(y, z)
  BY <1>2, <1>3, ShallowerIs
<1> HIDE DEF y
<1>5. Returned(y, x)
  BY <1>2, <1>4 DEF Shallower, Rest, Returned
<1>6. y.hdr = x.hdr /\ y.panicking = x.panicking /\ y.depth = 5 /\ y.cookie = z.cookie
  BY <1>2, <1>3, <1>4 DEF Shallower, Rest
<1>7. ~x.saved /\ ~x.panicked => Delivered(y.cookie, y)
  <2> SUFFICES ASSUME ~x.saved, ~x.panicked
               PROVE  Delivered(y.cookie, y)
    OBVIOUS
  <2>1. x.cookie = {} /\ Loaded(x) /\ ~x.panicking
    BY <1>1 DEF Outbound
  <2>2. Delivered(saveSession(x).cookie, x)
    BY <2>1, SaveSessionDelivers
  <2>3. y.cookie = saveSession(x).cookie
    BY <1>2, <1>6, <2>1
  <2> QED
    BY <1>5, <2>2, <2>3 DEF Delivered, Returned
<1>8. Outbound(y)
  BY <1>1, <1>5, <1>6, <1>7 DEF Outbound, Returned, Loaded
<1>9. y \in Exchange /\ Good(y)
  BY <1>4, <1>5, <1>8, ReturnedGood DEF Shallower
<1> QED
  BY <1>9 DEF y, z

\* Logger: the status it kept is the one it logs.
LEMMA LoggerReturns ==
    ASSUME NEW x \in Exchange, Good(x), x.pc = "leave", x.depth = 3
    PROVE  LET y == [LeaveLogger(x) EXCEPT !.depth = @ - 1] IN y \in Exchange /\ Good(y)
<1> DEFINE z == LeaveLogger(x)
           y == [z EXCEPT !.depth = @ - 1]
<1>1. Local(x) /\ Outbound(x)
  BY DEF Good, Local
<1>2. /\ z \in Exchange /\ Returned(z, x) /\ z.depth = x.depth
      /\ z.hdr = x.hdr /\ z.panicking = x.panicking /\ z.cookie = x.cookie
      /\ ~x.panicking => z.log = x.status
  <2>1. CASE x.panicking
    BY <2>1 DEF LeaveLogger, Returned
  <2>2. CASE ~x.panicking
    <3> DEFINE v == [x EXCEPT !.log = x.status]
    <3>1. z = v
      BY <2>2 DEF LeaveLogger
    <3>2. v \in Exchange
      BY DEF Exchange
    <3>3. /\ v.depth = x.depth /\ v.hdr = x.hdr /\ v.panicking = x.panicking
          /\ v.cookie = x.cookie /\ v.log = x.status
      BY DEF Exchange
    <3>4. Returned(v, x)
      BY DEF Exchange, Returned
    <3> QED
      BY <3>1, <3>2, <3>3, <3>4
  <2> QED
    BY <2>1, <2>2
<1> HIDE DEF z
<1>4. Shallower(y, z)
  BY <1>2, ShallowerIs
<1> HIDE DEF y
<1>5. Returned(y, x)
  BY <1>2, <1>4 DEF Shallower, Returned
<1>6. /\ y.hdr = x.hdr /\ y.panicking = x.panicking /\ y.depth = 2 /\ y.cookie = x.cookie
      /\ ~x.panicking => y.log = x.status
  BY <1>2, <1>4 DEF Shallower
<1>7. ~x.saved /\ ~x.panicked => Delivered(y.cookie, y)
  BY <1>1, <1>5, <1>6 DEF Outbound, Delivered, Returned
<1>8. Outbound(y)
  BY <1>1, <1>5, <1>6, <1>7 DEF Outbound, Returned, Loaded
<1>9. y \in Exchange /\ Good(y)
  BY <1>4, <1>5, <1>8, ReturnedGood DEF Shallower
<1> QED
  BY <1>9 DEF y, z

\* The others only return.
LEMMA OthersReturn ==
    ASSUME NEW x \in Exchange, Good(x), x.pc = "leave", x.depth > 0,
           x.depth \notin {3, 6}, x.depth = 2 => ~x.panicking
    PROVE  LET y == [x EXCEPT !.depth = @ - 1] IN y \in Exchange /\ Good(y)
<1> DEFINE y == [x EXCEPT !.depth = @ - 1]
<1>1. Local(x) /\ Outbound(x) /\ x.depth \in Nat
  BY DEF Good, Local, Exchange
<1>2. Shallower(y, x)
  BY ShallowerIs
<1> HIDE DEF y
<1>3. Returned(y, x)
  BY <1>2 DEF Shallower, Returned
<1>4. /\ y.hdr = x.hdr /\ y.panicking = x.panicking /\ y.depth = x.depth - 1
      /\ y.cookie = x.cookie /\ y.log = x.log
  BY <1>2 DEF Shallower
<1>5. ~x.saved /\ ~x.panicked =>
          IF y.depth < 6 THEN Delivered(y.cookie, y) ELSE y.cookie = {}
  <2>1. y.depth < 6 <=> x.depth < 6
    BY <1>1, <1>4
  <2> QED
    BY <1>1, <1>3, <1>4, <2>1 DEF Outbound, Delivered, Returned
<1>6. y.panicking => y.panicked /\ y.depth >= 2
  BY <1>1, <1>3, <1>4 DEF Outbound, Returned
<1>7. y.depth < 3 /\ ~y.panicked => y.log = y.status
  BY <1>1, <1>3, <1>4 DEF Outbound, Returned
<1>8. Outbound(y)
  BY <1>1, <1>3, <1>4, <1>5, <1>6, <1>7 DEF Outbound, Returned, Loaded
<1>9. y \in Exchange /\ Good(y)
  BY <1>2, <1>3, <1>8, ReturnedGood DEF Shallower
<1> QED
  BY <1>9 DEF y

\* An exchange whose panic ended is an exchange.
LEMMA PanicEnds ==
    ASSUME NEW w \in Exchange, NEW p \in BOOLEAN, NEW b \in Bodies
    PROVE  [w EXCEPT !.panicking = p, !.body = b] \in Exchange
BY DEF Exchange

\* Recovery ends a panic with an answer, if none was sent before it.
LEMMA RecoveryReturns ==
    ASSUME NEW x \in Exchange, Good(x), x.pc = "leave", x.depth = 2, x.panicking
    PROVE  LET y == [LeaveRecovery(x) EXCEPT !.depth = @ - 1] IN y \in Exchange /\ Good(y)
<1> DEFINE w == Send(x, 500)
           z == [w EXCEPT !.panicking = FALSE, !.body = "error"]
           y == [z EXCEPT !.depth = @ - 1]
<1>1. Local(x) /\ PageInv(x) /\ RoleInv(x) /\ Outbound(x) /\ x.panicked
  BY DEF Good, Local, Outbound
<1>2. IsSend(w, x, 500)
  BY SendIs
<1>3. LeaveRecovery(x) = z
  BY DEF LeaveRecovery
<1> HIDE DEF w
<1>4. w \in Exchange /\ Rest(w, x)
  BY <1>2 DEF IsSend
<1>5. z \in Exchange
  <2>1. "error" \in Bodies /\ FALSE \in BOOLEAN
    BY DEF Bodies
  <2> QED
    BY <1>4, <2>1, PanicEnds
<1>6. /\ z.in = w.in /\ z.bearer = w.bearer /\ z.sess = w.sess /\ z.user = w.user
      /\ z.hdr = w.hdr /\ z.seen = w.seen /\ z.panicked = w.panicked /\ z.age = w.age
      /\ z.depth = w.depth /\ ~z.panicking
  BY <1>4 DEF Exchange
<1>7. /\ z.lateHeader = w.lateHeader /\ z.lateSession = w.lateSession
      /\ z.pc = w.pc /\ z.status = w.status /\ z.wroteHeader = w.wroteHeader
      /\ z.saved = w.saved /\ z.out = w.out
  BY <1>4 DEF Exchange
<1> HIDE DEF z
<1>8. z.depth = 2
  BY <1>4, <1>6 DEF Rest
<1>9. Shallower(y, z)
  BY <1>5, <1>8, ShallowerIs
<1> HIDE DEF y
<1>10. /\ y \in Exchange /\ y.depth = 1 /\ y.in = x.in /\ y.bearer = x.bearer
       /\ y.sess = x.sess /\ y.user = x.user /\ y.hdr = x.hdr /\ y.seen = x.seen
       /\ y.panicked /\ ~y.panicking /\ y.age = x.age /\ y.lateSession = x.lateSession
  BY <1>1, <1>4, <1>6, <1>7, <1>8, <1>9 DEF Shallower, Rest
<1>11. /\ y.pc = "leave" /\ y.status = x.status /\ y.wroteHeader = x.wroteHeader
       /\ y.saved = x.saved /\ y.out = w.out
  BY <1>2, <1>7, <1>9 DEF Shallower, IsSend
<1>12. Hard(y.out.hdr, y.in) /\ y.out # None
  <2>1. Hard(x.hdr, x.in) /\ (x.out # None => Hard(x.out.hdr, x.in))
    BY <1>1 DEF Outbound, Local
  <2>2. w.out # None /\ w.out = IF x.out # None THEN x.out
                                ELSE [status |-> 500, hdr |-> x.hdr, cookie |-> x.cookie]
    BY <1>2 DEF IsSend
  <2>3. w.out.hdr = IF x.out # None THEN x.out.hdr ELSE x.hdr
    BY <2>2
  <2> QED
    BY <1>10, <1>11, <2>1, <2>2, <2>3
<1>13. x.saved => x.out # None /\ y.out = x.out
  BY <1>1, <1>2, <1>11 DEF Local, IsSend
<1>14. Outbound(y)
  BY <1>1, <1>10, <1>11 DEF Outbound, Loaded
<1>15. Local(y)
  BY <1>1, <1>10, <1>11, <1>12, <1>13, <1>14 DEF Local, Delivered, Serving, Render
<1>16. PageInv(y)
  <2>1. x.seen = {}
    BY <1>1 DEF PageInv
  <2> QED
    BY <1>10, <1>11, <2>1, NoPage DEF Render
<1>17. RoleInv(y)
  BY <1>1, <1>10, <1>11, RolesKept
<1> QED
  BY <1>3, <1>10, <1>15, <1>16, <1>17 DEF Good, y

\* Every middleware returns with the invariant.
LEMMA UnwindGood ==
    ASSUME NEW x \in Exchange, Good(x), x.pc = "leave", x.depth > 0
    PROVE  LET y == [Leave(x, Chain[x.depth]) EXCEPT !.depth = @ - 1] IN
           y \in Exchange /\ Good(y)
<1>1. x.depth \in 1..10
  BY DEF Exchange
<1>2. CASE x.depth = 6
  <2>1. Leave(x, Chain[x.depth]) = LeaveSession(x)
    BY <1>2 DEF Leave, Chain
  <2> QED
    BY <1>2, <2>1, SessionReturns
<1>3. CASE x.depth = 3
  <2>1. Leave(x, Chain[x.depth]) = LeaveLogger(x)
    BY <1>3 DEF Leave, Chain
  <2> QED
    BY <1>3, <2>1, LoggerReturns
<1>4. CASE x.depth = 2 /\ x.panicking
  <2>1. Leave(x, Chain[x.depth]) = LeaveRecovery(x)
    BY <1>4 DEF Leave, Chain
  <2> QED
    BY <1>4, <2>1, RecoveryReturns
<1>5. CASE x.depth = 2 /\ ~x.panicking
  <2>1. Leave(x, Chain[x.depth]) = x
    BY <1>5 DEF Leave, Chain, LeaveRecovery
  <2> QED
    BY <1>5, <2>1, OthersReturn
<1>6. CASE x.depth \in {1, 4, 5, 7, 8, 9, 10}
  <2>1. Leave(x, Chain[x.depth]) = x
    BY <1>6 DEF Leave, Chain
  <2> QED
    BY <1>6, <2>1, OthersReturn
<1> QED
  BY <1>1, <1>2, <1>3, <1>4, <1>5, <1>6

\* net/http answers what nobody answered.
LEMMA FinishGood ==
    ASSUME NEW x \in Exchange, Good(x), x.pc = "leave", x.depth = 0
    PROVE  LET y == [(IF x.panicking THEN x ELSE Send(x, 200)) EXCEPT !.pc = "done"] IN
           y \in Exchange /\ Good(y)
<1> DEFINE z == Send(x, 200)
           y == [z EXCEPT !.pc = "done"]
<1>1. Local(x) /\ PageInv(x) /\ RoleInv(x) /\ Outbound(x)
  BY DEF Good, Local
<1>2. ~x.panicking
  BY <1>1 DEF Outbound
<1>3. IsSend(z, x, 200)
  BY SendIs
<1> HIDE DEF z
<1>4. z \in Exchange /\ Rest(z, x)
  BY <1>3 DEF IsSend
<1>5. y \in Exchange
  BY <1>4 DEF Exchange
<1>6. /\ y.in = z.in /\ y.bearer = z.bearer /\ y.sess = z.sess /\ y.user = z.user
      /\ y.page = z.page /\ y.seen = z.seen /\ y.panicked = z.panicked /\ y.age = z.age
      /\ y.log = z.log /\ y.pc = "done"
  BY <1>4 DEF Exchange
<1>7. /\ y.lateHeader = z.lateHeader /\ y.lateSession = z.lateSession
      /\ y.status = z.status /\ y.wroteHeader = z.wroteHeader /\ y.body = z.body
      /\ y.saved = z.saved /\ y.out = z.out
  BY <1>4 DEF Exchange
<1> HIDE DEF y
<1>8. /\ y.in = x.in /\ y.bearer = x.bearer /\ y.sess = x.sess /\ y.user = x.user
      /\ y.page = x.page /\ y.seen = x.seen /\ y.panicked = x.panicked /\ y.age = x.age
      /\ y.log = x.log /\ y.lateHeader = x.lateHeader /\ y.lateSession = x.lateSession
  BY <1>4, <1>6, <1>7 DEF Rest
<1>9. /\ y.status = x.status /\ y.wroteHeader = x.wroteHeader /\ y.saved = x.saved
      /\ y.body = x.body /\ y.out # None
      /\ x.out # None => y.out = x.out
      /\ x.out = None => y.out = [status |-> 200, hdr |-> x.hdr, cookie |-> x.cookie]
  BY <1>3, <1>7 DEF IsSend
<1>10. x.out = None => /\ y.out.status = 200 /\ y.out.hdr = x.hdr /\ y.out.cookie = x.cookie
  BY <1>9
<1>11. Hard(y.out.hdr, y.in)
  BY <1>1, <1>8, <1>9, <1>10 DEF Outbound, Local
<1>12. ~x.panicked => x.log = x.status /\ (y.saved \/ Delivered(y.out.cookie, y))
  BY <1>1, <1>8, <1>9, <1>10 DEF Outbound, Delivered
<1>13. ~x.panicked /\ ~x.lateHeader => y.out.status = y.status
  BY <1>1, <1>9, <1>10 DEF Local
<1>14. Answered(y)
  BY <1>8, <1>9, <1>12 DEF Answered
<1>15. x.saved => x.out # None /\ y.out = x.out
  BY <1>1, <1>9 DEF Local
<1>16. Local(y)
  BY <1>1, <1>6, <1>8, <1>9, <1>11, <1>13, <1>14, <1>15 DEF Local, Delivered, Serving, Render
<1>17. ASSUME NEW k, Rendered(x, k)
       PROVE  Rendered(y, k)
  BY <1>6, <1>8, <1>9, <1>10, <1>17 DEF Rendered
<1>18. PageInv(y)
  BY <1>1, <1>6, <1>8, <1>17 DEF PageInv, Serving, Render
<1>19. RoleInv(y)
  BY <1>1, <1>6, <1>8, RolesKept
<1> QED
  BY <1>2, <1>5, <1>16, <1>18, <1>19 DEF Good, y, z
-----------------------------------------------------------------------------
(* The steps *)

\* New tokens and templates leave what is good as it is.
LEMMA GoodKept ==
    ASSUME UNCHANGED <<fileVars, admins, revoked, now, family>>, tokens \subseteq tokens'
    PROVE  \A x : Good(x) => Good(x)'
<1> SUFFICES ASSUME NEW x, Good(x)
             PROVE  Good(x)'
  OBVIOUS
<1>1. Local(x)'
  BY DEF Good
<1>2. PageInv(x)'
  BY DEF Good, PageInv, fileVars, traffic
<1>3. RoleInv(x)'
  BY DEF Good, RoleInv, HadRole
<1> QED
  BY <1>1, <1>2, <1>3 DEF Good

\* One exchange takes a step.
LEMMA OneExchange ==
    ASSUME IInv, UNCHANGED <<fileVars, admins, revoked, now, family>>, tokens \subseteq tokens',
           NEW s \in Slots, NEW y \in Exchange \cup {None},
           exchange' = [exchange EXCEPT ![s] = y], y # None => Good(y)
    PROVE  /\ exchange' \in [Slots -> Exchange \cup {None}]
           /\ (\A r \in Slots : exchange[r] # None => Good(exchange[r]))'
<1>1. exchange' \in [Slots -> Exchange \cup {None}]
  BY DEF IInv, TypeOK
<1>2. ASSUME NEW r \in Slots, exchange'[r] # None
      PROVE  Good(exchange[r])'
  <2>1. PICK e : e = exchange'[r]
    OBVIOUS
  <2>2. Good(e)
    BY <1>2, <2>1 DEF IInv, TypeOK
  <2>3. Good(e)'
    BY <2>2, GoodKept
  <2> QED
    BY <2>1, <2>3
<1> QED
  BY <1>1, <1>2

\* A step of one exchange that touches nothing shared.
LEMMA SlotStep ==
    ASSUME IInv, UNCHANGED shared, NEW s \in Slots, NEW y \in Exchange \cup {None},
           exchange' = [exchange EXCEPT ![s] = y], y # None => Good(y)
    PROVE  IInv'
<1>1. /\ exchange' \in [Slots -> Exchange \cup {None}]
      /\ (\A r \in Slots : exchange[r] # None => Good(exchange[r]))'
  BY OneExchange DEF shared, userVars
<1>2. TypeOK'
  BY <1>1 DEF IInv, TypeOK, shared, fileVars, userVars
<1>3. FilesInv'
  BY DEF IInv, FilesInv, shared, fileVars
<1>4. TokensInv'
  BY DEF IInv, TokensInv, shared, userVars
<1> QED
  BY <1>1, <1>2, <1>3, <1>4 DEF IInv

\* What the invariant says of one exchange.
LEMMA InSlot ==
    ASSUME IInv, NEW s \in Slots, exchange[s] # None
    PROVE  exchange[s] \in Exchange /\ Good(exchange[s]) /\ TypeOK /\ FilesInv /\ TokensInv
BY DEF IInv, TypeOK

\* A request that came in has passed nothing.
LEMMA NewExchangeGood ==
    ASSUME NEW rq \in Requests, NEW t \in tokens \cup {None}, tokens \subseteq Token
    PROVE  NewExchange(rq, t) \in Exchange /\ Good(NewExchange(rq, t))
<1> DEFINE y == NewExchange(rq, t)
<1>1. newSession \in Session
  BY DEF newSession, Session, Data
<1>2. "" \in Bodies /\ "login" \in Pages
  BY DEF Bodies, Pages
<1>3. y \in Exchange
  <2>1. /\ t \in Token \cup {None} /\ "ssr" \in {"api", "ssr"} /\ 0 \in 0..10
        /\ {} \in SUBSET Headers /\ {} \in SUBSET (Data \cup {None}) /\ {} \in SUBSET Kinds
        /\ None \in User \cup {None} /\ None \in Response \cup {None}
        /\ None \in Kinds \cup {None} /\ FALSE \in BOOLEAN
        /\ "enter" \in Serving \cup {"enter", "leave", "done"} /\ 200 \in Nat /\ 0 \in Nat
    OBVIOUS
  <2> QED
    BY <1>1, <1>2, <2>1, Zenon DEF NewExchange, Exchange
<1>4. /\ y.bearer = t /\ y.user = None /\ y.hdr = {} /\ y.depth = 0 /\ y.pc = "enter"
      /\ y.seen = {} /\ y.in = rq
  BY DEF NewExchange
<1>5. Clean(y)
  BY DEF NewExchange, Clean
<1> HIDE DEF y
<1>6. Local(y)
  <2>1. Inbound(y) /\ FromBrowser(y)
    BY <1>4, <1>5 DEF Inbound, FromBrowser
  <2> QED
    BY <1>3, <1>4, <2>1, InboundGood
<1>7. PageInv(y)
  BY <1>3, <1>4, NoPage DEF Render
<1>8. RoleInv(y)
  BY <1>4 DEF RoleInv
<1> QED
  BY <1>3, <1>6, <1>7, <1>8 DEF Good, y

\* One lemma per action: net/http hands a request to the router.
LEMMA ArrivePreserves ==
    ASSUME IInv, NEW s \in Slots, NEW rq \in traffic.requests,
           NEW t \in IF rq.auth = "bearer" THEN tokens \cup {None} ELSE {None},
           Arrive(s, rq, t)
    PROVE  IInv'
<1>1. rq \in Requests
  BY ChainAssumption DEF ChainAssumption, IInv, TypeOK, traffic
<1>2. NewExchange(rq, t) \in Exchange /\ Good(NewExchange(rq, t))
  BY <1>1, NewExchangeGood DEF IInv, TypeOK
<1> QED
  BY <1>2, SlotStep DEF Arrive, Put

\* The next middleware is entered.
LEMMA PassPreserves ==
    ASSUME IInv, NEW s \in Slots, Pass(s)
    PROVE  IInv'
<1> DEFINE x == exchange[s]
           y == Enter([x EXCEPT !.depth = @ + 1], Chain[x.depth + 1])
<1>1. x # None /\ x.pc = "enter" /\ x.depth < 10
  BY DEF Pass, At, Chain
<1>2. x \in Exchange /\ Good(x) /\ TypeOK /\ TokensInv
  BY <1>1, InSlot
<1>3. exchange' = [exchange EXCEPT ![s] = y] /\ UNCHANGED shared
  BY DEF Pass, Put
<1> HIDE DEF x
<1>4. Local(x) /\ RoleInv(x)
  BY <1>2 DEF Good
<1>5. Follows(y, x) /\ UserFound(y, x)
  BY <1>1, <1>2, <1>4, EnterFollows DEF RoleInv
<1> HIDE DEF y
<1>6. PageInv(y)
  <2>1. y \in Exchange /\ y.seen = {} /\ y.pc \notin Render
    BY <1>5 DEF Follows, Render
  <2> QED
    BY <2>1, NoPage
<1>7. RoleInv(y)
  BY <1>1, <1>4, <1>5 DEF RoleInv, Follows, UserFound
<1> QED
  BY <1>3, <1>5, <1>6, <1>7, SlotStep DEF Good, Follows

\* The mux is reached.
LEMMA DispatchPreserves ==
    ASSUME IInv, NEW s \in Slots, Dispatch(s)
    PROVE  IInv'
<1> DEFINE x == exchange[s]
           y == ServeMux([x EXCEPT !.bearer = None])
<1>1. x # None /\ x.pc = "enter" /\ x.depth = 10
  BY DEF Dispatch, At, Chain
<1>2. x \in Exchange /\ Good(x) /\ TypeOK /\ FilesInv
  BY <1>1, InSlot
<1>3. exchange' = [exchange EXCEPT ![s] = y] /\ UNCHANGED shared
  BY DEF Dispatch, Put
<1> HIDE DEF x
<1>4. Local(x) /\ RoleInv(x)
  BY <1>2 DEF Good
<1>5. Dispatched(y, x)
  BY <1>1, <1>2, <1>4, ServeMuxIs
<1> HIDE DEF y
<1>6. PageInv(y)
  <2>1. CASE y.seen = {} /\ y.pc \notin Render
    BY <1>5, <2>1, NoPage DEF Dispatched
  <2>2. CASE y.pc = "lookup" /\ y.seen = {files[y.page]}
    <3>1. y.page \in Pages
      BY <1>5 DEF Dispatched, Exchange
    <3> QED
      BY <1>2, <2>2, <3>1 DEF PageInv, FilesInv, Serving, Render
  <2> QED
    BY <1>5, <2>1, <2>2 DEF Dispatched, Render
<1>7. RoleInv(y)
  BY <1>1, <1>4, <1>5 DEF RoleInv, Dispatched, Serving, Render
<1> QED
  BY <1>3, <1>5, <1>6, <1>7, SlotStep DEF Good, Dispatched

\* The cache is read: what it holds was a file of this page.
LEMMA LookupPreserves ==
    ASSUME IInv, NEW s \in Slots, Lookup(s)
    PROVE  IInv'
<1> DEFINE x == exchange[s]
           t == tmpls[x.page]
           y == IF ~traffic.reload /\ t # None THEN [x EXCEPT !.tmpl = t, !.pc = "execute"]
                ELSE [x EXCEPT !.pc = "parse"]
<1>1. x # None /\ x.pc = "lookup" /\ x.pc \in Render
  BY DEF Lookup, At, Render
<1>2. x \in Exchange /\ Good(x) /\ TypeOK /\ FilesInv
  BY <1>1, InSlot
<1>3. exchange' = [exchange EXCEPT ![s] = y] /\ UNCHANGED shared
  BY DEF Lookup, Put
<1> HIDE DEF x
<1>4. PageInv(x) /\ x.page \in Pages
  BY <1>2 DEF Good, Exchange
<1>5. CASE ~traffic.reload /\ t # None
  <2>1. t \in past[x.page] \ {"invalid"} /\ t \in Kinds
    BY <1>2, <1>4, <1>5 DEF FilesInv, TypeOK
  <2> HIDE DEF t
  <2> DEFINE z == [x EXCEPT !.tmpl = t, !.pc = "execute"]
  <2>2. y = z
    BY <1>5
  <2>3. Renders(z, x) /\ z.pc = "execute" /\ z.tmpl = t
    <3>1. "execute" \in Render
      BY DEF Render
    <3>2. Loads(z, x, t, "execute")
      BY <1>1, <1>2, <2>1, <3>1, TemplateRenders
    <3> HIDE DEF z
    <3> QED
      BY <3>2 DEF Loads
  <2> HIDE DEF z
  <2>4. Local(z) /\ RoleInv(z)
    BY <1>1, <1>2, <2>3, RendersLocal
  <2>5. PageInv(z)
    BY <1>1, <1>4, <1>5, <2>1, <2>3 DEF PageInv, Renders, Serving, Render
  <2>6. Good(z) /\ z \in Exchange
    BY <2>3, <2>4, <2>5 DEF Good, Renders
  <2> HIDE DEF y
  <2> QED
    BY <1>3, <2>2, <2>6, SlotStep
<1>6. CASE traffic.reload \/ t = None
  <2> DEFINE z == [x EXCEPT !.pc = "parse"]
  <2>2. y = z
    BY <1>6
  <2>3. Renders(z, x) /\ z.pc = "parse" /\ z.tmpl = x.tmpl
    BY <1>1, <1>2, PlaceRenders DEF Render
  <2> HIDE DEF z
  <2>4. Local(z) /\ RoleInv(z)
    BY <1>1, <1>2, <2>3, RendersLocal
  <2>5. PageInv(z)
    BY <1>1, <1>4, <2>3 DEF PageInv, Renders, Serving, Render
  <2>6. Good(z) /\ z \in Exchange
    BY <2>3, <2>4, <2>5 DEF Good, Renders
  <2> HIDE DEF y
  <2> QED
    BY <1>3, <2>2, <2>6, SlotStep
<1> QED
  BY <1>5, <1>6

\* The file of now is parsed, which the exchange has seen.
LEMMA ParsePreserves ==
    ASSUME IInv, NEW s \in Slots, Parse(s)
    PROVE  IInv'
<1> DEFINE x == exchange[s]
           k == files[x.page]
           p == IF traffic.reload THEN "execute" ELSE "store"
           y == IF k = "invalid" THEN Respond(x, 500, "error")
                ELSE [x EXCEPT !.tmpl = k, !.pc = p]
<1>1. x # None /\ x.pc = "parse" /\ x.pc \in Render
  BY DEF Parse, At, Render
<1>2. x \in Exchange /\ Good(x) /\ TypeOK /\ FilesInv
  BY <1>1, InSlot
<1>3. exchange' = [exchange EXCEPT ![s] = y] /\ UNCHANGED shared
  BY DEF Parse, Put
<1> HIDE DEF x
<1>4. PageInv(x) /\ x.page \in Pages
  BY <1>2 DEF Good, Exchange
<1>5. CASE k = "invalid"
  <2>1. y = Respond(x, 500, "error")
    BY <1>5
  <2>2. y \in Exchange /\ Good(y)
    BY <1>1, <1>2, <1>5, <2>1, ParseFails
  <2> HIDE DEF y
  <2> QED
    BY <1>3, <2>2, SlotStep
<1>6. CASE k # "invalid"
  <2>1. /\ k \in past[x.page] \ {"invalid"} /\ k \in x.seen /\ k \in Kinds
        /\ p \in {"store", "execute"} /\ p \in Render
    BY <1>1, <1>2, <1>4, <1>6 DEF FilesInv, PageInv, TypeOK, Render
  <2> HIDE DEF k, p
  <2> DEFINE z == [x EXCEPT !.tmpl = k, !.pc = p]
  <2>2. y = z
    BY <1>6
  <2>3. Renders(z, x) /\ z.pc = p /\ z.tmpl = k
    <3>1. Loads(z, x, k, p)
      BY <1>1, <1>2, <2>1, TemplateRenders
    <3> HIDE DEF z
    <3> QED
      BY <3>1 DEF Loads
  <2> HIDE DEF z
  <2>4. Local(z) /\ RoleInv(z)
    BY <1>1, <1>2, <2>3, RendersLocal
  <2>5. PageInv(z)
    BY <1>1, <1>4, <2>1, <2>3 DEF PageInv, Renders, Serving, Render
  <2>6. Good(z) /\ z \in Exchange
    BY <2>3, <2>4, <2>5 DEF Good, Renders
  <2> HIDE DEF y
  <2> QED
    BY <1>3, <2>2, <2>6, SlotStep
<1> QED
  BY <1>5, <1>6

\* The template is cached: it parsed, and was a file of this page.
LEMMA StorePreserves ==
    ASSUME IInv, NEW s \in Slots, Store(s)
    PROVE  IInv'
<1> DEFINE x == exchange[s]
           y == [x EXCEPT !.pc = "execute"]
<1>1. x # None /\ x.pc = "store" /\ x.pc \in Render
  BY DEF Store, At, Render
<1>2. x \in Exchange /\ Good(x) /\ TypeOK /\ FilesInv
  BY <1>1, InSlot
<1>3. /\ exchange' = [exchange EXCEPT ![s] = y]
      /\ tmpls' = [tmpls EXCEPT ![x.page] = x.tmpl]
      /\ UNCHANGED <<fileVars, userVars, now, family>>
  BY DEF Store, Put
<1> HIDE DEF x
<1>4. PageInv(x) /\ x.page \in Pages
  BY <1>2 DEF Good, Exchange
<1>5. x.tmpl \in past[x.page] \ {"invalid"} /\ x.tmpl \in Kinds
  BY <1>1, <1>2, <1>4 DEF PageInv, TypeOK
<1>6. Renders(y, x) /\ y.pc = "execute" /\ y.tmpl = x.tmpl
  BY <1>1, <1>2, PlaceRenders DEF Render
<1> HIDE DEF y
<1>7. Local(y) /\ RoleInv(y)
  BY <1>1, <1>2, <1>6, RendersLocal
<1>8. PageInv(y)
  BY <1>1, <1>4, <1>6 DEF PageInv, Renders, Serving, Render
<1>9. /\ exchange' \in [Slots -> Exchange \cup {None}]
      /\ (\A r \in Slots : exchange[r] # None => Good(exchange[r]))'
  <2>1. Good(y) /\ y \in Exchange \cup {None}
    BY <1>6, <1>7, <1>8 DEF Good, Renders
  <2> QED
    BY <1>3, <2>1, OneExchange DEF userVars
<1>10. TypeOK'
  BY <1>3, <1>4, <1>5, <1>9 DEF IInv, TypeOK, fileVars, userVars
<1>11. FilesInv'
  BY <1>2, <1>3, <1>4, <1>5 DEF TypeOK, FilesInv, fileVars
<1>12. TokensInv'
  BY <1>3 DEF IInv, TokensInv, userVars
<1> QED
  BY <1>9, <1>10, <1>11, <1>12 DEF IInv

\* The page is written.
LEMMA ExecutePreserves ==
    ASSUME IInv, NEW s \in Slots, Execute(s)
    PROVE  IInv'
<1> DEFINE x == exchange[s]
           w == [x EXCEPT !.pc = "leave"]
           y == CASE w.tmpl = "complete"   -> Write(w, "page")
                  [] w.tmpl = "failing"    -> Write(w, "part")
                  [] w.tmpl = "incomplete" -> w
<1>1. x # None /\ x.pc = "execute"
  BY DEF Execute, At
<1>2. x \in Exchange /\ Good(x) /\ TypeOK
  BY <1>1, InSlot
<1>3. exchange' = [exchange EXCEPT ![s] = y] /\ UNCHANGED shared
  BY DEF Execute, Put
<1> HIDE DEF x
<1>4. y \in Exchange /\ Good(y)
  BY <1>1, <1>2, ExecuteGood
<1> HIDE DEF y
<1> QED
  BY <1>3, <1>4, SlotStep
-----------------------------------------------------------------------------
(* The steps of the handlers *)

\* A handler that has not written and takes a step.
LEMMA SubmitPreserves ==
    ASSUME IInv, NEW s \in Slots, NEW p \in {"login", "register"}, Submit(s, p)
    PROVE  IInv'
<1> DEFINE x == exchange[s]
<1>1. x # None /\ x.pc = p /\ x.pc \in Serving \ (Render \cup {"app"})
  BY DEF Submit, At, Serving, Render
<1>2. x \in Exchange /\ Good(x) /\ TypeOK /\ FilesInv
  BY <1>1, InSlot
<1>3. UNCHANGED shared
  BY DEF Submit
<1>4. /\ x.depth = 10 /\ Clean(x) /\ Hard(x.hdr, x.in) /\ Loaded(x) /\ Checked(x.in)
      /\ FromBrowser(x) /\ x.seen = {} /\ RoleInv(x)
  BY <1>1, <1>2, InHandler DEF Good
<1>5. CASE exchange' = [exchange EXCEPT ![s] = Respond(x, 400, "error")]
  <2>1. 400 \in Nat /\ "error" \in Bodies
    BY DEF Bodies
  <2>2. Respond(x, 400, "error") \in Exchange /\ Good(Respond(x, 400, "error"))
    BY <1>2, <1>4, <2>1, HandlerAnswers
  <2> QED
    BY <1>3, <1>5, <2>2, SlotStep
<1>6. CASE exchange' = [exchange EXCEPT ![s] = HTML(x, p)]
  <2> DEFINE y == HTML(x, p)
  <2>1. p \in Pages
    BY DEF Pages
  <2>2. /\ y \in Exchange /\ Local(y) /\ y.pc = "lookup" /\ y.page = p
        /\ y.seen = {files[p]} /\ y.bearer = x.bearer
        /\ y.user = x.user /\ y.age = x.age
    BY <1>2, <1>4, <2>1, HTMLBegins
  <2> HIDE DEF y
  <2>3. PageInv(y)
    BY <1>2, <2>1, <2>2 DEF PageInv, FilesInv, Serving, Render
  <2>4. RoleInv(y)
    BY <1>4, <2>2, RolesKept
  <2>5. y \in Exchange /\ Good(y)
    BY <2>2, <2>3, <2>4 DEF Good
  <2> QED
    BY <1>3, <1>6, <2>5, SlotStep DEF y
<1>7. ASSUME NEW u \in Users,
             exchange' = [exchange EXCEPT ![s] =
                Respond([x EXCEPT !.sess = Set(@, [@.data EXCEPT !.user = u])], 303, "moved")]
      PROVE  IInv'
  <2> DEFINE d == [x.sess.data EXCEPT !.user = u]
             new == Set(x.sess, d)
             y == Respond([x EXCEPT !.sess = new], 303, "moved")
  <2>1. d \in Data
    BY <1>2 DEF Exchange, Session, Data
  <2> HIDE DEF d
  <2>2. new \in Session /\ new.modified
    BY <1>2, <2>1, SetSession
  <2> HIDE DEF new
  <2>3. 303 \in Nat /\ "moved" \in Bodies
    BY DEF Bodies
  <2>4. y \in Exchange /\ Good(y)
    BY <1>1, <1>2, <2>2, <2>3, SessionAnswered
  <2>5. exchange' = [exchange EXCEPT ![s] = y]
    BY <1>7 DEF new, d
  <2> HIDE DEF y
  <2> QED
    BY <1>3, <2>4, <2>5, SlotStep
<1> QED
  BY <1>5, <1>6, <1>7 DEF Submit, Put

\* The session is destroyed and the answer sent after it.
LEMMA LogoutPreserves ==
    ASSUME IInv, NEW s \in Slots, Logout(s)
    PROVE  IInv'
<1> DEFINE x == exchange[s]
           new == [x.sess EXCEPT !.destroyed = TRUE, !.modified = TRUE]
           y == Respond([x EXCEPT !.sess = new], 303, "moved")
<1>1. x # None /\ x.pc \in Serving \ (Render \cup {"app"})
  BY DEF Logout, At, Serving, Render
<1>2. x \in Exchange /\ Good(x)
  BY <1>1, InSlot
<1>3. exchange' = [exchange EXCEPT ![s] =
            Respond([x EXCEPT !.sess.destroyed = TRUE, !.sess.modified = TRUE], 303, "moved")]
      /\ UNCHANGED shared
  BY DEF Logout, Put
<1> HIDE DEF x
<1>4. [x EXCEPT !.sess.destroyed = TRUE, !.sess.modified = TRUE] = [x EXCEPT !.sess = new]
  BY <1>2, SessionDestroyed
<1>5. new \in Session /\ new.modified
  BY <1>2 DEF Exchange, Session
<1> HIDE DEF new
<1>6. 303 \in Nat /\ "moved" \in Bodies
  BY DEF Bodies
<1>7. y \in Exchange /\ Good(y)
  BY <1>1, <1>2, <1>5, <1>6, SessionAnswered
<1>8. exchange' = [exchange EXCEPT ![s] = y]
  BY <1>3, <1>4
<1> HIDE DEF y
<1> QED
  BY <1>3, <1>7, <1>8, SlotStep

\* The user is there, or the handler panics.
LEMMA APICurrentUserPreserves ==
    ASSUME IInv, NEW s \in Slots, APICurrentUser(s)
    PROVE  IInv'
<1> DEFINE x == exchange[s]
           v == Respond(x, 200, "json")
           z == [x EXCEPT !.panicking = TRUE, !.panicked = TRUE, !.pc = "leave"]
<1>1. x # None /\ x.pc \in Serving \ (Render \cup {"app"})
  BY DEF APICurrentUser, At, Serving, Render
<1>2. x \in Exchange /\ Good(x)
  BY <1>1, InSlot
<1>3. /\ exchange' = [exchange EXCEPT ![s] = IF x.user # None THEN v ELSE z]
      /\ UNCHANGED shared
  BY DEF APICurrentUser, Put
<1> HIDE DEF x
<1>4. v \in Exchange /\ Good(v)
  <2>1. /\ x.depth = 10 /\ Clean(x) /\ Hard(x.hdr, x.in) /\ Loaded(x)
        /\ FromBrowser(x) /\ x.seen = {} /\ RoleInv(x)
    BY <1>1, <1>2, InHandler DEF Good
  <2>2. 200 \in Nat /\ "json" \in Bodies
    BY DEF Bodies
  <2> QED
    BY <1>2, <2>1, <2>2, HandlerAnswers
<1>5. z \in Exchange /\ Good(z)
  BY <1>1, <1>2, HandlerReturns
<1> HIDE DEF v, z
<1> QED
  BY <1>3, <1>4, <1>5, SlotStep

\* The handler behind RequireRole answers.
LEMMA AdminPreserves ==
    ASSUME IInv, NEW s \in Slots, Admin(s)
    PROVE  IInv'
<1> DEFINE x == exchange[s]
           y == Respond(x, 200, "json")
<1>1. x # None /\ x.pc \in Serving \ (Render \cup {"app"})
  BY DEF Admin, At, Serving, Render
<1>2. x \in Exchange /\ Good(x)
  BY <1>1, InSlot
<1>3. exchange' = [exchange EXCEPT ![s] = y] /\ UNCHANGED shared
  BY DEF Admin, Put
<1> HIDE DEF x
<1>4. y \in Exchange /\ Good(y)
  <2>1. /\ x.depth = 10 /\ Clean(x) /\ Hard(x.hdr, x.in) /\ Loaded(x)
        /\ FromBrowser(x) /\ x.seen = {} /\ RoleInv(x)
    BY <1>1, <1>2, InHandler DEF Good
  <2>2. 200 \in Nat /\ "json" \in Bodies
    BY DEF Bodies
  <2> QED
    BY <1>2, <2>1, <2>2, HandlerAnswers
<1> HIDE DEF y
<1> QED
  BY <1>3, <1>4, SlotStep

\* APILogin has found a user, whose roles are those of now.
LEMMA GenerateGood ==
    ASSUME TypeOK, NEW x \in Exchange, Good(x), x.pc = "apiLogin", NEW u \in Users
    PROVE  LET y == [x EXCEPT !.pc = "generate", !.began = now,
                              !.user = [id |-> u, admin |-> u \in admins, by |-> "password"]]
           IN  y \in Exchange /\ Good(y)
<1> DEFINE id == [id |-> u, admin |-> u \in admins, by |-> "password"]
           y == [x EXCEPT !.pc = "generate", !.began = now, !.user = id]
<1>1. /\ x.depth = 10 /\ Clean(x) /\ Hard(x.hdr, x.in) /\ Loaded(x) /\ Checked(x.in)
      /\ x.seen = {} /\ RoleInv(x)
  BY InHandler DEF Good, Serving, Render
<1>2. /\ id \in User /\ id # None /\ id.by = "password" /\ id.id = u
      /\ id.admin => u \in admins
  <2> DEFINE a == u \in admins
  <2>1. a \in BOOLEAN
    OBVIOUS
  <2>2. id = [id |-> u, admin |-> a, by |-> "password"]
    OBVIOUS
  <2>3. a => u \in admins
    OBVIOUS
  <2> HIDE DEF id, a
  <2> QED
    BY <2>1, <2>2, <2>3, ChainAssumption DEF ChainAssumption, User
<1> HIDE DEF id
<1>3. now \in Nat /\ MaxStall \in Nat /\ "generate" \in Serving
  BY ChainAssumption DEF ChainAssumption, TypeOK, Serving
<1>4. y \in Exchange
  BY <1>2, <1>3 DEF Exchange
<1>5. /\ y.pc = "generate" /\ y.began = now /\ y.user = id /\ y.depth = 10
      /\ y.in = x.in /\ y.hdr = x.hdr /\ y.sess = x.sess /\ y.seen = {}
      /\ y.bearer = x.bearer
  BY <1>1 DEF Exchange
<1>6. Clean(y)
  BY <1>1 DEF Clean, Exchange
<1> HIDE DEF y
<1>7. Handling(y)
  BY <1>1, <1>5, <1>6 DEF Handling, Clean, Loaded
<1>8. Local(y)
  BY <1>2, <1>5, <1>6, <1>7 DEF Local, Clean
<1>9. PageInv(y)
  BY <1>4, <1>5, NoPage DEF Render
<1>10. RoleInv(y)
  BY <1>1, <1>2, <1>3, <1>5 DEF RoleInv, HadRole
<1> QED
  BY <1>4, <1>8, <1>9, <1>10 DEF Good, y, id

\* The login answers with an error, or reads the user's roles ...
LEMMA APILoginPreserves ==
    ASSUME IInv, NEW s \in Slots, APILogin(s)
    PROVE  IInv'
<1> DEFINE x == exchange[s]
           Refuses == \E code \in {400, 422, 401, 500} :
              exchange' = [exchange EXCEPT ![s] = Respond(x, code, "json")]
           Accepts == \E u \in Users :
              exchange' = [exchange EXCEPT ![s] =
                [x EXCEPT !.pc = "generate", !.began = now,
                          !.user = [id |-> u, admin |-> u \in admins, by |-> "password"]]]
<1>1. x # None /\ x.pc = "apiLogin" /\ x.pc \in Serving \ (Render \cup {"app"})
  BY DEF APILogin, At, Serving, Render
<1>2. x \in Exchange /\ Good(x) /\ TypeOK
  BY <1>1, InSlot
<1>3. UNCHANGED shared
  BY DEF APILogin
<1>4. CASE Refuses
  <2>0. PICK code \in {400, 422, 401, 500} :
                exchange' = [exchange EXCEPT ![s] = Respond(x, code, "json")]
    BY <1>4
  <2>1. /\ x.depth = 10 /\ Clean(x) /\ Hard(x.hdr, x.in) /\ Loaded(x)
        /\ FromBrowser(x) /\ x.seen = {} /\ RoleInv(x)
    BY <1>1, <1>2, InHandler DEF Good
  <2>2. code \in Nat /\ "json" \in Bodies
    BY DEF Bodies
  <2>3. Respond(x, code, "json") \in Exchange /\ Good(Respond(x, code, "json"))
    BY <1>2, <2>1, <2>2, HandlerAnswers
  <2> QED
    BY <1>3, <2>0, <2>3, SlotStep
<1>5. CASE Accepts
  <2>0. PICK u \in Users :
              exchange' = [exchange EXCEPT ![s] =
                [x EXCEPT !.pc = "generate", !.began = now,
                          !.user = [id |-> u, admin |-> u \in admins, by |-> "password"]]]
    BY <1>5, Zenon
  <2> DEFINE y == [x EXCEPT !.pc = "generate", !.began = now,
                            !.user = [id |-> u, admin |-> u \in admins, by |-> "password"]]
  <2> HIDE DEF x
  <2>1. y \in Exchange /\ Good(y)
    BY <1>1, <1>2, GenerateGood
  <2>2. exchange' = [exchange EXCEPT ![s] = y]
    BY <2>0
  <2> HIDE DEF y
  <2> QED
    BY <1>3, <2>1, <2>2, SlotStep
<1>6. Refuses \/ Accepts
  BY Zenon DEF APILogin, Put
<1> HIDE DEF Refuses, Accepts
<1> QED
  BY <1>4, <1>5, <1>6

\* The token is answered.
LEMMA GeneratedGood ==
    ASSUME NEW x \in Exchange, Good(x), x.pc = "generate"
    PROVE  LET y == Respond([x EXCEPT !.began = 0], 200, "json") IN y \in Exchange /\ Good(y)
<1> DEFINE w == [x EXCEPT !.began = 0]
           y == Respond(w, 200, "json")
<1>1. /\ x.depth = 10 /\ Clean(x) /\ Hard(x.hdr, x.in) /\ Loaded(x)
      /\ FromBrowser(x) /\ x.seen = {} /\ RoleInv(x)
  BY InHandler DEF Good, Serving, Render
<1>2. w \in Exchange
  BY DEF Exchange
<1>3. /\ w.in = x.in /\ w.hdr = x.hdr /\ w.sess = x.sess /\ w.depth = 10 /\ w.seen = {}
      /\ w.user = x.user /\ w.age = x.age /\ w.bearer = x.bearer
  BY <1>1 DEF Exchange
<1>4. Clean(w)
  BY <1>1 DEF Clean, Exchange
<1> HIDE DEF w
<1>5. 200 \in Nat /\ "json" \in Bodies
  BY DEF Bodies
<1>6. IsRespond(y, w, 200, "json")
  BY <1>2, <1>4, <1>5, RespondIs
<1> HIDE DEF y
<1>7. Loaded(w) /\ w.depth >= 6
  BY <1>1, <1>3 DEF Loaded
<1>8. Local(y)
  BY <1>1, <1>2, <1>3, <1>4, <1>6, <1>7, AnswerGood DEF FromBrowser
<1>9. /\ y \in Exchange /\ y.pc = "leave" /\ y.seen = {}
      /\ y.user = x.user /\ y.age = x.age /\ y.bearer = x.bearer
  BY <1>3, <1>6 DEF IsRespond, Rest
<1>10. PageInv(y)
  BY <1>9, NoPage DEF Render
<1>11. RoleInv(y)
  BY <1>1, <1>9, RolesKept
<1> QED
  BY <1>8, <1>9, <1>10, <1>11 DEF Good, y, w

\* ... and issues a token with them, at most MaxStall later.
LEMMA GenerateAccessTokenPreserves ==
    ASSUME IInv, NEW s \in Slots, GenerateAccessToken(s)
    PROVE  IInv'
<1> DEFINE x == exchange[s]
           y == Respond([x EXCEPT !.began = 0], 200, "json")
           t == [user |-> x.user.id, admin |-> x.user.admin, exp |-> now + TTL]
<1>1. x # None /\ x.pc = "generate"
  BY DEF GenerateAccessToken, At
<1>2. x \in Exchange /\ Good(x) /\ TypeOK /\ TokensInv
  BY <1>1, InSlot
<1>3. /\ exchange' = [exchange EXCEPT ![s] = y] /\ tokens' = tokens \cup {t}
      /\ UNCHANGED <<tmpls, fileVars, admins, revoked, now, family>>
  BY DEF GenerateAccessToken, Put
<1> HIDE DEF x
<1>4. y \in Exchange /\ Good(y)
  BY <1>1, <1>2, GeneratedGood
<1> HIDE DEF y
<1>5. /\ x.user # None /\ x.user \in User \cup {None} /\ x.began \in Nat
      /\ x.began <= now /\ now <= x.began + MaxStall
      /\ x.user.admin => HadRole(x.user.id, x.began)
  BY <1>1, <1>2 DEF Good, RoleInv, Exchange
<1>6. TTL \in Nat /\ MaxStall \in Nat /\ None \notin Nat /\ now \in Nat
  BY <1>2, ChainAssumption DEF ChainAssumption, TypeOK
<1>7. x.user.id \in Users /\ x.user.admin \in BOOLEAN
  BY <1>5 DEF User
<1>8. t \in Token /\ t.user = x.user.id /\ t.admin = x.user.admin /\ t.exp = now + TTL
  BY <1>6, <1>7 DEF Token
<1> HIDE DEF t
<1>9. /\ exchange' \in [Slots -> Exchange \cup {None}]
      /\ (\A r \in Slots : exchange[r] # None => Good(exchange[r]))'
  <2>1. tokens \subseteq tokens'
    BY <1>3
  <2> QED
    BY <1>3, <1>4, <2>1, OneExchange
<1>10. TypeOK'
  BY <1>2, <1>3, <1>8, <1>9 DEF TypeOK, fileVars
<1>11. FilesInv'
  BY <1>3 DEF IInv, FilesInv, fileVars
<1>12. t.admin => \/ t.user \in admins
                  \/ revoked[t.user] # None /\ t.exp <= revoked[t.user] + MaxStall + TTL
  <2>1. revoked[t.user] \in Nat \cup {None}
    BY <1>2, <1>7, <1>8 DEF TypeOK
  <2> QED
    BY <1>5, <1>6, <1>8, <2>1 DEF HadRole
<1>13. TokensInv'
  BY <1>2, <1>3, <1>6, <1>8, <1>12 DEF TokensInv
<1> QED
  BY <1>9, <1>10, <1>11, <1>13 DEF IInv

\* An application's handler does anything.
LEMMA AppPreserves ==
    ASSUME IInv, NEW s \in Slots, App(s)
    PROVE  IInv'
<1> DEFINE x == exchange[s]
<1>1. x # None /\ x.pc = "app" /\ x.pc \in Serving \ Render
  BY DEF App, At, Serving, Render
<1>2. x \in Exchange /\ Good(x)
  BY <1>1, InSlot
<1>3. UNCHANGED shared
  BY DEF App
<1>4. PICK y : /\ exchange' = [exchange EXCEPT ![s] = y]
               /\ \/ \E v \in {"new", "bad"} :
                        y = [x EXCEPT !.sess = Set(@, [@.data EXCEPT !.val = v]), !.lateSession = x.saved]
                  \/ y = [x EXCEPT !.sess.destroyed = TRUE, !.sess.modified = TRUE, !.lateSession = x.saved]
                  \/ y = Write(x, "text")
                  \/ \E code \in {303, 500} :
                        y = [WriteHeader(x, code) EXCEPT
                                !.lateHeader = @ \/ (x.out # None /\ ~x.wroteHeader)]
                  \/ y = [x EXCEPT !.pc = "leave"]
                  \/ y = [x EXCEPT !.panicking = TRUE, !.panicked = TRUE, !.pc = "leave"]
  BY DEF App, Put
<1> HIDE DEF x
<1>5. ASSUME NEW v \in {"new", "bad"},
             y = [x EXCEPT !.sess = Set(@, [@.data EXCEPT !.val = v]), !.lateSession = x.saved]
      PROVE  y \in Exchange /\ Good(y)
  <2> DEFINE d == [x.sess.data EXCEPT !.val = v]
             new == Set(x.sess, d)
  <2>1. d \in Data
    BY <1>2 DEF Exchange, Session, Data
  <2> HIDE DEF d
  <2>2. new \in Session /\ new.modified
    BY <1>2, <2>1, SetSession
  <2> HIDE DEF new
  <2>3. y = [x EXCEPT !.sess = new, !.lateSession = x.saved]
    BY <1>5 DEF new, d
  <2> QED
    BY <1>1, <1>2, <2>2, <2>3, AppSession
<1>6. ASSUME y = [x EXCEPT !.sess.destroyed = TRUE, !.sess.modified = TRUE, !.lateSession = x.saved]
      PROVE  y \in Exchange /\ Good(y)
  <2> DEFINE new == [x.sess EXCEPT !.destroyed = TRUE, !.modified = TRUE]
  <2>1. new \in Session /\ new.modified
    BY <1>2 DEF Exchange, Session
  <2>2. y = [x EXCEPT !.sess = new, !.lateSession = x.saved]
    BY <1>2, <1>6 DEF Exchange, Session
  <2> HIDE DEF new
  <2> QED
    BY <1>1, <1>2, <2>1, <2>2, AppSession
<1>7. ASSUME y = Write(x, "text")
      PROVE  y \in Exchange /\ Good(y)
  BY <1>1, <1>2, <1>7, AppWrite
<1>8. ASSUME NEW code \in {303, 500},
             y = [WriteHeader(x, code) EXCEPT
                    !.lateHeader = @ \/ (x.out # None /\ ~x.wroteHeader)]
      PROVE  y \in Exchange /\ Good(y)
  <2>1. code \in Nat
    OBVIOUS
  <2> QED
    BY <1>1, <1>2, <1>8, <2>1, AppWriteHeader
<1>9. ASSUME y = [x EXCEPT !.pc = "leave"]
      PROVE  y \in Exchange /\ Good(y)
  <2>1. ~x.panicking /\ ~x.panicked
    BY <1>1, <1>2 DEF Good, Local, Handling
  <2>2. y = [x EXCEPT !.panicking = FALSE, !.panicked = FALSE, !.pc = "leave"]
    BY <1>2, <1>9, <2>1 DEF Exchange
  <2> QED
    BY <1>1, <1>2, <2>2, HandlerReturns
<1>10. ASSUME y = [x EXCEPT !.panicking = TRUE, !.panicked = TRUE, !.pc = "leave"]
       PROVE  y \in Exchange /\ Good(y)
  BY <1>1, <1>2, <1>10, HandlerReturns
<1>11. y \in Exchange /\ Good(y)
  BY <1>4, <1>5, <1>6, <1>7, <1>8, <1>9, <1>10
<1> QED
  BY <1>3, <1>4, <1>11, SlotStep

\* A middleware returns.
LEMMA UnwindPreserves ==
    ASSUME IInv, NEW s \in Slots, Unwind(s)
    PROVE  IInv'
<1> DEFINE x == exchange[s]
           y == [Leave(x, Chain[x.depth]) EXCEPT !.depth = @ - 1]
<1>1. x # None /\ x.pc = "leave" /\ x.depth > 0
  BY DEF Unwind, At
<1>2. x \in Exchange /\ Good(x)
  BY <1>1, InSlot
<1>3. exchange' = [exchange EXCEPT ![s] = y] /\ UNCHANGED shared
  BY DEF Unwind, Put
<1> HIDE DEF x
<1>4. y \in Exchange /\ Good(y)
  BY <1>1, <1>2, UnwindGood
<1> HIDE DEF y
<1> QED
  BY <1>3, <1>4, SlotStep

\* net/http ends the response.
LEMMA FinishPreserves ==
    ASSUME IInv, NEW s \in Slots, Finish(s)
    PROVE  IInv'
<1> DEFINE x == exchange[s]
           y == [(IF x.panicking THEN x ELSE Send(x, 200)) EXCEPT !.pc = "done"]
<1>1. x # None /\ x.pc = "leave" /\ x.depth = 0
  BY DEF Finish, At
<1>2. x \in Exchange /\ Good(x)
  BY <1>1, InSlot
<1>3. exchange' = [exchange EXCEPT ![s] = y] /\ UNCHANGED shared
  BY DEF Finish, Put
<1> HIDE DEF x
<1>4. y \in Exchange /\ Good(y)
  BY <1>1, <1>2, FinishGood
<1> HIDE DEF y
<1> QED
  BY <1>3, <1>4, SlotStep

\* The exchange is forgotten.
LEMMA ClosePreserves ==
    ASSUME IInv, NEW s \in Slots, Close(s)
    PROVE  IInv'
BY SlotStep DEF Close, Put
-----------------------------------------------------------------------------
(* Files, roles and time *)

\* An exchange whose page is edited sees the new file as well.
LEMMA EditGood ==
    ASSUME TypeOK, NEW p \in Pages, NEW k \in Kinds,
           files' = [files EXCEPT ![p] = k], past' = [past EXCEPT ![p] = @ \cup {k}],
           UNCHANGED <<tmpls, userVars, now, family>>,
           NEW x \in Exchange, Good(x)
    PROVE  LET y == IF x.seen # {} /\ x.page = p THEN [x EXCEPT !.seen = @ \cup {k}] ELSE x IN
           y \in Exchange /\ Good(y)'
<1>0. /\ Local(x) /\ PageInv(x) /\ RoleInv(x) /\ x.page \in Pages
      /\ \A q \in Pages : past[q] \subseteq past'[q] /\ (q # p => past'[q] = past[q])
      /\ k \in past'[p]
      /\ \A q \in Pages : files'[q] = IF q = p THEN k ELSE files[q]
  BY DEF Good, Exchange, TypeOK
<1>1. CASE x.seen # {} /\ x.page = p
  <2> DEFINE see == x.seen \cup {k}
             y == [x EXCEPT !.seen = see]
  <2>1. y \in Exchange
    BY DEF Exchange
  <2>2. /\ y.in = x.in /\ y.bearer = x.bearer /\ y.sess = x.sess /\ y.user = x.user
        /\ y.page = x.page /\ y.seen = see /\ y.panicked = x.panicked /\ y.age = x.age
        /\ y.lateHeader = x.lateHeader /\ y.lateSession = x.lateSession /\ y.began = x.began
    BY DEF Exchange
  <2>3. /\ y.pc = x.pc /\ y.status = x.status /\ y.wroteHeader = x.wroteHeader
        /\ y.body = x.body /\ y.saved = x.saved /\ y.out = x.out /\ y.cookie = x.cookie
        /\ y.hdr = x.hdr /\ y.log = x.log /\ y.depth = x.depth /\ y.tmpl = x.tmpl
        /\ y.panicking = x.panicking
    BY DEF Exchange
  <2> HIDE DEF y
  <2>4. Local(y)
    <3>1. x.pc # "enter"
      BY <1>0, <1>1 DEF Local, Inbound
    <3>2. Handling(x) => Handling(y)
      BY <2>2, <2>3 DEF Handling, Clean, Loaded
    <3>3. Outbound(x) => Outbound(y)
      BY <2>2, <2>3 DEF Outbound, Loaded, Delivered
    <3>4. Answered(x) => Answered(y)
      BY <2>2, <2>3 DEF Answered, Delivered
    <3> QED
      BY <1>0, <2>2, <2>3, <3>1, <3>2, <3>3, <3>4 DEF Local, Delivered
  <2>5. \A i : Rendered(x, i) => Rendered(y, i)
    BY <2>2, <2>3 DEF Rendered
  <2>6. PageInv(y)'
    <3>1. y.seen \subseteq past'[y.page]
      BY <1>0, <1>1, <2>2 DEF PageInv
    <3>2. y.pc \in Serving => (y.seen # {} <=> y.pc \in Render)
      BY <1>0, <1>1, <2>2, <2>3 DEF PageInv
    <3>3. files'[y.page] \in y.seen
      BY <1>0, <1>1, <2>2
    <3>4. y.pc \in {"store", "execute"} =>
             /\ y.tmpl \in past'[y.page] \ {"invalid"}
             /\ traffic.reload => y.tmpl \in y.seen
      BY <1>0, <1>1, <2>2, <2>3 DEF PageInv
    <3>5. y.pc \in {"leave", "done"} =>
             /\ ~y.panicked
             /\ \E i \in IF traffic.reload THEN y.seen ELSE past'[y.page] : Rendered(y, i)
      <4> SUFFICES ASSUME y.pc \in {"leave", "done"}
                   PROVE  /\ ~y.panicked
                          /\ \E i \in IF traffic.reload THEN y.seen ELSE past'[y.page] :
                                Rendered(y, i)
        OBVIOUS
      <4>1. /\ ~x.panicked
            /\ \E i \in IF traffic.reload THEN x.seen ELSE past[x.page] : Rendered(x, i)
        BY <1>0, <1>1, <2>3 DEF PageInv
      <4> QED
        BY <1>0, <2>2, <2>5, <4>1
    <3>6. traffic' = traffic
      BY DEF traffic
    <3> QED
      BY <3>1, <3>2, <3>3, <3>4, <3>5, <3>6 DEF PageInv
  <2>7. RoleInv(y)'
    BY <1>0, <2>2, <2>3 DEF RoleInv, HadRole, userVars
  <2>8. y \in Exchange /\ Good(y)'
    BY <2>1, <2>4, <2>6, <2>7 DEF Good
  <2> QED
    BY <1>1, <2>8 DEF y, see
<1>2. CASE ~(x.seen # {} /\ x.page = p)
  <2>1. PageInv(x)'
    <3>1. traffic' = traffic
      BY DEF traffic
    <3>2. CASE x.page # p
      <4>1. past'[x.page] = past[x.page] /\ files'[x.page] = files[x.page]
        BY <1>0, <3>2
      <4> QED
        BY <1>0, <3>1, <4>1 DEF PageInv
    <3>3. CASE x.seen = {}
      BY <1>0, <3>1, <3>3 DEF PageInv, Serving, Render
    <3> QED
      BY <1>2, <3>2, <3>3
  <2>2. RoleInv(x)'
    BY <1>0 DEF RoleInv, HadRole, userVars
  <2> QED
    BY <1>0, <1>2, <2>1, <2>2 DEF Good
<1> QED
  BY <1>1, <1>2

\* A file changes, which the exchanges that render it have seen.
LEMMA EditPreserves ==
    ASSUME IInv, NEW p \in Pages, NEW k \in Kinds, Edit(p, k)
    PROVE  IInv'
<1>1. /\ files' = [files EXCEPT ![p] = k] /\ past' = [past EXCEPT ![p] = @ \cup {k}]
      /\ UNCHANGED <<tmpls, userVars, now, family>>
      /\ exchange' = [s \in Slots |->
            IF exchange[s] # None /\ exchange[s].seen # {} /\ exchange[s].page = p
            THEN [exchange[s] EXCEPT !.seen = @ \cup {k}] ELSE exchange[s]]
  BY DEF Edit
<1>2. TypeOK
  BY DEF IInv
<1>3. ASSUME NEW s \in Slots
      PROVE  /\ exchange'[s] \in Exchange \cup {None}
             /\ exchange'[s] # None => Good(exchange[s])'
  <2>1. CASE exchange[s] = None
    BY <1>1, <2>1
  <2>2. CASE exchange[s] # None
    <3>1. PICK x : x = exchange[s]
      OBVIOUS
    <3>2. x \in Exchange /\ Good(x)
      BY <2>2, <3>1, InSlot
    <3> DEFINE y == IF x.seen # {} /\ x.page = p THEN [x EXCEPT !.seen = @ \cup {k}] ELSE x
    <3>3. y \in Exchange /\ Good(y)'
      BY <1>1, <1>2, <3>2, EditGood
    <3>4. exchange'[s] = y
      BY <1>1, <2>2, <3>1
    <3> HIDE DEF y
    <3> QED
      BY <3>3, <3>4
  <2> QED
    BY <2>1, <2>2
<1>4. TypeOK'
  <2>1. exchange' \in [Slots -> Exchange \cup {None}]
    BY <1>1, <1>3
  <2> QED
    BY <1>1, <1>2, <2>1 DEF TypeOK, userVars
<1>5. FilesInv'
  BY <1>1, <1>2 DEF IInv, TypeOK, FilesInv
<1>6. TokensInv'
  BY <1>1 DEF IInv, TokensInv, userVars
<1> QED
  BY <1>3, <1>4, <1>5, <1>6 DEF IInv

\* Exchanges are as they were, and what is good stays good.
LEMMA ExchangesKept ==
    ASSUME IInv, UNCHANGED exchange,
           \A x \in Exchange :
              x # None /\ Good(x) /\ (\E s \in Slots : exchange[s] = x) => Good(x)'
    PROVE  (\A s \in Slots : exchange[s] # None => Good(exchange[s]))'
<1> SUFFICES ASSUME NEW s \in Slots, exchange'[s] # None
             PROVE  Good(exchange[s])'
  OBVIOUS
<1>1. PICK x : x = exchange[s]
  OBVIOUS
<1>2. x \in Exchange /\ Good(x)
  BY <1>1, InSlot
<1>3. Good(x)'
  BY <1>1, <1>2
<1> QED
  BY <1>1, <1>3

\* A role comes or goes: tokens and logins remember when.
LEMMA ChangeRolePreserves ==
    ASSUME IInv, NEW u \in Users, ChangeRole(u)
    PROVE  IInv'
<1>1. /\ UNCHANGED <<exchange, tmpls, fileVars, tokens, now, family>>
      /\ \/ u \notin admins /\ admins' = admins \cup {u} /\ UNCHANGED revoked
         \/ /\ u \in admins
            /\ admins' = admins \ {u}
            /\ revoked' = [revoked EXCEPT ![u] = now]
  BY DEF ChangeRole
<1>2. TypeOK /\ TokensInv /\ FilesInv
  BY DEF IInv
<1>3. TTL \in Nat /\ MaxStall \in Nat /\ None \notin Nat
  BY ChainAssumption DEF ChainAssumption
<1>4. now \in Nat /\ now # None
  BY <1>2, <1>3 DEF TypeOK
<1>5. ASSUME NEW v \in Users, NEW t \in Nat, t <= now, HadRole(v, t)
      PROVE  HadRole(v, t)'
  BY <1>1, <1>2, <1>4, <1>5 DEF TypeOK, HadRole
<1>6. TypeOK'
  BY <1>1, <1>2 DEF TypeOK, fileVars
<1>7. FilesInv'
  BY <1>1, <1>2 DEF FilesInv, fileVars
<1>8. TokensInv'
  <2>1. \A v \in Users : revoked'[v] # None => revoked'[v] <= now
    BY <1>1, <1>2, <1>4 DEF TypeOK, TokensInv
  <2>2. ASSUME NEW t \in tokens, t.admin
        PROVE  \/ t.user \in admins'
               \/ revoked'[t.user] # None /\ t.exp <= revoked'[t.user] + MaxStall + TTL
    <3>1. t.user \in Users /\ t.exp \in Nat /\ t.exp <= now + TTL
      BY <1>2 DEF TypeOK, Token, TokensInv
    <3>2. \/ t.user \in admins
          \/ revoked[t.user] # None /\ t.exp <= revoked[t.user] + MaxStall + TTL
      BY <1>2, <2>2 DEF TokensInv
    <3>3. CASE u = t.user
      <4>1. CASE u \notin admins /\ admins' = admins \cup {u}
        BY <3>3, <4>1
      <4>2. CASE revoked' = [revoked EXCEPT ![u] = now]
        <5>1. revoked'[t.user] = now
          BY <1>2, <3>3, <4>2 DEF TypeOK
        <5> QED
          BY <1>3, <1>4, <3>1, <5>1
      <4> QED
        BY <1>1, <4>1, <4>2
    <3>4. CASE u # t.user
      <4>1. revoked'[t.user] = revoked[t.user] /\ (t.user \in admins => t.user \in admins')
        BY <1>1, <1>2, <3>1, <3>4 DEF TypeOK
      <4> QED
        BY <3>2, <4>1
    <3> QED
      BY <3>3, <3>4
  <2> QED
    BY <1>1, <1>2, <2>1, <2>2 DEF TokensInv
<1>9. ASSUME NEW x \in Exchange, Good(x)
      PROVE  Good(x)'
  <2>1. Local(x)' /\ PageInv(x)'
    BY <1>1, <1>9 DEF Good, PageInv, fileVars, traffic
  <2>2. RoleInv(x)'
    <3>1. RoleInv(x) /\ x.began \in Nat /\ x.user \in User \cup {None}
      BY <1>9 DEF Good, Exchange
    <3>2. x.user # None => x.user.id \in Users
      BY <3>1 DEF User
    <3>3. x.pc = "generate" /\ x.user.admin => HadRole(x.user.id, x.began)'
      BY <1>5, <3>1, <3>2 DEF RoleInv
    <3> QED
      BY <1>1, <3>1, <3>3 DEF RoleInv
  <2> QED
    BY <2>1, <2>2 DEF Good
<1>10. (\A s \in Slots : exchange[s] # None => Good(exchange[s]))'
  BY <1>1, <1>9, ExchangesKept
<1> QED
  BY <1>6, <1>7, <1>8, <1>10 DEF IInv

\* Time passes, as far as the logins under way allow.
LEMMA TickPreserves ==
    ASSUME IInv, Tick
    PROVE  IInv'
<1>1. /\ UNCHANGED <<exchange, tmpls, fileVars, userVars, family>> /\ now' = now + 1
      /\ \A s \in Slots : At(s, "generate") => now < exchange[s].began + MaxStall
  BY DEF Tick
<1>2. TypeOK /\ TokensInv /\ FilesInv
  BY DEF IInv
<1>3. TTL \in Nat /\ MaxStall \in Nat /\ None \notin Nat /\ now \in Nat
  BY <1>2, ChainAssumption DEF ChainAssumption, TypeOK
<1>4. TypeOK'
  BY <1>1, <1>2 DEF TypeOK, fileVars, userVars
<1>5. FilesInv'
  BY <1>1, <1>2 DEF FilesInv, fileVars
<1>6. TokensInv'
  <2>1. \A t \in tokens : t.exp <= now + 1 + TTL
    BY <1>2, <1>3 DEF TokensInv, TypeOK, Token
  <2>2. \A v \in Users : revoked[v] # None => revoked[v] <= now + 1
    BY <1>2, <1>3 DEF TokensInv, TypeOK
  <2> QED
    BY <1>1, <1>2, <2>1, <2>2 DEF TokensInv, userVars
<1>7. ASSUME NEW x \in Exchange, x # None, Good(x), NEW s \in Slots, exchange[s] = x
      PROVE  Good(x)'
  <2>1. Local(x)' /\ PageInv(x)'
    BY <1>1, <1>7 DEF Good, PageInv, fileVars, traffic
  <2>2. RoleInv(x)'
    <3>1. RoleInv(x) /\ x.began \in Nat
      BY <1>7 DEF Good, Exchange
    <3>3. x.pc = "generate" => x.began <= now' /\ now' <= x.began + MaxStall
      BY <1>1, <1>3, <1>7, <3>1 DEF RoleInv, At
    <3> QED
      BY <1>1, <3>1, <3>3 DEF RoleInv, HadRole, userVars
  <2> QED
    BY <2>1, <2>2 DEF Good
<1>8. (\A s \in Slots : exchange[s] # None => Good(exchange[s]))'
  BY <1>1, <1>7, ExchangesKept
<1> QED
  BY <1>4, <1>5, <1>6, <1>8 DEF IInv
-----------------------------------------------------------------------------
(* The invariant *)

\* No exchange, an empty cache and no tokens.
LEMMA InitEstablishes == Init => IInv
<1> SUFFICES ASSUME Init
             PROVE  IInv
  OBVIOUS
<1>1. files \in [Pages -> Kinds]
  BY ChainAssumption DEF ChainAssumption, Init, traffic
<1>2. TypeOK
  BY <1>1 DEF Init, TypeOK
<1>3. FilesInv
  BY <1>1 DEF Init, FilesInv
<1>4. TokensInv
  BY DEF Init, TokensInv
<1> QED
  BY <1>2, <1>3, <1>4 DEF Init, IInv

\* The steps of one exchange together.
LEMMA ServePreserves ==
    ASSUME IInv, NEW s \in Slots, Serve(s)
    PROVE  IInv'
<1>1. CASE \E rq \in traffic.requests :
             \E t \in IF rq.auth = "bearer" THEN tokens \cup {None} ELSE {None} : Arrive(s, rq, t)
  BY <1>1, ArrivePreserves
<1>2. CASE Pass(s) \/ Dispatch(s)
  BY <1>2, PassPreserves, DispatchPreserves
<1>3. CASE Lookup(s) \/ Parse(s) \/ Store(s) \/ Execute(s)
  BY <1>3, LookupPreserves, ParsePreserves, StorePreserves, ExecutePreserves
<1>4. CASE Login(s) \/ Register(s) \/ Logout(s)
  BY <1>4, SubmitPreserves, LogoutPreserves DEF Login, Register
<1>5. CASE APICurrentUser(s) \/ APILogin(s) \/ GenerateAccessToken(s)
  BY <1>5, APICurrentUserPreserves, APILoginPreserves, GenerateAccessTokenPreserves
<1>6. CASE Admin(s) \/ App(s)
  BY <1>6, AdminPreserves, AppPreserves
<1>7. CASE Unwind(s) \/ Finish(s) \/ Close(s)
  BY <1>7, UnwindPreserves, FinishPreserves, ClosePreserves
<1> QED
  BY <1>1, <1>2, <1>3, <1>4, <1>5, <1>6, <1>7 DEF Serve

\* A step in which nothing happens.
LEMMA StutterPreserves ==
    ASSUME IInv, UNCHANGED vars
    PROVE  IInv'
<1>1. UNCHANGED exchange /\ UNCHANGED shared
  BY DEF vars
<1>2. \A x : Good(x) => Good(x)'
  BY <1>1, GoodKept DEF shared, userVars
<1>3. (\A s \in Slots : exchange[s] # None => Good(exchange[s]))'
  BY <1>1, <1>2, ExchangesKept
<1>4. TypeOK'
  BY <1>1 DEF IInv, TypeOK, shared, fileVars, userVars
<1>5. FilesInv'
  BY <1>1 DEF IInv, FilesInv, shared, fileVars
<1>6. TokensInv'
  BY <1>1 DEF IInv, TokensInv, shared, userVars
<1> QED
  BY <1>3, <1>4, <1>5, <1>6 DEF IInv

\* Every step keeps the invariant.
LEMMA NextPreserves == IInv /\ [Next]_vars => IInv'
<1> SUFFICES ASSUME IInv, [Next]_vars
             PROVE  IInv'
  OBVIOUS
<1>1. CASE \E s \in Slots : Serve(s)
  BY <1>1, ServePreserves
<1>2. CASE \E p \in Pages, k \in Kinds : Edit(p, k)
  BY <1>2, EditPreserves
<1>3. CASE \E u \in Users : ChangeRole(u)
  BY <1>3, ChangeRolePreserves
<1>4. CASE Tick
  BY <1>4, TickPreserves
<1>5. CASE UNCHANGED vars
  BY <1>5, StutterPreserves
<1> QED
  BY <1>1, <1>2, <1>3, <1>4, <1>5 DEF Next

\* The inductive invariant holds in every behaviour of the chain.
LEMMA Invariance == Spec => []IInv
<1>1. Init => IInv
  BY InitEstablishes
<1>2. IInv /\ [Next]_vars => IInv'
  BY NextPreserves
<1> QED
  BY <1>1, <1>2, PTL DEF Spec

\* What the invariant says of an exchange that is over.
LEMMA DoneIsGood ==
    ASSUME IInv, NEW x \in Done
    PROVE  Local(x) /\ PageInv(x) /\ x.pc = "done" /\ Answered(x)
<1>1. PICK s \in Slots : exchange[s] # None /\ x = exchange[s] /\ x.pc = "done"
  BY DEF Done, At
<1>2. Good(x)
  BY <1>1, InSlot
<1> QED
  BY <1>1, <1>2 DEF Good, Local

\* Whoever answers, and however often a handler sets a status, the request log
\* has the status that the client got, unless the status came after a Write or
\* the handler panicked.
THEOREM LogTellsStatus == Spec => []StatusLogged
<1>1. IInv => StatusLogged
  <2> SUFFICES ASSUME IInv, NEW x \in Done, ~x.panicked
               PROVE  x.log = x.out.status \/ x.lateHeader
    BY DEF StatusLogged
  <2>1. Local(x) /\ Answered(x)
    BY DoneIsGood
  <2> QED
    BY <2>1 DEF Local, Answered
<1> QED
  BY <1>1, Invariance, PTL

\* The client leaves every exchange with the session that the exchange left,
\* whether the session writer, the session middleware or nobody had to save it.
THEOREM ClientHoldsSession == Spec => []SessionDelivered
<1>1. IInv => SessionDelivered
  <2> SUFFICES ASSUME IInv, NEW x \in Done
               PROVE  \/ (IF x.out.cookie = {} THEN {x.in.cookie} ELSE x.out.cookie)
                            = {IF x.sess.destroyed THEN None ELSE x.sess.data}
                      \/ x.lateSession
                      \/ x.panicked /\ ~x.saved
                      \/ x.sess.data.val = "bad" /\ ~x.sess.destroyed
    BY DEF SessionDelivered
  <2>1. Local(x) /\ Answered(x)
    BY DoneIsGood
  <2>2. x.lateSession \/ (x.panicked /\ ~x.saved) \/ Delivered(x.out.cookie, x)
    BY <2>1 DEF Local, Answered
  <2> QED
    BY <2>2 DEF Delivered
<1> QED
  BY <1>1, Invariance, PTL

\* No combination of headers, cookies and methods brings an unsafe request to a
\* handler for a user whom Auth took from a session without its CSRF token.
THEOREM SessionUsersAreChecked == Spec => []SessionUserChecked
<1>1. IInv => SessionUserChecked
  <2> SUFFICES ASSUME IInv, NEW s \in Slots, exchange[s] # None,
                      exchange[s].pc \notin {"enter", "leave", "done"},
                      exchange[s].in.method = "POST", exchange[s].user # None,
                      exchange[s].user.by = "session"
               PROVE  exchange[s].in.tok /\ exchange[s].in.cookie.csrf
    BY DEF SessionUserChecked
  <2>1. exchange[s] \in Exchange /\ Good(exchange[s])
    BY InSlot
  <2>2. exchange[s].pc \in Serving
    BY <2>1 DEF Exchange
  <2> QED
    BY <2>1, <2>2 DEF Good, Local, Handling, Checked
<1> QED
  BY <1>1, Invariance, PTL

\* Behind RequireRole a role that was taken away works for less than the life of
\* a token and the time a login takes.
THEOREM RolesAreBounded == Spec => []RolesBounded
<1>1. IInv => RolesBounded
  <2> SUFFICES ASSUME IInv, NEW s \in Slots, At(s, "admin")
               PROVE  exchange[s].age < TTL + MaxStall
    BY DEF RolesBounded
  <2>1. exchange[s] # None /\ exchange[s].pc = "admin"
    BY DEF At
  <2>2. Good(exchange[s])
    BY <2>1, InSlot
  <2> QED
    BY <2>1, <2>2 DEF Good, RoleInv
<1> QED
  BY <1>1, Invariance, PTL

\* However requests for a page and edits of its file interleave, the client gets
\* what a file of that page makes: with Reload, and for errors, one the file was
\* during the request.
THEOREM PagesAreTheirFiles == Spec => []PageAsFiles
<1>1. IInv => PageAsFiles
  <2> SUFFICES ASSUME IInv, NEW x \in Done, x.seen # {}
               PROVE  \E k \in IF traffic.reload THEN x.seen ELSE past[x.page] :
                         /\ k = "invalid" => k \in x.seen
                         /\ x.out.status = IF k = "invalid" THEN 500 ELSE 200
                         /\ x.body = Body[k]
    BY DEF PageAsFiles
  <2>1. PageInv(x) /\ x.pc = "done"
    BY DoneIsGood
  <2>2. PICK k \in IF traffic.reload THEN x.seen ELSE past[x.page] : Rendered(x, k)
    BY <2>1 DEF PageInv
  <2> QED
    BY <2>1, <2>2 DEF Rendered
<1> QED
  BY <1>1, Invariance, PTL

\* Every exchange is answered with its ID and the headers that its context
\* needs, whichever middleware, handler or panic ends it.
THEOREM ResponsesAreHardened == Spec => []HardenedResponses
<1>1. IInv => HardenedResponses
  <2> SUFFICES ASSUME IInv, NEW x \in Done
               PROVE  x.out # None /\ Hard(x.out.hdr, x.in)
    BY DEF HardenedResponses, Hard
  <2>1. Local(x) /\ Answered(x)
    BY DoneIsGood
  <2> QED
    BY <2>1 DEF Local, Answered
<1> QED
  BY <1>1, Invariance, PTL
=============================================================================
