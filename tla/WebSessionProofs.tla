-------------------------- MODULE WebSessionProofs ---------------------------
(* Proofs about WebSession for any number of tabs, users, logins and tokens,  *)
(* and for every order in which the browser's responses arrive.               *)
(*                                                                            *)
(* Copies of a session live in three places: the browser's jar, the requests  *)
(* in flight and the cookies of their responses.  The invariant says of every *)
(* copy what the properties say of the jar: its user has logged in (Known),   *)
(* its login has not ended (NotEnded), and, when no other request overlaps,   *)
(* its CSRF token is the jar's (Solo).                                        *)
EXTENDS WebSession, SequenceTheorems, WellFoundedInduction, TLAPS

Credentials == [email : Emails, password : Passwords]
SessionType == [data : SessionData, isNew : BOOLEAN, modified : BOOLEAN,
                destroyed : BOOLEAN, maxAge : Nat]
Response    == [cookie : SUBSET (Cookies \cup {None}), token : Nat \cup {None}]
LoginRecord == [id : Nat, by : Credentials]

TypeOK ==
    /\ jar \in Cookies \cup {None}
    /\ pc \in [Tabs -> {"idle", "handler", "checked", "created", "answered"}]
    /\ op \in [Tabs -> Ops]
    /\ form \in [Tabs -> Credentials \cup {None}]
    /\ sess \in [Tabs -> SessionType]
    /\ created \in [Tabs -> Nat \cup {None}]
    /\ resp \in [Tabs -> Response \cup {None}]
    /\ users \in Seq(Credentials) /\ Len(users) <= MaxUsers
    /\ tokens \in Nat /\ now \in Nat
    /\ logins \in Seq(LoginRecord)
    /\ shared \subseteq Tabs

\* A response's cookie is the session of its request, or clears it.
CookieOf(c, s) ==
    \/ c = {None}
    \/ ~s.destroyed /\ c = {}
    \/ ~s.destroyed /\ \E k \in Cookies : c = {k} /\ k.sess = s.data

\* What is known of a request at each of its stages.
Stages ==
    \A t \in Tabs :
        /\ pc[t] = "idle" => sess[t].data.login = 0 /\ sess[t].data.user = 0
        /\ pc[t] \in {"idle", "answered"} => created[t] = None
        /\ pc[t] # "idle" => sess[t].data.csrf # None
        /\ pc[t] # "idle" /\ op[t] \in {"login", "register"} => form[t] \in Credentials
        /\ pc[t] \in {"checked", "created"} => op[t] = "register"
        /\ pc[t] = "answered" => resp[t] \in Response /\ CookieOf(resp[t].cookie, sess[t])
        /\ created[t] # None => created[t] \in 1..Len(users) /\ users[created[t]] = form[t]

\* A session's user is the one of its login.
Known(d, ls) ==
    /\ d.login \in 0..Len(ls)
    /\ d.user # 0 => d.login # 0 /\ ls[d.login].id = d.user

Proved ==
    /\ jar # None => Known(jar.sess, logins) /\ jar.sess.csrf # None
    /\ \A t \in Tabs : Known(sess[t].data, logins)
    /\ \A l \in 1..Len(logins) : \E n \in 1..Len(users) :
          logins[l].id = FirstID + n - 1 /\ users[n] = logins[l].by

NotEnded ==
    /\ ended \subseteq 1..Len(logins)
    /\ jar # None => jar.sess.login \notin ended
    /\ \A t \in Tabs : sess[t].data.login \notin ended

\* Emails are taken once, unless two registrations raced.
Unique ==
    /\ \A m, n \in 1..Len(users) :
          users[m].email = users[n].email /\ users[m].email \notin raced => m = n
    /\ \A t \in Tabs : pc[t] = "checked" /\ form[t].email \notin raced =>
          /\ \A n \in 1..Len(users) : users[n].email # form[t].email
          /\ \A u \in Tabs : pc[u] = "checked" /\ form[u].email = form[t].email => u = t

\* The jar's session would be accepted.
JarValid ==
    /\ jar # None
    /\ jar.until = 0 \/ now < jar.until
    /\ jar.sess.expires = 0 \/ now <= jar.sess.expires

\* A request that overlaps no other one holds the token of the jar's session.
Solo ==
    \A t \in Tabs : pc[t] # "idle" /\ t \notin shared =>
        /\ \A u \in Tabs : pc[u] # "idle" => u = t
        /\ JarValid => sess[t].data.csrf = jar.sess.csrf

IInv == TypeOK /\ Stages /\ Proved /\ NotEnded /\ Unique /\ Solo
-----------------------------------------------------------------------------
(* Sessions *)

LEMMA FloatExact ==
    ASSUME NEW n \in Nat, n <= Exact
    PROVE  Float(n) = n
BY DEF Float

LEMMA FreshSession ==
    /\ NewData \in SessionData /\ NewData.login = 0 /\ NewData.user = 0 /\ NewData.csrf = None
    /\ \A d \in SessionData, b \in BOOLEAN :
          Fresh(d, b) \in SessionType /\ Fresh(d, b).data = d /\ ~Fresh(d, b).destroyed
<1>1. /\ NewData \in SessionData /\ NewData.login = 0 /\ NewData.user = 0 /\ NewData.csrf = None
  BY DEF NewData, SessionData
<1> QED BY <1>1 DEF Fresh, SessionType

LEMMA ModifySession ==
    ASSUME NEW s \in SessionType, NEW d \in SessionData
    PROVE  Modify(s, d) \in SessionType /\ Modify(s, d).data = d
           /\ Modify(s, d).destroyed = s.destroyed
BY DEF Modify, SessionType

LEMMA DestroySession ==
    ASSUME NEW s \in SessionType
    PROVE  Destroy(s) \in SessionType /\ Destroy(s).data = s.data /\ Destroy(s).destroyed
BY DEF Destroy, SessionType

LEMMA DataFields ==
    ASSUME NEW d \in SessionData
    PROVE  /\ \A k \in Nat : /\ [d EXCEPT !.csrf = k] \in SessionData
                             /\ [d EXCEPT !.csrf = k].csrf = k
                             /\ [d EXCEPT !.csrf = k].user = d.user
                             /\ [d EXCEPT !.csrf = k].login = d.login
           /\ \A k \in Nat : /\ [d EXCEPT !.user = k] \in SessionData
                             /\ [d EXCEPT !.user = k].csrf = d.csrf
                             /\ [d EXCEPT !.user = k].user = k
                             /\ [d EXCEPT !.user = k].login = d.login
           /\ \A k \in Nat : /\ [d EXCEPT !.expires = k] \in SessionData
                             /\ [d EXCEPT !.expires = k].csrf = d.csrf
                             /\ [d EXCEPT !.expires = k].user = d.user
                             /\ [d EXCEPT !.expires = k].login = d.login
           /\ \A k, l \in Nat : /\ [d EXCEPT !.user = k, !.login = l] \in SessionData
                                /\ [d EXCEPT !.user = k, !.login = l].csrf = d.csrf
                                /\ [d EXCEPT !.user = k, !.login = l].user = k
                                /\ [d EXCEPT !.user = k, !.login = l].login = l
           /\ d.user \in Nat /\ d.login \in Nat /\ d.expires \in Nat /\ d.csrf \in Nat \cup {None}
BY DEF SessionData

\* saveSession answers with the session of the request, or clears the cookie.
LEMMA SaveCookie ==
    ASSUME SessionAssumption, NEW s \in SessionType, now \in Nat
    PROVE  Save(s) \in SUBSET (Cookies \cup {None}) /\ CookieOf(Save(s), s)
<1> DEFINE age == IF s.maxAge > 0 THEN s.maxAge ELSE DefaultAge
           k == Cookie(s.data, IF age = 0 THEN 0 ELSE now + age)
<1>1. age \in Nat /\ s.data \in SessionData
  BY DEF SessionType, SessionAssumption
<1>2. k \in Cookies /\ k.sess = s.data
  <2>1. (IF age = 0 THEN 0 ELSE now + age) \in Nat
    BY <1>1
  <2> HIDE DEF age
  <2> QED BY <1>1, <2>1 DEF Cookie, Cookies
<1>3. CASE s.destroyed
  <2>1. Save(s) = {None}
    BY <1>3 DEF Save
  <2> QED BY <2>1 DEF CookieOf
<1>4. CASE ~s.destroyed
  <2>1. Save(s) = {} \/ Save(s) = {k}
    BY <1>4 DEF Save
  <2> HIDE DEF k
  <2> QED BY <1>2, <1>4, <2>1 DEF CookieOf
<1> QED BY <1>3, <1>4

\* IDs of users are small enough to go through JSON unharmed.
LEMMA UsersExact ==
    ASSUME SessionAssumption, ExactAssumption, TypeOK, Proved, jar # None
    PROVE  Float(jar.sess.user) = jar.sess.user
<1>1. jar.sess \in SessionData /\ jar.sess.user \in Nat /\ Exact \in Nat
  <2>1. jar \in Cookies
    BY DEF TypeOK
  <2>2. jar.sess \in SessionData
    BY <2>1 DEF Cookies
  <2> QED BY <2>2, DataFields DEF SessionAssumption
<1>2. CASE jar.sess.user = 0
  BY <1>1, <1>2, FloatExact
<1>3. CASE jar.sess.user # 0
  <2> DEFINE l == jar.sess.login
  <2>1. l \in 1..Len(logins) /\ logins[l].id = jar.sess.user
    <3>1. l \in 0..Len(logins) /\ l # 0 /\ logins[l].id = jar.sess.user /\ Len(logins) \in Nat
      BY <1>3, LenProperties DEF Proved, Known, TypeOK
    <3> HIDE DEF l
    <3> QED BY <3>1
  <2>2. PICK n \in 1..Len(users) : logins[l].id = FirstID + n - 1
    BY <2>1 DEF Proved
  <2>3. Len(users) \in Nat /\ Len(users) <= MaxUsers
    BY LenProperties DEF TypeOK
  <2>4. jar.sess.user <= Exact
    BY <2>1, <2>2, <2>3 DEF SessionAssumption, ExactAssumption
  <2> QED BY <1>1, <2>4, FloatExact
<1> QED BY <1>2, <1>3

\* Request: the session it loads is a copy of the jar's, or a new one.
LEMMA LoadedSession ==
    ASSUME SessionAssumption, NoneAssumption, ExactAssumption, TypeOK, Proved, NotEnded
    PROVE  /\ WithToken(LoadSession) \in SessionType
           /\ WithToken(LoadSession).data.csrf \in Nat
           /\ WithToken(LoadSession).data.csrf # None
           /\ Known(WithToken(LoadSession).data, logins)
           /\ WithToken(LoadSession).data.login \notin ended
           /\ JarValid => WithToken(LoadSession).data.csrf = jar.sess.csrf
<1> DEFINE s == LoadSession
<1>0. /\ Len(logins) \in Nat /\ tokens + 1 \in Nat /\ now \in Nat /\ None \notin Nat
      /\ ended \subseteq 1..Len(logins)
  BY LenProperties DEF TypeOK, NoneAssumption, NotEnded
<1>1. /\ s \in SessionType /\ s.data \in SessionData
      /\ Known(s.data, logins) /\ s.data.login \notin ended
      /\ JarValid => s.data.csrf = jar.sess.csrf /\ s.data.csrf # None
  <2>1. CASE Sent = None \/ Decode(Sent) = None
    <3>1. s = Fresh(NewData, TRUE)
      BY <2>1 DEF LoadSession
    <3>2. /\ s \in SessionType /\ s.data = NewData /\ NewData \in SessionData
          /\ NewData.login = 0 /\ NewData.user = 0
      BY <3>1, FreshSession
    <3>3. 0 \in 0..Len(logins) /\ 0 \notin ended
      BY <1>0
    <3>4. ~JarValid
      <4> SUFFICES ASSUME JarValid PROVE FALSE
        OBVIOUS
      <4>1. Sent = jar /\ Sent # None /\ jar \in Cookies
        BY DEF JarValid, Sent, TypeOK
      <4>2. jar.sess \in SessionData /\ jar.sess.expires \in Nat /\ jar.sess.user \in Nat
        BY <4>1, DataFields DEF Cookies
      <4>3. ~(jar.sess.expires # 0 /\ now > jar.sess.expires)
        BY <1>0, <4>2 DEF JarValid
      <4>4. Decode(Sent) = [jar.sess EXCEPT !.user = Float(@)]
        BY <4>1, <4>3 DEF Decode
      <4>5. Decode(Sent) = [jar.sess EXCEPT !.user = jar.sess.user]
        BY <4>1, <4>4, UsersExact
      <4>6. Decode(Sent) \in SessionData
        BY <4>2, <4>5 DEF SessionData
      <4> QED BY <2>1, <4>1, <4>6 DEF NoneAssumption
    <3> HIDE DEF s
    <3> QED BY <3>2, <3>3, <3>4 DEF Known
  <2>2. CASE ~(Sent = None \/ Decode(Sent) = None)
    <3>1. Sent = jar /\ jar # None /\ jar \in Cookies
      BY <2>2 DEF Sent, TypeOK
    <3>2. jar.sess \in SessionData /\ jar.sess.user \in Nat
      BY <3>1, DataFields DEF Cookies
    <3>3. Decode(Sent) = [jar.sess EXCEPT !.user = jar.sess.user]
      BY <2>2, <3>1, UsersExact DEF Decode
    <3> DEFINE d == [jar.sess EXCEPT !.user = jar.sess.user]
    <3>4. /\ d \in SessionData /\ d.user = jar.sess.user /\ d.login = jar.sess.login
          /\ d.csrf = jar.sess.csrf
      BY <3>2, DataFields
    <3>5. s = Fresh(d, FALSE)
      BY <2>2, <3>3 DEF LoadSession
    <3> HIDE DEF d
    <3>6. s \in SessionType /\ s.data = d
      BY <3>4, <3>5, FreshSession
    <3> HIDE DEF s
    <3>7. Known(d, logins) /\ d.csrf # None
      BY <3>1, <3>4 DEF Proved, Known
    <3>8. d.login \notin ended
      BY <3>1, <3>4 DEF NotEnded
    <3> QED BY <3>4, <3>6, <3>7, <3>8
  <2> QED BY <2>1, <2>2
<1> HIDE DEF s
<1>2. CASE s.data.csrf # None
  <2>1. WithToken(s) = s
    BY <1>2 DEF WithToken
  <2>2. s.data.csrf \in Nat
    BY <1>1, <1>2, DataFields
  <2> QED BY <1>1, <1>2, <2>1, <2>2 DEF s
<1>3. CASE s.data.csrf = None
  <2> DEFINE k == tokens + 1
             d == [s.data EXCEPT !.csrf = k]
  <2>1. WithToken(s) = Modify(s, d)
    BY <1>3 DEF WithToken
  <2>2. d \in SessionData /\ d.csrf = k /\ d.user = s.data.user /\ d.login = s.data.login
    <3>1. k \in Nat
      BY <1>0
    <3> HIDE DEF k
    <3> QED BY <1>1, <3>1 DEF SessionData
  <2> HIDE DEF d
  <2>3. WithToken(s) \in SessionType /\ WithToken(s).data = d
    BY <1>1, <2>1, <2>2, ModifySession
  <2>4. Known(d, logins) /\ d.csrf # None
    BY <1>0, <1>1, <2>2 DEF Known
  <2>5. ~JarValid
    BY <1>1, <1>3
  <2> QED BY <1>0, <1>1, <2>2, <2>3, <2>4, <2>5 DEF s
<1> QED BY <1>2, <1>3
-----------------------------------------------------------------------------
(* Handlers *)

\* What was known of a session stays known when logins are added.
LEMMA KnownGrows ==
    ASSUME NEW ls, NEW more, Len(ls) \in Nat, Len(more) \in Nat, Len(ls) <= Len(more),
           \A l \in 1..Len(ls) : more[l] = ls[l],
           NEW d, Known(d, ls)
    PROVE  Known(d, more)
<1>1. d.login \in 0..Len(ls) /\ (d.user # 0 => d.login # 0 /\ ls[d.login].id = d.user)
  BY DEF Known
<1>2. d.login \in 0..Len(more)
  BY <1>1
<1>3. d.user # 0 => more[d.login].id = d.user
  <2> SUFFICES ASSUME d.user # 0 PROVE more[d.login].id = d.user
    OBVIOUS
  <2>1. d.login \in 1..Len(ls)
    BY <1>1
  <2> QED BY <1>1, <2>1
<1> QED BY <1>1, <1>2, <1>3 DEF Known

\* A handler answers with a session s that keeps the token: with the user it
\* had, or with one who has just logged in.
LEMMA HandlerAnswers ==
    ASSUME SessionAssumption, NoneAssumption, IInv,
           NEW t \in Tabs, pc[t] \in {"handler", "created"},
           NEW s \in SessionType, NEW tok \in Nat \cup {None},
           s.data.csrf = sess[t].data.csrf,
           Known(s.data, logins'), s.data.login \notin ended,
           Answer(t, s, tok), pc' = [pc EXCEPT ![t] = "answered"],
           logins' \in Seq(LoginRecord), Len(logins) <= Len(logins'),
           \A l \in 1..Len(logins) : logins'[l] = logins[l],
           \A l \in 1..Len(logins') : \E n \in 1..Len(users) :
              logins'[l].id = FirstID + n - 1 /\ users[n] = logins'[l].by,
           UNCHANGED <<jar, page, users, tokens, now, histVars>>
    PROVE  IInv'
<1>0. /\ jar' = jar /\ users' = users
      /\ tokens' = tokens /\ now' = now /\ ended' = ended /\ shared' = shared
      /\ raced' = raced
  BY DEF histVars
<1> DEFINE r == [cookie |-> Save(s), token |-> tok]
<1>1. /\ sess' = [sess EXCEPT ![t] = s] /\ resp' = [resp EXCEPT ![t] = r]
      /\ op' = [op EXCEPT ![t] = "show"] /\ form' = [form EXCEPT ![t] = None]
      /\ created' = [created EXCEPT ![t] = None]
  BY DEF Answer
<1>2. r \in Response /\ CookieOf(r.cookie, s)
  <2>1. Save(s) \in SUBSET (Cookies \cup {None}) /\ CookieOf(Save(s), s)
    BY SaveCookie DEF IInv, TypeOK
  <2> QED BY <2>1 DEF Response
<1> HIDE DEF r
<1>3. /\ \A u \in Tabs : sess'[u] = IF u = t THEN s ELSE sess[u]
      /\ \A u \in Tabs : resp'[u] = IF u = t THEN r ELSE resp[u]
      /\ \A u \in Tabs : pc'[u] = IF u = t THEN "answered" ELSE pc[u]
      /\ op'[t] = "show" /\ created'[t] = None
      /\ \A u \in Tabs \ {t} : op'[u] = op[u] /\ form'[u] = form[u] /\ created'[u] = created[u]
  BY <1>1 DEF IInv, TypeOK
<1>4. Len(logins) \in Nat /\ Len(logins') \in Nat
  BY LenProperties DEF IInv, TypeOK
<1>5. TypeOK'
  <2>1. /\ op' \in [Tabs -> Ops] /\ form' \in [Tabs -> Credentials \cup {None}]
        /\ created' \in [Tabs -> Nat \cup {None}]
    BY <1>1 DEF IInv, TypeOK, Ops
  <2>2. sess' \in [Tabs -> SessionType] /\ resp' \in [Tabs -> Response \cup {None}]
    BY <1>1, <1>2 DEF IInv, TypeOK
  <2> QED BY <1>0, <2>1, <2>2 DEF IInv, TypeOK
<1>6. Stages'
  <2> SUFFICES ASSUME NEW u \in Tabs
               PROVE  /\ pc'[u] = "idle" => sess'[u].data.login = 0 /\ sess'[u].data.user = 0
                      /\ pc'[u] \in {"idle", "answered"} => created'[u] = None
                      /\ pc'[u] # "idle" => sess'[u].data.csrf # None
                      /\ pc'[u] # "idle" /\ op'[u] \in {"login", "register"} =>
                            form'[u] \in Credentials
                      /\ pc'[u] \in {"checked", "created"} => op'[u] = "register"
                      /\ pc'[u] = "answered" =>
                            resp'[u] \in Response /\ CookieOf(resp'[u].cookie, sess'[u])
                      /\ created'[u] # None => created'[u] \in 1..Len(users)
                                             /\ users[created'[u]] = form'[u]
    BY <1>0 DEF Stages
  <2>1. CASE u = t
    BY <1>2, <1>3, <2>1 DEF IInv, Stages
  <2>2. CASE u # t
    <3>1. /\ pc'[u] = pc[u] /\ sess'[u] = sess[u] /\ resp'[u] = resp[u]
          /\ op'[u] = op[u] /\ form'[u] = form[u] /\ created'[u] = created[u]
      BY <1>3, <2>2
    <3> QED BY <3>1 DEF IInv, Stages
  <2> QED BY <2>1, <2>2
<1>7. Proved'
  <2>1. \A u \in Tabs : Known(sess'[u].data, logins')
    <3> SUFFICES ASSUME NEW u \in Tabs PROVE Known(sess'[u].data, logins')
      OBVIOUS
    <3>1. CASE u = t
      BY <1>3, <3>1
    <3>2. CASE u # t
      <4>1. sess'[u] = sess[u] /\ Known(sess[u].data, logins)
        BY <1>3, <3>2 DEF IInv, Proved
      <4> QED BY <1>4, <4>1, KnownGrows
    <3> QED BY <3>1, <3>2
  <2>2. jar # None => Known(jar.sess, logins') /\ jar.sess.csrf # None
    BY <1>4, KnownGrows DEF IInv, Proved
  <2> QED BY <1>0, <2>1, <2>2 DEF Proved
<1>8. NotEnded'
  <2>1. ended \subseteq 1..Len(logins')
    BY <1>4 DEF IInv, NotEnded
  <2> QED BY <1>0, <1>3, <2>1 DEF IInv, NotEnded
<1>9. Unique'
  <2>1. \A u \in Tabs : pc'[u] = "checked" => pc[u] = "checked" /\ form'[u] = form[u]
    BY <1>3
  <2>2. users' = users /\ raced' = raced
    BY <1>0
  <2>3. \A m, n \in 1..Len(users) :
           users[m].email = users[n].email /\ users[m].email \notin raced => m = n
    BY DEF IInv, Unique
  <2>4. ASSUME NEW u \in Tabs, pc'[u] = "checked", form'[u].email \notin raced
        PROVE  /\ \A n \in 1..Len(users) : users[n].email # form'[u].email
               /\ \A v \in Tabs : pc'[v] = "checked" /\ form'[v].email = form'[u].email => v = u
    <3>1. pc[u] = "checked" /\ form'[u] = form[u]
      BY <2>1, <2>4
    <3> QED BY <2>1, <2>4, <3>1 DEF IInv, Unique
  <2> QED BY <2>2, <2>3, <2>4 DEF Unique
<1>10. Solo'
  <2>1. JarValid' = JarValid
    BY <1>0 DEF JarValid
  <2>2. \A u \in Tabs : (pc'[u] # "idle" <=> pc[u] # "idle")
                       /\ sess'[u].data.csrf = sess[u].data.csrf
    BY <1>3
  <2> QED BY <1>0, <2>1, <2>2 DEF IInv, Solo
<1> QED BY <1>5, <1>6, <1>7, <1>8, <1>9, <1>10 DEF IInv

\* ... with the user the session had.
LEMMA SameUser ==
    ASSUME SessionAssumption, NoneAssumption, IInv,
           NEW t \in Tabs, pc[t] \in {"handler", "created"},
           NEW s \in SessionType, NEW tok \in Nat \cup {None},
           s.data.csrf = sess[t].data.csrf,
           s.data.user = sess[t].data.user, s.data.login = sess[t].data.login,
           Answer(t, s, tok), pc' = [pc EXCEPT ![t] = "answered"],
           UNCHANGED <<jar, page, users, tokens, now, logins, histVars>>
    PROVE  IInv'
<1>1. logins' = logins /\ UNCHANGED <<jar, page, users, tokens, now, histVars>>
  OBVIOUS
<1>2. logins \in Seq(LoginRecord) /\ Len(logins) \in Nat
  BY LenProperties DEF IInv, TypeOK
<1>3. \A l \in 1..Len(logins) : \E n \in 1..Len(users) :
         logins[l].id = FirstID + n - 1 /\ users[n] = logins[l].by
  BY DEF IInv, Proved
<1>4. Known(s.data, logins')
  BY <1>1 DEF IInv, Proved, Known
<1>5. s.data.login \notin ended
  BY DEF IInv, NotEnded
<1>6. /\ logins' \in Seq(LoginRecord) /\ Len(logins) <= Len(logins')
      /\ \A l \in 1..Len(logins) : logins'[l] = logins[l]
      /\ \A l \in 1..Len(logins') : \E n \in 1..Len(users) :
            logins'[l].id = FirstID + n - 1 /\ users[n] = logins'[l].by
  BY <1>1, <1>2, <1>3
<1> QED BY <1>1, <1>4, <1>5, <1>6, HandlerAnswers

\* ... with the user n, whose credentials the form holds.
LEMMA LoggedIn ==
    ASSUME SessionAssumption, NoneAssumption, IInv,
           NEW t \in Tabs, pc[t] \in {"handler", "created"},
           NEW n \in 1..Len(users), users[n] = form[t],
           logins' = Append(logins, [id |-> UserID(n), by |-> form[t]]),
           Answer(t, LogIn(sess[t], UserID(n)), None), pc' = [pc EXCEPT ![t] = "answered"],
           UNCHANGED <<jar, page, users, tokens, now, histVars>>
    PROVE  IInv'
<1> DEFINE id == UserID(n)
           rec == [id |-> id, by |-> form[t]]
           k == Len(logins) + 1
           d == [sess[t].data EXCEPT !.user = id, !.login = Len(logins')]
           s == Modify(sess[t], d)
<1>1. users \in Seq(Credentials) /\ logins \in Seq(LoginRecord) /\ sess[t] \in SessionType
  BY DEF IInv, TypeOK
<1>2. id = FirstID + n - 1 /\ id \in Nat /\ id # 0
  <2>1. Len(users) \in Nat
    BY <1>1, LenProperties
  <2> QED BY <2>1 DEF UserID, SessionAssumption
<1>3. users[n] \in Credentials
  BY <1>1, ElementOfSeq
<1>4. rec \in LoginRecord /\ rec.id = id /\ rec.by = users[n] /\ logins' = Append(logins, rec)
  BY <1>2, <1>3 DEF LoginRecord
<1>5. s = LogIn(sess[t], UserID(n))
  BY DEF LogIn
<1> HIDE DEF rec, id
<1>6. /\ logins' \in Seq(LoginRecord) /\ Len(logins') = k /\ Len(logins) \in Nat
      /\ \A l \in 1..Len(logins) : logins'[l] = logins[l]
      /\ logins'[k] = rec
  BY <1>1, <1>4, AppendProperties, LenProperties
<1>7. k \in Nat /\ Len(logins) <= k /\ k # 0 /\ k \in 0..k
  BY <1>6
<1>8. d \in SessionData /\ d.csrf = sess[t].data.csrf /\ d.user = id /\ d.login = k
  <2>1. sess[t].data \in SessionData
    BY <1>1 DEF SessionType
  <2>2. d = [sess[t].data EXCEPT !.user = id, !.login = k]
    BY <1>6
  <2> HIDE DEF k, d
  <2> QED BY <1>2, <1>7, <2>1, <2>2 DEF SessionData
<1> HIDE DEF d
<1>9. s \in SessionType /\ s.data = d
  BY <1>1, <1>8, ModifySession
<1> HIDE DEF s
<1>10. Known(s.data, logins')
  <2> HIDE DEF k
  <2> QED BY <1>4, <1>6, <1>7, <1>8, <1>9 DEF Known
<1>11. s.data.login \notin ended
  <2>1. ended \subseteq 1..Len(logins)
    BY DEF IInv, NotEnded
  <2> QED BY <1>6, <1>8, <1>9, <2>1
<1>12. \A l \in 1..Len(logins') : \E m \in 1..Len(users) :
          logins'[l].id = FirstID + m - 1 /\ users[m] = logins'[l].by
  <2> SUFFICES ASSUME NEW l \in 1..Len(logins')
               PROVE  \E m \in 1..Len(users) :
                         logins'[l].id = FirstID + m - 1 /\ users[m] = logins'[l].by
    OBVIOUS
  <2>1. CASE l = k
    BY <1>2, <1>4, <1>6, <2>1
  <2>2. CASE l # k
    <3>1. l \in 1..Len(logins) /\ logins'[l] = logins[l]
      BY <1>6, <2>2
    <3> QED BY <3>1 DEF IInv, Proved
  <2> QED BY <2>1, <2>2
<1>13. s.data.csrf = sess[t].data.csrf
  BY <1>8, <1>9
<1>14. Answer(t, s, None) /\ Len(logins) <= Len(logins')
  BY <1>5, <1>6, <1>7
<1> QED BY <1>6, <1>9, <1>10, <1>11, <1>12, <1>13, <1>14, HandlerAnswers
-----------------------------------------------------------------------------
(* The repository *)

LEMMA Least ==
    ASSUME NEW T \in SUBSET Nat, T # {}
    PROVE  \E x \in T : \A y \in T : x <= y
<1>1. \E x \in T : \A y \in T : ~ (<<y, x>> \in OpToRel(<, Nat))
  BY NatLessThanWellFounded, WFMin
<1>2. \E x \in T : \A y \in T : ~ (y < x)
  BY <1>1 DEF OpToRel
<1> QED BY <1>2

LEMMA FoundByEmail ==
    ASSUME NoneAssumption, TypeOK, NEW e
    PROVE  /\ FindByEmail(e) # None =>
                 FindByEmail(e) \in 1..Len(users) /\ users[FindByEmail(e)].email = e
           /\ FindByEmail(e) = None => \A n \in 1..Len(users) : users[n].email # e
           /\ \A n \in 1..Len(users) : users[n].email = e => FindByEmail(e) # None
<1> DEFINE found == {n \in DOMAIN users : users[n].email = e}
<1>1. DOMAIN users = 1..Len(users) /\ Len(users) \in Nat
  BY LenProperties DEF TypeOK
<1>2. found \in SUBSET Nat /\ found \subseteq 1..Len(users)
  BY <1>1
<1>3. CASE found = {}
  <2>1. FindByEmail(e) = None
    BY <1>3 DEF FindByEmail
  <2>2. \A n \in 1..Len(users) : users[n].email # e
    BY <1>1, <1>3
  <2> QED BY <2>1, <2>2
<1>4. CASE found # {}
  <2>1. FindByEmail(e) = CHOOSE n \in found : \A m \in found : n <= m
    BY <1>4 DEF FindByEmail
  <2>2. \E n \in found : \A m \in found : n <= m
    <3> HIDE DEF found
    <3> QED BY <1>2, <1>4, Least
  <2>3. FindByEmail(e) \in found
    <3> HIDE DEF found
    <3> QED BY <2>1, <2>2
  <2>4. FindByEmail(e) # None
    <3> HIDE DEF found
    <3> QED BY <1>2, <2>3 DEF NoneAssumption
  <2> QED BY <1>1, <2>3, <2>4
<1> QED BY <1>3, <1>4

LEMMA Authenticated ==
    ASSUME NoneAssumption, TypeOK, NEW f \in Credentials, Authenticate(f) # None
    PROVE  Authenticate(f) \in 1..Len(users) /\ users[Authenticate(f)] = f
<1> DEFINE n == FindByEmail(f.email)
<1>1. n # None /\ users[n].password = f.password /\ Authenticate(f) = n
  BY DEF Authenticate
<1>2. n \in 1..Len(users) /\ users[n].email = f.email
  BY <1>1, FoundByEmail
<1> HIDE DEF n
<1>3. users[n] \in Credentials
  BY <1>2, ElementOfSeq DEF TypeOK
<1>4. users[n] = f
  BY <1>1, <1>2, <1>3 DEF Credentials
<1> QED BY <1>1, <1>2, <1>4
-----------------------------------------------------------------------------
(* The steps *)

LEMMA StepRequest ==
    ASSUME SessionAssumption, NoneAssumption, ExactAssumption, IInv,
           NEW t \in Tabs, NEW o \in Ops, NEW f \in Credentials \cup {None},
           o \in {"login", "register"} => f \in Credentials,
           Request(t, o, f)
    PROVE  IInv'
<1> DEFINE s == WithToken(LoadSession)
           r == [cookie |-> Save(s), token |-> None]
<1>1. /\ s \in SessionType /\ s.data.csrf \in Nat /\ s.data.csrf # None
      /\ Known(s.data, logins) /\ s.data.login \notin ended
      /\ JarValid => s.data.csrf = jar.sess.csrf
  BY LoadedSession DEF IInv
<1>0. created' = created
  <2>1. created[t] = None /\ created \in [Tabs -> Nat \cup {None}]
    BY DEF Request, IInv, Stages, TypeOK
  <2>2. created' = created \/ created' = [created EXCEPT ![t] = None]
    BY DEF Request, Answer
  <2> QED BY <2>1, <2>2
<1>2. PICK x \in Ops, y \in Credentials \cup {None} :
      /\ x \in {"login", "register"} => y \in Credentials
      /\ pc[t] = "idle" /\ op' = [op EXCEPT ![t] = x] /\ form' = [form EXCEPT ![t] = y]
      /\ tokens' = (IF s.data.csrf > tokens THEN s.data.csrf ELSE tokens)
      /\ sess' = [sess EXCEPT ![t] = s]
      /\ \/ pc' = [pc EXCEPT ![t] = "answered"] /\ resp' = [resp EXCEPT ![t] = r]
         \/ pc' = [pc EXCEPT ![t] = "handler"] /\ resp' = resp
      /\ shared' = IF InFlight = {} THEN shared ELSE shared \cup InFlight \cup {t}
      /\ jar' = jar /\ created' = created /\ users' = users /\ now' = now
      /\ logins' = logins /\ ended' = ended /\ raced' = raced
  <2>1. CASE TokenValid(t, o, s)
    BY <1>0, <2>1 DEF Request
  <2>2. CASE ~TokenValid(t, o, s)
    BY <1>0, <2>2 DEF Request, Answer, Ops
  <2> QED BY <2>1, <2>2
<1>3. r \in Response /\ CookieOf(r.cookie, s)
  <2>1. Save(s) \in SUBSET (Cookies \cup {None}) /\ CookieOf(Save(s), s)
    BY <1>1, SaveCookie DEF IInv, TypeOK
  <2> QED BY <2>1 DEF Response
<1> HIDE DEF r, s
<1>a. /\ jar' = jar /\ created' = created /\ users' = users /\ now' = now
      /\ logins' = logins /\ ended' = ended /\ raced' = raced
  BY <1>2
<1>b. /\ pc' \in [Tabs -> {"idle", "handler", "checked", "created", "answered"}]
      /\ resp' \in [Tabs -> Response \cup {None}]
      /\ \A u \in Tabs : u # t => pc'[u] = pc[u] /\ resp'[u] = resp[u]
      /\ pc'[t] = "handler" \/ (pc'[t] = "answered" /\ resp'[t] = r)
  <2>1. /\ pc \in [Tabs -> {"idle", "handler", "checked", "created", "answered"}]
        /\ resp \in [Tabs -> Response \cup {None}]
    BY DEF IInv, TypeOK
  <2>2. CASE pc' = [pc EXCEPT ![t] = "answered"] /\ resp' = [resp EXCEPT ![t] = r]
    BY <1>3, <2>1, <2>2
  <2>3. CASE pc' = [pc EXCEPT ![t] = "handler"] /\ resp' = resp
    BY <2>1, <2>3
  <2> QED BY <1>2, <2>2, <2>3
<1>4. /\ \A u \in Tabs : sess'[u] = IF u = t THEN s ELSE sess[u]
      /\ \A u \in Tabs : op'[u] = IF u = t THEN x ELSE op[u]
      /\ \A u \in Tabs : form'[u] = IF u = t THEN y ELSE form[u]
      /\ \A u \in Tabs : u # t => pc'[u] = pc[u] /\ resp'[u] = resp[u]
      /\ pc'[t] = "handler" \/ (pc'[t] = "answered" /\ resp'[t] = r)
  BY <1>2, <1>b DEF IInv, TypeOK
<1>5. TypeOK'
  <2>1. tokens' \in Nat
    BY <1>1, <1>2 DEF IInv, TypeOK
  <2>2. shared' \subseteq Tabs
    BY <1>2 DEF IInv, TypeOK, InFlight
  <2>3. /\ sess' \in [Tabs -> SessionType] /\ op' \in [Tabs -> Ops]
        /\ form' \in [Tabs -> Credentials \cup {None}]
    BY <1>1, <1>2 DEF IInv, TypeOK
  <2> QED BY <1>a, <1>b, <2>1, <2>2, <2>3 DEF IInv, TypeOK
<1>6. Stages'
  <2> SUFFICES ASSUME NEW u \in Tabs
               PROVE  /\ pc'[u] = "idle" => sess'[u].data.login = 0 /\ sess'[u].data.user = 0
                      /\ pc'[u] \in {"idle", "answered"} => created'[u] = None
                      /\ pc'[u] # "idle" => sess'[u].data.csrf # None
                      /\ pc'[u] # "idle" /\ op'[u] \in {"login", "register"} =>
                            form'[u] \in Credentials
                      /\ pc'[u] \in {"checked", "created"} => op'[u] = "register"
                      /\ pc'[u] = "answered" =>
                            resp'[u] \in Response /\ CookieOf(resp'[u].cookie, sess'[u])
                      /\ created'[u] # None => created'[u] \in 1..Len(users)
                                             /\ users[created'[u]] = form'[u]
    BY <1>2 DEF Stages
  <2>1. CASE u = t
    <3>1. created[u] = None
      BY <1>2, <2>1 DEF IInv, Stages
    <3> QED BY <1>1, <1>2, <1>3, <1>4, <2>1, <3>1
  <2>2. CASE u # t
    <3>1. /\ pc'[u] = pc[u] /\ sess'[u] = sess[u] /\ resp'[u] = resp[u]
          /\ op'[u] = op[u] /\ form'[u] = form[u] /\ created'[u] = created[u]
      BY <1>2, <1>4, <2>2
    <3> QED BY <3>1 DEF IInv, Stages
  <2> QED BY <2>1, <2>2
<1>7. Proved'
  <2>1. \A u \in Tabs : Known(sess'[u].data, logins)
    BY <1>1, <1>4 DEF IInv, Proved
  <2> QED BY <1>a, <2>1 DEF IInv, Proved
<1>8. NotEnded'
  BY <1>1, <1>2, <1>4 DEF IInv, NotEnded
<1>9. Unique'
  <2>1. \A u \in Tabs : pc'[u] = "checked" => pc[u] = "checked" /\ form'[u] = form[u]
    BY <1>4
  <2> QED BY <1>2, <2>1 DEF IInv, Unique
<1>10. Solo'
  <2>1. JarValid' = JarValid
    BY <1>2 DEF JarValid
  <2> SUFFICES ASSUME NEW v \in Tabs, pc'[v] # "idle", v \notin shared'
               PROVE  /\ \A u \in Tabs : pc'[u] # "idle" => u = v
                      /\ JarValid => sess'[v].data.csrf = jar.sess.csrf
    BY <1>2, <2>1 DEF Solo
  <2>2. InFlight = {} /\ v = t
    BY <1>2, <1>4 DEF InFlight
  <2> QED BY <1>1, <1>4, <2>2 DEF InFlight
<1> QED BY <1>5, <1>6, <1>7, <1>8, <1>9, <1>10 DEF IInv

LEMMA StepHandlers ==
    ASSUME SessionAssumption, NoneAssumption, IInv, NEW t \in Tabs,
           Show(t) \/ Login(t) \/ Register(t) \/ Logout(t) \/ Remember(t)
    PROVE  IInv'
<1>1. /\ sess[t] \in SessionType /\ sess[t].data \in SessionData
      /\ sess[t].data.csrf \in Nat \cup {None} /\ now \in Nat
  <2>1. sess[t] \in SessionType /\ now \in Nat
    BY DEF IInv, TypeOK
  <2>2. sess[t].data \in SessionData
    BY <2>1 DEF SessionType
  <2> QED BY <2>1, <2>2, DataFields
<1>2. CASE Show(t)
  <2>1. /\ pc[t] = "handler" /\ Answer(t, sess[t], sess[t].data.csrf)
        /\ pc' = [pc EXCEPT ![t] = "answered"]
        /\ UNCHANGED <<jar, page, users, tokens, now, logins, histVars>>
    BY <1>2 DEF Show
  <2> QED BY <1>1, <2>1, SameUser
<1>3. CASE Login(t)
  <2> DEFINE n == Authenticate(form[t])
  <2>1. /\ pc[t] = "handler" /\ op[t] = "login" /\ pc' = [pc EXCEPT ![t] = "answered"]
        /\ UNCHANGED <<jar, page, users, tokens, now, histVars>>
    BY <1>3 DEF Login
  <2>2. form[t] \in Credentials
    BY <2>1 DEF IInv, Stages
  <2>3. CASE /\ n # None /\ logins' = Append(logins, [id |-> UserID(n), by |-> form[t]])
             /\ Answer(t, LogIn(sess[t], UserID(n)), None)
    <3>1. n \in 1..Len(users) /\ users[n] = form[t]
      BY <2>2, <2>3, Authenticated DEF IInv
    <3> HIDE DEF n
    <3> QED BY <2>1, <2>3, <3>1, LoggedIn
  <2>4. CASE logins' = logins /\ Answer(t, sess[t], sess[t].data.csrf)
    <3>1. UNCHANGED <<jar, page, users, tokens, now, logins, histVars>>
      BY <2>1, <2>4
    <3> QED BY <1>1, <2>1, <2>4, <3>1, SameUser
  <2> QED BY <1>3, <2>3, <2>4 DEF Login
<1>4. CASE Register(t)
  <2> DEFINE n == created[t]
  <2>1. /\ pc[t] = "created" /\ pc' = [pc EXCEPT ![t] = "answered"]
        /\ UNCHANGED <<jar, page, users, tokens, now, histVars>>
    BY <1>4 DEF Register
  <2>3. CASE /\ n # None /\ logins' = Append(logins, [id |-> UserID(n), by |-> form[t]])
             /\ Answer(t, LogIn(sess[t], UserID(n)), None)
    <3>1. n \in 1..Len(users) /\ users[n] = form[t]
      BY <2>3 DEF IInv, Stages
    <3> HIDE DEF n
    <3> QED BY <2>1, <2>3, <3>1, LoggedIn
  <2>4. CASE logins' = logins /\ Answer(t, sess[t], sess[t].data.csrf)
    <3>1. UNCHANGED <<jar, page, users, tokens, now, logins, histVars>>
      BY <2>1, <2>4
    <3> QED BY <1>1, <2>1, <2>4, <3>1, SameUser
  <2> QED BY <1>4, <2>3, <2>4 DEF Register
<1>5. CASE Logout(t)
  <2>1. /\ pc[t] = "handler" /\ Answer(t, Destroy(sess[t]), None)
        /\ pc' = [pc EXCEPT ![t] = "answered"]
        /\ UNCHANGED <<jar, page, users, tokens, now, logins, histVars>>
    BY <1>5 DEF Logout
  <2>2. Destroy(sess[t]) \in SessionType /\ Destroy(sess[t]).data = sess[t].data
    BY <1>1, DestroySession
  <2> QED BY <2>1, <2>2, SameUser
<1>6. CASE Remember(t)
  <2> DEFINE end == now + RememberAge
             d == [sess[t].data EXCEPT !.expires = end]
             s == [Modify(sess[t], d) EXCEPT !.maxAge = RememberAge]
  <2>1. /\ pc[t] = "handler" /\ Answer(t, s, None)
        /\ pc' = [pc EXCEPT ![t] = "answered"]
        /\ UNCHANGED <<jar, page, users, tokens, now, logins, histVars>>
    BY <1>6 DEF Remember, SetMaxAge
  <2>2. end \in Nat /\ RememberAge \in Nat
    BY <1>1 DEF SessionAssumption
  <2> HIDE DEF end
  <2>3. /\ d \in SessionData /\ d.csrf = sess[t].data.csrf /\ d.user = sess[t].data.user
        /\ d.login = sess[t].data.login
    BY <1>1, <2>2 DEF SessionData
  <2> HIDE DEF d
  <2>4. Modify(sess[t], d) \in SessionType /\ Modify(sess[t], d).data = d
    BY <1>1, <2>3, ModifySession
  <2>5. s \in SessionType /\ s.data = d
    BY <2>2, <2>4 DEF SessionType
  <2> HIDE DEF s
  <2> QED BY <2>1, <2>3, <2>5, SameUser
<1> QED BY <1>2, <1>3, <1>4, <1>5, <1>6

LEMMA StepRegisterCheck ==
    ASSUME NoneAssumption, IInv, NEW t \in Tabs, RegisterCheck(t)
    PROVE  IInv'
<1> DEFINE e == form[t].email
<1>1. /\ pc[t] = "handler" /\ op[t] = "register"
      /\ pc' = [pc EXCEPT ![t] = IF FindByEmail(e) = None THEN "checked" ELSE "created"]
      /\ raced' = raced \cup {form[u].email : u \in {x \in Tabs :
                                  pc[x] = "checked" /\ form[x].email = e}}
      /\ jar' = jar /\ op' = op /\ form' = form /\ sess' = sess /\ created' = created
      /\ resp' = resp /\ users' = users /\ tokens' = tokens /\ now' = now
      /\ logins' = logins /\ ended' = ended /\ shared' = shared
  BY DEF RegisterCheck, reqVars
<1>2. /\ \A u \in Tabs : u # t => pc'[u] = pc[u]
      /\ \/ pc'[t] = "checked" /\ FindByEmail(e) = None
         \/ pc'[t] = "created"
      /\ pc' \in [Tabs -> {"idle", "handler", "checked", "created", "answered"}]
  BY <1>1 DEF IInv, TypeOK
<1>3. TypeOK'
  BY <1>1, <1>2 DEF IInv, TypeOK
<1>4. Stages'
  BY <1>1, <1>2 DEF IInv, Stages
<1>5. Proved' /\ NotEnded'
  BY <1>1 DEF IInv, Proved, NotEnded
<1>6. Unique'
  <2>1. raced \subseteq raced'
    BY <1>1
  <2>2. \A m, n \in 1..Len(users) :
           users[m].email = users[n].email /\ users[m].email \notin raced' => m = n
    BY <2>1 DEF IInv, Unique
  <2>3. \A x \in Tabs : pc[x] = "checked" /\ form[x].email = e => e \in raced'
    BY <1>1
  <2>4. ASSUME NEW v \in Tabs, pc'[v] = "checked", form[v].email \notin raced'
        PROVE  /\ \A n \in 1..Len(users) : users[n].email # form[v].email
               /\ \A u \in Tabs : pc'[u] = "checked" /\ form[u].email = form[v].email => u = v
    <3>1. CASE v = t
      <4>1. FindByEmail(e) = None
        BY <1>2, <2>4, <3>1
      <4>2. \A n \in 1..Len(users) : users[n].email # e
        BY <4>1, FoundByEmail DEF IInv
      <4> QED BY <1>2, <2>3, <2>4, <3>1, <4>2
    <3>2. CASE v # t
      <4>1. pc[v] = "checked" /\ form[v].email \notin raced
        BY <1>2, <2>1, <2>4, <3>2
      <4>2. form[v].email # e
        BY <2>3, <2>4, <4>1
      <4> QED BY <1>2, <4>1, <4>2 DEF IInv, Unique
    <3> QED BY <3>1, <3>2
  <2> QED BY <1>1, <2>2, <2>4 DEF Unique
<1>7. Solo'
  <2>1. JarValid' = JarValid
    BY <1>1 DEF JarValid
  <2>2. \A u \in Tabs : pc'[u] # "idle" <=> pc[u] # "idle"
    BY <1>1, <1>2
  <2> QED BY <1>1, <2>1, <2>2 DEF IInv, Solo
<1> QED BY <1>3, <1>4, <1>5, <1>6, <1>7 DEF IInv

LEMMA StepRegisterCreate ==
    ASSUME SessionAssumption, IInv, NEW t \in Tabs, RegisterCreate(t)
    PROVE  IInv'
<1> DEFINE k == Len(users) + 1
           e == form[t].email
<1>1. /\ pc[t] = "checked" /\ Len(users) < MaxUsers /\ users' = Append(users, form[t])
      /\ created' = [created EXCEPT ![t] = Len(users')]
      /\ pc' = [pc EXCEPT ![t] = "created"]
      /\ jar' = jar /\ op' = op /\ form' = form /\ sess' = sess /\ resp' = resp
      /\ tokens' = tokens /\ now' = now /\ logins' = logins
      /\ ended' = ended /\ shared' = shared /\ raced' = raced
  BY DEF RegisterCreate, Create, histVars
<1>2. form[t] \in Credentials
  BY <1>1 DEF IInv, Stages
<1>3. /\ users' \in Seq(Credentials) /\ Len(users') = k /\ Len(users) \in Nat
      /\ \A n \in 1..Len(users) : users'[n] = users[n]
      /\ users'[k] = form[t]
  BY <1>1, <1>2, AppendProperties, LenProperties DEF IInv, TypeOK
<1>4. /\ k \in Nat /\ k <= MaxUsers /\ k \in 1..Len(users')
      /\ \A n \in 1..Len(users) : n \in 1..Len(users')
      /\ \A n \in 1..Len(users') : n = k \/ n \in 1..Len(users)
  BY <1>1, <1>3 DEF SessionAssumption
<1> HIDE DEF k
<1>5. /\ \A u \in Tabs : pc'[u] = IF u = t THEN "created" ELSE pc[u]
      /\ \A u \in Tabs : created'[u] = IF u = t THEN k ELSE created[u]
  BY <1>1, <1>3 DEF IInv, TypeOK
<1>6. TypeOK'
  <2>1. /\ created' \in [Tabs -> Nat \cup {None}]
        /\ pc' \in [Tabs -> {"idle", "handler", "checked", "created", "answered"}]
    BY <1>1, <1>3, <1>4 DEF IInv, TypeOK
  <2> QED BY <1>1, <1>3, <1>4, <2>1 DEF IInv, TypeOK
<1>7. Stages'
  <2> SUFFICES ASSUME NEW u \in Tabs
               PROVE  /\ pc'[u] = "idle" => sess[u].data.login = 0 /\ sess[u].data.user = 0
                      /\ pc'[u] \in {"idle", "answered"} => created'[u] = None
                      /\ pc'[u] # "idle" => sess[u].data.csrf # None
                      /\ pc'[u] # "idle" /\ op[u] \in {"login", "register"} =>
                            form[u] \in Credentials
                      /\ pc'[u] \in {"checked", "created"} => op[u] = "register"
                      /\ pc'[u] = "answered" =>
                            resp[u] \in Response /\ CookieOf(resp[u].cookie, sess[u])
                      /\ created'[u] # None => created'[u] \in 1..Len(users')
                                             /\ users'[created'[u]] = form[u]
    BY <1>1 DEF Stages
  <2>1. CASE u = t
    BY <1>1, <1>3, <1>4, <1>5, <2>1 DEF IInv, Stages
  <2>2. CASE u # t
    <3>1. pc'[u] = pc[u] /\ created'[u] = created[u]
      BY <1>5, <2>2
    <3>2. created[u] # None => created[u] \in 1..Len(users')
                                 /\ users'[created[u]] = form[u]
      <4> SUFFICES ASSUME created[u] # None
                   PROVE  created[u] \in 1..Len(users') /\ users'[created[u]] = form[u]
        OBVIOUS
      <4>1. created[u] \in 1..Len(users) /\ users[created[u]] = form[u]
        BY DEF IInv, Stages
      <4> QED BY <1>3, <1>4, <4>1
    <3> QED BY <3>1, <3>2 DEF IInv, Stages
  <2> QED BY <2>1, <2>2
<1>8. Proved'
  <2>1. ASSUME NEW l \in 1..Len(logins)
        PROVE  \E n \in 1..Len(users') :
                  logins[l].id = FirstID + n - 1 /\ users'[n] = logins[l].by
    <3>1. PICK n \in 1..Len(users) : logins[l].id = FirstID + n - 1 /\ users[n] = logins[l].by
      BY <2>1 DEF IInv, Proved
    <3>2. n \in 1..Len(users') /\ users'[n] = users[n]
      BY <1>3, <1>4
    <3> QED BY <3>1, <3>2
  <2>2. /\ jar # None => Known(jar.sess, logins) /\ jar.sess.csrf # None
        /\ \A u \in Tabs : Known(sess[u].data, logins)
    BY DEF IInv, Proved
  <2> QED BY <1>1, <2>1, <2>2 DEF Proved
<1>9. NotEnded'
  BY <1>1 DEF IInv, NotEnded
<1>10. Unique'
  <2>1. e \notin raced =>
          /\ \A n \in 1..Len(users) : users[n].email # e
          /\ \A u \in Tabs : pc[u] = "checked" /\ form[u].email = e => u = t
    BY <1>1 DEF IInv, Unique
  <2>2. ASSUME NEW m \in 1..Len(users'), NEW n \in 1..Len(users'),
               users'[m].email = users'[n].email, users'[m].email \notin raced
        PROVE  m = n
    <3>1. CASE m = k
      <4>1. users'[m].email = e
        BY <1>3, <3>1
      <4>2. n = k \/ (n \in 1..Len(users) /\ users'[n] = users[n])
        BY <1>3, <1>4
      <4> QED BY <2>1, <2>2, <3>1, <4>1, <4>2
    <3>2. CASE n = k
      <4>1. users'[n].email = e
        BY <1>3, <3>2
      <4>2. m = k \/ (m \in 1..Len(users) /\ users'[m] = users[m])
        BY <1>3, <1>4
      <4> QED BY <2>1, <2>2, <3>2, <4>1, <4>2
    <3>3. CASE m # k /\ n # k
      <4>1. /\ m \in 1..Len(users) /\ users'[m] = users[m]
            /\ n \in 1..Len(users) /\ users'[n] = users[n]
        BY <1>3, <1>4, <3>3
      <4> QED BY <2>2, <4>1 DEF IInv, Unique
    <3> QED BY <3>1, <3>2, <3>3
  <2>3. ASSUME NEW v \in Tabs, pc'[v] = "checked", form[v].email \notin raced
        PROVE  /\ \A n \in 1..Len(users') : users'[n].email # form[v].email
               /\ \A u \in Tabs : pc'[u] = "checked" /\ form[u].email = form[v].email => u = v
    <3>1. v # t /\ pc[v] = "checked"
      BY <1>5, <2>3
    <3>2. /\ \A n \in 1..Len(users) : users[n].email # form[v].email
          /\ \A u \in Tabs : pc[u] = "checked" /\ form[u].email = form[v].email => u = v
      BY <2>3, <3>1 DEF IInv, Unique
    <3>3. e # form[v].email
      BY <1>1, <3>1, <3>2
    <3>4. \A n \in 1..Len(users') : users'[n].email # form[v].email
      BY <1>3, <1>4, <3>2, <3>3
    <3> QED BY <1>5, <3>2, <3>4
  <2> QED BY <1>1, <2>2, <2>3 DEF Unique
<1>11. Solo'
  <2>1. JarValid' = JarValid
    BY <1>1 DEF JarValid
  <2>2. \A u \in Tabs : pc'[u] # "idle" <=> pc[u] # "idle"
    BY <1>1, <1>5
  <2> QED BY <1>1, <2>1, <2>2 DEF IInv, Solo
<1> QED BY <1>6, <1>7, <1>8, <1>9, <1>10, <1>11 DEF IInv

\* What the browser keeps of a response.
LEMMA Received ==
    ASSUME IInv, NEW t \in Tabs, Deliver(t)
    PROVE  \/ jar' = None
           \/ jar' = jar /\ ~sess[t].destroyed
           \/ jar' \in Cookies /\ jar'.sess = sess[t].data /\ ~sess[t].destroyed
<1> DEFINE c == resp[t].cookie
<1>1. CookieOf(c, sess[t]) /\ jar' = IF c = {} THEN jar ELSE CHOOSE new \in c : TRUE
  BY DEF Deliver, IInv, Stages
<1> HIDE DEF c
<1>2. CASE c = {None}
  BY <1>1, <1>2
<1>3. CASE ~sess[t].destroyed /\ c = {}
  BY <1>1, <1>3
<1>4. CASE ~sess[t].destroyed /\ \E k \in Cookies : c = {k} /\ k.sess = sess[t].data
  BY <1>1, <1>4
<1> QED BY <1>1, <1>2, <1>3, <1>4 DEF CookieOf

LEMMA StepDeliver ==
    ASSUME SessionAssumption, NoneAssumption, IInv, NEW t \in Tabs, Deliver(t)
    PROVE  IInv'
<1> DEFINE new == Fresh(NewData, TRUE)
           login == sess[t].data.login
<1>1. /\ pc[t] = "answered" /\ pc' = [pc EXCEPT ![t] = "idle"]
      /\ shared' = shared \ {t}
      /\ resp' = [resp EXCEPT ![t] = None] /\ sess' = [sess EXCEPT ![t] = new]
      /\ form' = form /\ created' = created /\ op' = op
      /\ users' = users /\ tokens' = tokens /\ now' = now /\ logins' = logins
      /\ raced' = raced
  BY DEF Deliver
<1>2. /\ new \in SessionType /\ new.data = NewData /\ NewData \in SessionData
      /\ NewData.login = 0 /\ NewData.user = 0
  BY FreshSession
<1> HIDE DEF new
<1>3. /\ \A u \in Tabs : pc'[u] = IF u = t THEN "idle" ELSE pc[u]
      /\ \A u \in Tabs : sess'[u] = IF u = t THEN new ELSE sess[u]
      /\ created'[t] = None
      /\ \A u \in Tabs : u # t => resp'[u] = resp[u]
  BY <1>1 DEF IInv, TypeOK, Stages
<1>4. \/ jar' = None
      \/ jar' = jar /\ ~sess[t].destroyed
      \/ jar' \in Cookies /\ jar'.sess = sess[t].data /\ ~sess[t].destroyed
  BY Received
<1>5. Len(logins) \in Nat /\ sess[t].data.csrf # None
  BY <1>1, LenProperties DEF IInv, TypeOK, Stages
<1>6. TypeOK'
  <2>1. jar' \in Cookies \cup {None}
    BY <1>4 DEF IInv, TypeOK
  <2>2. /\ pc' \in [Tabs -> {"idle", "handler", "checked", "created", "answered"}]
        /\ op' \in [Tabs -> Ops] /\ form' \in [Tabs -> Credentials \cup {None}]
        /\ sess' \in [Tabs -> SessionType] /\ created' \in [Tabs -> Nat \cup {None}]
        /\ resp' \in [Tabs -> Response \cup {None}]
    BY <1>1, <1>2 DEF IInv, TypeOK, Ops
  <2> QED BY <1>1, <2>1, <2>2 DEF IInv, TypeOK
<1>7. Stages'
  <2> SUFFICES ASSUME NEW u \in Tabs
               PROVE  /\ pc'[u] = "idle" => sess'[u].data.login = 0 /\ sess'[u].data.user = 0
                      /\ pc'[u] \in {"idle", "answered"} => created'[u] = None
                      /\ pc'[u] # "idle" => sess'[u].data.csrf # None
                      /\ pc'[u] # "idle" /\ op'[u] \in {"login", "register"} =>
                            form'[u] \in Credentials
                      /\ pc'[u] \in {"checked", "created"} => op'[u] = "register"
                      /\ pc'[u] = "answered" =>
                            resp'[u] \in Response /\ CookieOf(resp'[u].cookie, sess'[u])
                      /\ created'[u] # None => created'[u] \in 1..Len(users)
                                             /\ users[created'[u]] = form'[u]
    BY <1>1 DEF Stages
  <2>1. CASE u = t
    BY <1>2, <1>3, <2>1
  <2>2. CASE u # t
    BY <1>1, <1>3, <2>2 DEF IInv, Stages
  <2> QED BY <2>1, <2>2
<1>8. Proved'
  <2>1. Known(NewData, logins)
    BY <1>2, <1>5 DEF Known
  <2>2. \A u \in Tabs : Known(sess[u].data, logins)
    BY DEF IInv, Proved
  <2>3. \A u \in Tabs : Known(sess'[u].data, logins)
    BY <1>2, <1>3, <2>1, <2>2
  <2>4. jar' # None => Known(jar'.sess, logins) /\ jar'.sess.csrf # None
    BY <1>4, <1>5, <2>2 DEF IInv, Proved
  <2> QED BY <1>1, <2>3, <2>4 DEF IInv, Proved
<1>9. NotEnded'
  <2>1. ended \subseteq 1..Len(logins) /\ 0 \notin ended
    BY <1>5 DEF IInv, NotEnded
  <2>2. CASE /\ ended' = ended \cup {login}
             /\ sess[t].destroyed /\ login # 0
             /\ \A u \in InFlight \ {t} : sess[u].data.login # login
    <3>1. jar' = None
      BY <1>4, <2>2
    <3>2. login \in 1..Len(logins)
      <4>1. login \in 0..Len(logins)
        BY DEF IInv, Proved, Known
      <4> HIDE DEF login
      <4> QED BY <1>5, <2>2, <4>1
    <3>3. ASSUME NEW u \in Tabs
          PROVE  sess'[u].data.login \notin ended'
      <4>1. CASE u = t
        BY <1>2, <1>3, <2>1, <2>2, <4>1
      <4>2. CASE u # t
        <5>1. sess'[u] = sess[u] /\ sess[u].data.login \notin ended
          BY <1>3, <4>2 DEF IInv, NotEnded
        <5>2. sess[u].data.login # login
          <6>1. CASE pc[u] = "idle"
            BY <2>2, <6>1 DEF IInv, Stages
          <6>2. CASE pc[u] # "idle"
            BY <2>2, <4>2, <6>2 DEF InFlight
          <6> QED BY <6>1, <6>2
        <5> QED BY <2>2, <5>1, <5>2
      <4> QED BY <4>1, <4>2
    <3>4. ended' \subseteq 1..Len(logins)
      BY <2>1, <2>2, <3>2
    <3> QED BY <1>1, <3>1, <3>3, <3>4 DEF NotEnded
  <2>3. CASE ended' = ended
    <3>1. \A u \in Tabs : sess'[u].data.login \notin ended
      BY <1>2, <1>3, <2>1 DEF IInv, NotEnded
    <3>2. jar' # None => jar'.sess.login \notin ended
      BY <1>4 DEF IInv, NotEnded
    <3> QED BY <1>1, <2>1, <2>3, <3>1, <3>2 DEF NotEnded
  <2> QED BY <2>2, <2>3 DEF Deliver
<1>10. Unique'
  <2>1. \A u \in Tabs : pc'[u] = "checked" => pc[u] = "checked" /\ form'[u] = form[u]
    BY <1>1, <1>3
  <2> QED BY <1>1, <2>1 DEF IInv, Unique
<1>11. Solo'
  \* A request in flight beside the delivered one shares.
  <2> SUFFICES ASSUME NEW v \in Tabs, pc'[v] # "idle", v \notin shared'
               PROVE  FALSE
    BY DEF Solo
  <2>1. v # t /\ pc[v] # "idle" /\ v \notin shared
    BY <1>1, <1>3
  <2> QED BY <1>1, <2>1 DEF IInv, Solo
<1> QED BY <1>6, <1>7, <1>8, <1>9, <1>10, <1>11 DEF IInv

LEMMA StepBrowser ==
    ASSUME SessionAssumption, NoneAssumption, IInv, Restart \/ Tick \/ UNCHANGED vars
    PROVE  IInv'
<1>1. /\ pc' = pc /\ op' = op /\ form' = form /\ sess' = sess /\ created' = created
      /\ resp' = resp /\ users' = users /\ tokens' = tokens /\ logins' = logins
      /\ ended' = ended /\ shared' = shared /\ raced' = raced
  BY DEF Restart, Tick, vars, reqVars, histVars
<1>2. /\ jar' = None \/ jar' = jar
      /\ now' \in Nat /\ now <= now' /\ now \in Nat
  BY DEF Restart, Tick, vars, IInv, TypeOK
<1>3. TypeOK'
  BY <1>1, <1>2 DEF IInv, TypeOK
<1>4. Stages' /\ Unique'
  BY <1>1 DEF IInv, Stages, Unique
<1>5. Proved' /\ NotEnded'
  BY <1>1, <1>2 DEF IInv, Proved, NotEnded
<1>6. Solo'
  <2>1. JarValid' => JarValid /\ jar' = jar
    <3> SUFFICES ASSUME JarValid' PROVE JarValid /\ jar' = jar
      OBVIOUS
    <3>1. jar' = jar /\ jar # None /\ jar \in Cookies
      BY <1>2 DEF JarValid, IInv, TypeOK
    <3>2. jar.until \in Nat /\ jar.sess.expires \in Nat
      BY <3>1, DataFields DEF Cookies
    <3>3. /\ jar.until = 0 \/ now' < jar.until
          /\ jar.sess.expires = 0 \/ now' <= jar.sess.expires
      BY <3>1 DEF JarValid
    <3>4. /\ jar.until = 0 \/ now < jar.until
          /\ jar.sess.expires = 0 \/ now <= jar.sess.expires
      BY <1>2, <3>2, <3>3
    <3> QED BY <3>1, <3>4 DEF JarValid
  <2> QED BY <1>1, <2>1 DEF IInv, Solo
<1> QED BY <1>3, <1>4, <1>5, <1>6 DEF IInv
-----------------------------------------------------------------------------
(* The theorems *)

LEMMA InitIInv ==
    ASSUME SessionAssumption, NoneAssumption, Init
    PROVE  IInv
<1> DEFINE new == Fresh(NewData, TRUE)
<1>1. /\ new \in SessionType /\ new.data = NewData /\ NewData \in SessionData
      /\ NewData.login = 0 /\ NewData.user = 0
  BY FreshSession
<1>2. /\ jar = None /\ pc = [t \in Tabs |-> "idle"] /\ op = [t \in Tabs |-> "show"]
      /\ form = [t \in Tabs |-> None] /\ sess = [t \in Tabs |-> new]
      /\ created = [t \in Tabs |-> None] /\ resp = [t \in Tabs |-> None]
      /\ users = <<>> /\ tokens = 0 /\ now = 0 /\ logins = <<>>
      /\ ended = {} /\ shared = {} /\ raced = {}
  BY DEF Init
<1> HIDE DEF new
<1>3. /\ users \in Seq(Credentials) /\ Len(users) = 0
      /\ logins \in Seq(LoginRecord) /\ Len(logins) = 0
  BY <1>2
<1>4. TypeOK
  BY <1>1, <1>2, <1>3 DEF TypeOK, Ops, SessionAssumption
<1>5. Stages /\ NotEnded /\ Unique /\ Solo
  BY <1>1, <1>2, <1>3 DEF Stages, NotEnded, Unique, Solo
<1>6. Proved
  BY <1>1, <1>2, <1>3 DEF Proved, Known
<1> QED BY <1>4, <1>5, <1>6 DEF IInv

LEMMA NextIInv ==
    ASSUME SessionAssumption, NoneAssumption, ExactAssumption, IInv, [Next]_vars
    PROVE  IInv'
<1>1. ASSUME NEW t \in Tabs, TabStep(t)
      PROVE  IInv'
  <2>1. CASE \E o \in Ops \ {"login", "register"} : Request(t, o, None)
    BY <2>1, StepRequest
  <2>2. CASE \E o \in {"login", "register"}, f \in [email : Emails, password : Passwords] :
                Request(t, o, f)
    BY <2>2, StepRequest DEF Ops, Credentials
  <2>3. CASE Show(t) \/ Login(t) \/ Register(t) \/ Logout(t) \/ Remember(t)
    BY <2>3, StepHandlers
  <2>4. CASE RegisterCheck(t)
    BY <2>4, StepRegisterCheck
  <2>5. CASE RegisterCreate(t)
    BY <2>5, StepRegisterCreate
  <2>6. CASE Deliver(t)
    BY <2>6, StepDeliver
  <2> QED BY <1>1, <2>1, <2>2, <2>3, <2>4, <2>5, <2>6 DEF TabStep
<1>2. CASE Restart \/ Tick \/ UNCHANGED vars
  BY <1>2, StepBrowser
<1> QED BY <1>1, <1>2 DEF Next

\* The inductive invariant holds in every state: of every copy of a session, in
\* the jar, in a request (middleware/session.go) or in a response.
THEOREM Invariance == Spec => []IInv
<1>1. Init => IInv
  BY InitIInv, SessionAssumption, NoneAssumption
<1>2. IInv /\ [Next]_vars => IInv'
  BY NextIInv, SessionAssumption, NoneAssumption, ExactAssumption
<1> QED BY <1>1, <1>2, PTL DEF Spec

\* Login and Register (modules/account/handler.go) are the only way a user gets
\* into the browser's session, with that user's own password.
THEOREM WebSessionUserProved == Spec => []SessionUserProved
<1>1. IInv => SessionUserProved
  <2> SUFFICES ASSUME IInv, jar # None, jar.sess.user # 0
               PROVE  /\ jar.sess.login \in DOMAIN logins
                      /\ logins[jar.sess.login].id = jar.sess.user
                      /\ users[jar.sess.user - FirstID + 1] = logins[jar.sess.login].by
    BY DEF SessionUserProved
  <2> DEFINE l == jar.sess.login
  <2>1. l \in 0..Len(logins) /\ l # 0 /\ logins[l].id = jar.sess.user
    BY DEF IInv, Proved, Known
  <2>2. DOMAIN logins = 1..Len(logins) /\ Len(logins) \in Nat /\ Len(users) \in Nat
    BY LenProperties DEF IInv, TypeOK
  <2> HIDE DEF l
  <2>3. l \in 1..Len(logins)
    BY <2>1, <2>2
  <2>4. PICK n \in 1..Len(users) : logins[l].id = FirstID + n - 1 /\ users[n] = logins[l].by
    BY <2>3 DEF IInv, Proved
  <2>5. jar.sess.user - FirstID + 1 = n
    BY <2>1, <2>2, <2>4, SessionAssumption DEF SessionAssumption
  <2> QED BY <2>1, <2>2, <2>3, <2>4, <2>5 DEF l
<1> QED BY <1>1, Invariance, PTL

\* A session that a logout (modules/account/handler.go) has ended does not come
\* back into the jar with the response of another tab.
THEOREM WebSessionLogoutFinal == Spec => []LogoutFinal
<1>1. IInv => LogoutFinal
  BY DEF IInv, NotEnded, LogoutFinal
<1> QED BY <1>1, Invariance, PTL

\* Service.Authenticate (modules/account/service.go) finds whoever was
\* registered, unless two registrations of the email raced.
THEOREM WebSessionCredentialsWork == Spec => []CredentialsWork
<1>1. IInv => CredentialsWork
  <2> SUFFICES ASSUME IInv, NEW n \in DOMAIN users, users[n].email \notin raced
               PROVE  Authenticate(users[n]) = n
    BY DEF CredentialsWork
  <2> DEFINE m == FindByEmail(users[n].email)
  <2>1. n \in 1..Len(users)
    BY LenProperties DEF IInv, TypeOK
  <2>2. m # None /\ m \in 1..Len(users) /\ users[m].email = users[n].email
    BY <2>1, FoundByEmail, NoneAssumption DEF IInv
  <2> HIDE DEF m
  <2>3. m = n
    BY <2>1, <2>2 DEF IInv, Unique
  <2> QED BY <2>2, <2>3 DEF Authenticate, m
<1> QED BY <1>1, Invariance, PTL

\* No response to a request that no other one overlapped changes the CSRF token
\* (middleware/csrf.go) of a valid session, except by clearing the session.
THEOREM WebSessionTokenKept == Spec => TokenKept
<1> DEFINE Kept == \A t \in Tabs \ shared :
                      /\ pc[t] = "answered" /\ pc'[t] = "idle"
                      /\ Sent # None /\ Decode(Sent) # None /\ jar' # None
                      => jar'.sess.csrf = jar.sess.csrf
<1>1. IInv /\ [Next]_vars => [Kept]_vars
  <2> SUFFICES ASSUME IInv, [Next]_vars, NEW t \in Tabs, t \notin shared,
                      pc[t] = "answered", pc'[t] = "idle",
                      Sent # None, Decode(Sent) # None, jar' # None
               PROVE  jar'.sess.csrf = jar.sess.csrf
    OBVIOUS
  <2>1. pc \in [Tabs -> {"idle", "handler", "checked", "created", "answered"}]
    BY DEF IInv, TypeOK
  <2>2. Deliver(t)
    <3>1. pc' # pc
      OBVIOUS
    <3>2. PICK u \in Tabs : TabStep(u)
      BY <3>1 DEF Next, Restart, Tick, vars
    <3>3. CASE Deliver(u)
      <4>1. pc' = [pc EXCEPT ![u] = "idle"]
        BY <3>3 DEF Deliver
      <4>2. u = t
        BY <2>1, <4>1
      <4> QED BY <3>3, <4>2
    <3>4. CASE ~Deliver(u)
      <4>1. \E x \in {"handler", "checked", "created", "answered"} : pc' = [pc EXCEPT ![u] = x]
        BY <3>2, <3>4 DEF TabStep, Request, Show, Login, RegisterCheck, RegisterCreate,
                          Register, Logout, Remember
      <4> QED BY <2>1, <4>1
    <3> QED BY <3>3, <3>4
  <2>3. JarValid
    <3>1. Sent = jar /\ jar # None /\ (jar.until = 0 \/ now < jar.until) /\ jar \in Cookies
      BY DEF Sent, IInv, TypeOK
    <3>2. jar.sess.expires \in Nat /\ now \in Nat
      BY <3>1, DataFields DEF Cookies, IInv, TypeOK
    <3>3. ~(jar.sess.expires # 0 /\ now > jar.sess.expires)
      BY <3>1 DEF Decode
    <3> QED BY <3>1, <3>2, <3>3 DEF JarValid
  <2>4. sess[t].data.csrf = jar.sess.csrf
    BY <2>3 DEF IInv, Solo
  <2> QED BY <2>2, <2>4, Received
<1> QED BY <1>1, Invariance, PTL DEF Spec, TokenKept
=============================================================================
