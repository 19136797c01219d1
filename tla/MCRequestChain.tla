--------------------------- MODULE MCRequestChain ---------------------------
(* Families of requests for TLC.  Requests of different families share no     *)
(* state, so each behaviour is of one family.                                 *)
EXTENDS RequestChain, TLC

CONSTANTS s1, s2, u1

Request(route, method, hdrs, auth, origin, cookie, tok, fault) ==
    [route |-> route, method |-> method, hdrs |-> hdrs, auth |-> auth, origin |-> origin,
     cookie |-> cookie, tok |-> tok, fault |-> fault]

Cookie(user, csrf) == [user |-> user, csrf |-> csrf, val |-> "old"]

\* With or without the session's token in the request.
Browsers == {<<None, FALSE>>, <<Cookie(u1, FALSE), FALSE>>, <<Cookie(u1, FALSE), TRUE>>,
             <<Cookie(u1, TRUE), FALSE>>, <<Cookie(u1, TRUE), TRUE>>, <<Cookie(None, TRUE), TRUE>>}
MyTab == <<Cookie(u1, TRUE), TRUE>>

AllComplete == [p \in Pages |-> "complete"]

\* Every combination of headers, one request at a time.
Combined ==
    [parallel |-> 1, files |-> {AllComplete}, reload |-> FALSE, edits |-> 0, time |-> 0,
     requests |->
       {Request(r, m, h, a, o, b[1], b[2], "none") :
            r \in {"profile", "apiMe", "admin", "logout", "register", "nowhere"},
            m \in {"GET", "POST", "OPTIONS"},
            h \in {{}, {"json"}, {"acceptJson"}, {"acceptJson", "acceptHtml"}, {"xhr"}},
            a \in {"none", "other", "bearer"},
            o \in {"none", "ours", "other"},
            b \in Browsers}
       \cup {Request(r, "POST", h, "none", "ours", b[1], b[2], f) :
            r \in {"logout", "admin"}, h \in {{}, {"xhr"}}, b \in Browsers,
            f \in {"limited", "finder"}}]

\* A handler that does anything, for clients with and without a session.
Handlers ==
    [parallel |-> 1, files |-> {AllComplete}, reload |-> FALSE, edits |-> 0, time |-> 0,
     requests |->
       {Request("app", m, h, "none", "none", b[1], b[2], "none") :
            m \in {"GET", "POST"}, h \in {{}, {"xhr"}}, b \in {MyTab, <<None, FALSE>>}}]

\* Two requests for a page whose file is of any kind and is edited once.
Page(reload) ==
    [parallel |-> 2, files |-> {[AllComplete EXCEPT !["login"] = k] : k \in Kinds},
     reload |-> reload, edits |-> 1, time |-> 0,
     requests |-> {Request("login", m, {}, "none", "none", MyTab[1], MyTab[2], "none") :
                      m \in {"GET", "POST"}}]

\* Tokens are issued, used and expire while the role comes and goes.
Roles ==
    [parallel |-> 1, files |-> {AllComplete}, reload |-> FALSE, edits |-> 0, time |-> 2,
     requests |-> {Request("apiLogin", "POST", {"json"}, "none", "none", None, FALSE, "none"),
                   Request("apiMe", "GET", {}, "bearer", "none", None, FALSE, "none"),
                   Request("admin", "POST", {}, "bearer", "none", None, FALSE, "none"),
                   Request("admin", "POST", {}, "none", "none", MyTab[1], MyTab[2], "none")}]

Families == [headers |-> Combined, handlers |-> Handlers, reloaded |-> Page(TRUE),
             cached |-> Page(FALSE), roles |-> Roles]

\* The goroutines of net/http are interchangeable.
Symmetry == Permutations(Slots)
=============================================================================
