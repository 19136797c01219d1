---------------------------- MODULE ServerProofs ----------------------------
(* Proofs about the process that serves: RateLimiter, for any number of IPs   *)
(* and requests, any rate, burst and eviction period that LimiterAssumption   *)
(* allows, and Lifecycle, for any number of modules, hooks and requests,      *)
(* with and without a database.  The two share no state.                      *)
(*                                                                            *)
(* RateLimiter: neither OneBucket nor the refinement is inductive by itself.  *)
(* OneBucket needs to know that an entry with a request in flight was seen    *)
(* too recently to be evicted (Recent); the refinement needs that a bucket    *)
(* was last counted at most MaxStall after its entry was last seen            *)
(* (Refilled), so that it is full when its entry goes, and that IPs do not    *)
(* share one (Distinct).                                                      *)
(*                                                                            *)
(* Lifecycle: main is a sequential program, so the invariant says at each     *)
(* place of main what has happened before: which hooks the two loops have     *)
(* called, who may still run, and what was waited for unless the deadline     *)
(* came first.                                                                *)
EXTENDS RateLimiter, Lifecycle, TLAPS

Buckets == [tokens : 0..Burst, last : Nat]

TypeOK ==
    /\ limiters \in [IPs -> Limiters \cup {None}]
    /\ lastSeen \in [IPs -> Nat]
    /\ bucket \in [Limiters -> Buckets]
    /\ now \in Nat /\ lastCleanup \in Nat /\ requests \in Nat
    /\ ptr \in [Requests -> Limiters \cup {None}]
    /\ from \in [Requests -> IPs]
    /\ since \in [Requests -> Nat]
    /\ answer \in [Requests -> {"none", "allowed", "denied"}]

\* The clock is ahead of every time that was noted.
Past ==
    /\ \A l \in Limiters : bucket[l].last <= now
    /\ \A ip \in IPs : lastSeen[ip] <= now

\* A request in flight came at most MaxStall ago, and its entry was seen then or
\* later.
Recent ==
    \A r \in Requests : InFlight(r) =>
        /\ since[r] <= lastSeen[from[r]]
        /\ now <= since[r] + MaxStall

\* The bucket of an entry was counted at most MaxStall after the entry was seen.
Refilled ==
    \A ip \in IPs : limiters[ip] # None =>
        bucket[limiters[ip]].last <= lastSeen[ip] + MaxStall

Distinct ==
    \A x, y \in IPs : limiters[x] # None /\ limiters[x] = limiters[y] => x = y

IInv == TypeOK /\ Past /\ Recent /\ Refilled /\ Distinct /\ OneBucket
-----------------------------------------------------------------------------
(* Operators *)

\* One more unit of time refills Rate more tokens.
LEMMA RefillStep ==
    ASSUME NEW d \in Int
    PROVE  Rate * (d + 1) = Rate * d + Rate
<1>1. Rate \in Int
  BY LimiterAssumption
<1> QED BY <1>1

\* Refill grows with time.
LEMMA RefillMonotonic ==
    ASSUME NEW a \in Int, NEW b \in Int, a <= b
    PROVE  Rate * a <= Rate * b
<1>1. Rate \in Nat
  BY LimiterAssumption
<1>2. PICK d \in Nat : b = a + d
  <2>1. b - a \in Nat /\ b = a + (b - a)
    OBVIOUS
  <2> QED BY <2>1
<1>3. Rate * b = Rate * a + Rate * d
  BY <1>1, <1>2, Z3
<1>4. Rate * d \in Nat
  BY <1>1, <1>2
<1> QED BY <1>1, <1>2, <1>3, <1>4

\* What Tokens returns lies between nothing and Burst.
LEMMA TokensInBurst ==
    ASSUME TypeOK, Past, NEW l \in Limiters
    PROVE  /\ Rate * (now - bucket[l].last) \in Nat
           /\ Tokens(bucket[l]) \in 0..Burst
<1>1. /\ Rate \in Nat /\ Burst \in Nat
      /\ bucket[l].tokens \in 0..Burst /\ bucket[l].last \in Nat
      /\ now - bucket[l].last \in Nat
  BY LimiterAssumption DEF TypeOK, Past, Buckets
<1>2. Rate * (now - bucket[l].last) \in Nat
  BY <1>1
<1> QED BY <1>1, <1>2 DEF Tokens

\* A bucket that was counted CleanupAfter - MaxStall ago, or earlier, is full.
LEMMA IdleIsFull ==
    ASSUME TypeOK, Past, NEW l \in Limiters,
           now - bucket[l].last >= CleanupAfter - MaxStall
    PROVE  Tokens(bucket[l]) = Burst
<1>1. /\ Rate \in Nat /\ Burst \in Nat /\ CleanupAfter \in Nat /\ MaxStall \in Nat
      /\ Burst <= Rate * (CleanupAfter - MaxStall)
      /\ bucket[l].tokens \in 0..Burst /\ bucket[l].last \in Nat /\ now \in Nat
  BY LimiterAssumption DEF TypeOK, Buckets
<1>2. Rate * (CleanupAfter - MaxStall) <= Rate * (now - bucket[l].last)
  BY <1>1, RefillMonotonic
<1>3. /\ Rate * (CleanupAfter - MaxStall) \in Int
      /\ Rate * (now - bucket[l].last) \in Int
  BY <1>1
<1>4. bucket[l].tokens + Rate * (now - bucket[l].last) >= Burst
  BY <1>1, <1>2, <1>3
<1> QED BY <1>1, <1>3, <1>4 DEF Tokens

\* An entry that may be evicted has a full bucket and no request in flight.
LEMMA StaleIsIdle ==
    ASSUME IInv, NEW ip \in IPs, ip \in Stale
    PROVE  /\ limiters[ip] \in Limiters
           /\ Tokens(bucket[limiters[ip]]) = Burst
           /\ \A r \in Requests : InFlight(r) => from[r] # ip
<1>1. /\ limiters[ip] \in Limiters
      /\ now - lastSeen[ip] > CleanupAfter
      /\ now \in Nat /\ lastSeen[ip] \in Nat
  BY DEF IInv, TypeOK, Stale
<1>2. CleanupAfter \in Nat /\ MaxStall \in Nat /\ MaxStall <= CleanupAfter
  BY LimiterAssumption
<1>3. /\ bucket[limiters[ip]].last \in Nat
      /\ bucket[limiters[ip]].last <= lastSeen[ip] + MaxStall
  BY <1>1, LimiterAssumption DEF IInv, TypeOK, Refilled, Buckets
<1>4. Tokens(bucket[limiters[ip]]) = Burst
  BY <1>1, <1>2, <1>3, IdleIsFull DEF IInv
<1>5. ASSUME NEW r \in Requests, InFlight(r), from[r] = ip
      PROVE  FALSE
  <2>1. since[r] \in Nat /\ since[r] <= lastSeen[ip] /\ now <= since[r] + MaxStall
    BY <1>5 DEF IInv, TypeOK, Recent
  <2> QED BY <1>1, <1>2, <2>1
<1> QED BY <1>1, <1>4, <1>5
-----------------------------------------------------------------------------
(* The invariant *)

LEMMA InitInv == Init => IInv
<1> SUFFICES ASSUME Init PROVE IInv
  OBVIOUS
<1>1. (CHOOSE ip \in IPs : TRUE) \in IPs
  BY LimiterAssumption
<1>2. TypeOK
  BY <1>1, LimiterAssumption DEF Init, TypeOK, Buckets
<1>3. Past
  BY DEF Init, Past
<1> QED
  BY <1>2, <1>3 DEF Init, IInv, Recent, Refilled, Distinct, OneBucket, InFlight

\* What getLimiter does to the map: it forgets stale entries, none of which has
\* a request in flight, and then has one for ip, the old one or a new one.
LEMMA GetLimiterMap ==
    ASSUME IInv, NEW r \in Requests, NEW ip \in IPs, getLimiter(r, ip)
    PROVE  /\ limiters' \in [IPs -> Limiters \cup {None}]
           /\ limiters'[ip] \in Limiters
           /\ ptr' = [ptr EXCEPT ![r] = limiters'[ip]]
           /\ \A x \in IPs \ {ip} :
                 limiters'[x] = limiters[x] \/ (limiters'[x] = None /\ x \in Stale)
           /\ \/ limiters'[ip] = limiters[ip] /\ bucket' = bucket
              \/ /\ Unused(limiters'[ip])
                 /\ bucket' = [bucket EXCEPT ![limiters'[ip]] = [tokens |-> Burst, last |-> now]]
                 /\ limiters[ip] = None \/ ip \in Stale
<1> DEFINE count == (requests + 1) % CleanupEvery
           kept  == [x \in IPs |-> IF count = 0 /\ x \in Stale THEN None ELSE limiters[x]]
<1>1. /\ limiters \in [IPs -> Limiters \cup {None}]
      /\ None \notin Limiters
  BY LimiterAssumption DEF IInv, TypeOK
<1>2. /\ kept \in [IPs -> Limiters \cup {None}]
      /\ \A x \in IPs : kept[x] = limiters[x] \/ (kept[x] = None /\ x \in Stale)
  BY <1>1
<1>3. CASE kept[ip] # None /\ limiters' = kept /\ ptr' = [ptr EXCEPT ![r] = kept[ip]]
           /\ UNCHANGED bucket
  BY <1>1, <1>2, <1>3
<1>4. CASE /\ kept[ip] = None
           /\ \E l \in Limiters :
                /\ NewLimiter(l)
                /\ limiters' = [kept EXCEPT ![ip] = l] /\ ptr' = [ptr EXCEPT ![r] = l]
                /\ bucket' = [bucket EXCEPT ![l] = [tokens |-> Burst, last |-> now]]
  <2>1. PICK l \in Limiters :
                /\ NewLimiter(l)
                /\ limiters' = [kept EXCEPT ![ip] = l] /\ ptr' = [ptr EXCEPT ![r] = l]
                /\ bucket' = [bucket EXCEPT ![l] = [tokens |-> Burst, last |-> now]]
    BY <1>4
  <2>2. limiters'[ip] = l /\ \A x \in IPs \ {ip} : limiters'[x] = kept[x]
    BY <1>2, <2>1
  <2>3. limiters' \in [IPs -> Limiters \cup {None}]
    BY <1>2, <2>1
  <2>4. limiters[ip] = None \/ ip \in Stale
    BY <1>2, <1>4
  <2> HIDE DEF kept
  <2> QED BY <1>2, <2>1, <2>2, <2>3, <2>4 DEF NewLimiter
<1> QED BY <1>3, <1>4 DEF getLimiter

LEMMA GetLimiterInv ==
    ASSUME IInv, NEW r \in Requests, NEW ip \in IPs, getLimiter(r, ip)
    PROVE  IInv'
<1>1. /\ TypeOK /\ Past /\ Recent /\ Refilled /\ Distinct /\ OneBucket
      /\ None \notin Limiters /\ Burst \in Nat /\ MaxStall \in Nat
      /\ CleanupEvery \in Nat \ {0}
  BY LimiterAssumption DEF IInv
<1>2. /\ ~InFlight(r) /\ now' = now
      /\ lastSeen' = [lastSeen EXCEPT ![ip] = now]
      /\ from' = [from EXCEPT ![r] = ip]
      /\ since' = [since EXCEPT ![r] = now]
      /\ answer' = [answer EXCEPT ![r] = "none"]
      /\ requests' = (requests + 1) % CleanupEvery
      /\ lastCleanup' \in {now, lastCleanup}
  BY DEF getLimiter
<1>3. bucket' \in [Limiters -> Buckets] /\ \A l \in Limiters :
         bucket'[l] = bucket[l] \/ (l = limiters'[ip] /\ bucket'[l].last = now /\ Unused(l))
  <2> DEFINE full == [tokens |-> Burst, last |-> now]
  <2>1. full \in Buckets /\ full.last = now
    BY <1>1 DEF TypeOK, Buckets
  <2>2. CASE bucket' = bucket
    BY <1>1, <2>2 DEF TypeOK
  <2>3. CASE /\ Unused(limiters'[ip])
             /\ bucket' = [bucket EXCEPT ![limiters'[ip]] = full]
    <3> HIDE DEF full
    <3> QED BY <1>1, <2>1, <2>3 DEF TypeOK
  <2> QED BY <2>2, <2>3, GetLimiterMap
<1>4. TypeOK'
  BY <1>1, <1>2, <1>3, GetLimiterMap DEF TypeOK
<1>5. Past'
  BY <1>1, <1>2, <1>3 DEF TypeOK, Past
<1>6. Recent'
  BY <1>1, <1>2, GetLimiterMap DEF TypeOK, Past, Recent, InFlight
<1>7. ASSUME NEW x \in IPs, limiters'[x] # None
      PROVE  bucket'[limiters'[x]].last <= lastSeen'[x] + MaxStall
  <2>1. CASE x = ip
    BY <1>1, <1>2, <1>3, <2>1, GetLimiterMap DEF TypeOK, Past, Buckets
  <2>2. CASE x # ip
    <3>1. limiters'[x] = limiters[x] /\ limiters[x] \in Limiters /\ ~Unused(limiters[x])
      BY <1>1, <1>7, <2>2, GetLimiterMap DEF TypeOK, Unused
    <3>2. bucket'[limiters[x]] = bucket[limiters[x]]
      BY <1>3, <3>1
    <3> QED BY <1>1, <1>2, <2>2, <3>1, <3>2 DEF TypeOK, Refilled
  <2> QED BY <2>1, <2>2
<1>8. Refilled'
  BY <1>7, <1>2 DEF Refilled
<1>9. Distinct'
  BY <1>1, GetLimiterMap DEF Distinct, Unused, TypeOK
<1>10. ASSUME NEW q \in Requests, InFlight(q)'
       PROVE  limiters'[from'[q]] = ptr'[q]
  <2>1. CASE q = r
    BY <1>1, <1>2, <2>1, GetLimiterMap DEF TypeOK
  <2>2. CASE q # r
    <3>1. /\ from'[q] = from[q] /\ ptr'[q] = ptr[q] /\ InFlight(q)
          /\ from[q] \in IPs /\ limiters[from[q]] = ptr[q]
      BY <1>1, <1>2, <1>10, <2>2, GetLimiterMap DEF TypeOK, InFlight, OneBucket
    <3>2. from[q] \notin Stale /\ limiters[from[q]] # None
      BY <3>1, StaleIsIdle DEF InFlight
    <3>3. limiters'[from[q]] = limiters[from[q]]
      BY <3>1, <3>2, GetLimiterMap
    <3> QED BY <3>1, <3>3
  <2> QED BY <2>1, <2>2
<1>11. OneBucket'
  BY <1>10 DEF OneBucket
<1> QED BY <1>4, <1>5, <1>6, <1>8, <1>9, <1>11 DEF IInv

\* What Allow does to the bucket: it counts it and takes a token, or nothing.
LEMMA AllowBucket ==
    ASSUME IInv, NEW r \in Requests, Allow(r)
    PROVE  /\ ptr[r] \in Limiters /\ limiters[from[r]] = ptr[r] /\ from[r] \in IPs
           /\ bucket' \in [Limiters -> Buckets]
           /\ \A l \in Limiters \ {ptr[r]} : bucket'[l] = bucket[l]
           /\ \/ /\ Tokens(bucket[ptr[r]]) >= 1
                 /\ bucket'[ptr[r]] = [tokens |-> Tokens(bucket[ptr[r]]) - 1, last |-> now]
                 /\ answer' = [answer EXCEPT ![r] = "allowed"]
              \/ /\ Tokens(bucket[ptr[r]]) < 1
                 /\ bucket' = bucket
                 /\ answer' = [answer EXCEPT ![r] = "denied"]
<1>1. /\ ptr[r] \in Limiters /\ limiters[from[r]] = ptr[r] /\ from[r] \in IPs
      /\ bucket \in [Limiters -> Buckets] /\ now \in Nat /\ Burst \in Nat
  BY LimiterAssumption DEF IInv, TypeOK, Allow, InFlight, OneBucket
<1>2. Tokens(bucket[ptr[r]]) \in 0..Burst
  BY <1>1, TokensInBurst DEF IInv
<1> DEFINE taken == [tokens |-> Tokens(bucket[ptr[r]]) - 1, last |-> now]
<1>3. CASE /\ Tokens(bucket[ptr[r]]) >= 1
           /\ bucket' = [bucket EXCEPT ![ptr[r]] = taken]
           /\ answer' = [answer EXCEPT ![r] = "allowed"]
  <2>1. taken \in Buckets
    BY <1>1, <1>2, <1>3 DEF Buckets
  <2> HIDE DEF taken
  <2>2. bucket' \in [Limiters -> Buckets] /\ bucket'[ptr[r]] = taken
    BY <1>1, <1>3, <2>1
  <2>3. \A l \in Limiters \ {ptr[r]} : bucket'[l] = bucket[l]
    BY <1>1, <1>3
  <2> QED BY <1>1, <1>3, <2>2, <2>3 DEF taken
<1>4. CASE /\ Tokens(bucket[ptr[r]]) < 1
           /\ bucket' = bucket
           /\ answer' = [answer EXCEPT ![r] = "denied"]
  BY <1>1, <1>4
<1> QED BY <1>3, <1>4 DEF Allow

LEMMA AllowInv ==
    ASSUME IInv, NEW r \in Requests, Allow(r)
    PROVE  IInv'
<1>1. /\ TypeOK /\ Past /\ Recent /\ Refilled /\ Distinct /\ OneBucket
      /\ None \notin Limiters /\ MaxStall \in Nat
  BY LimiterAssumption DEF IInv
<1>2. /\ InFlight(r)
      /\ ptr' = [ptr EXCEPT ![r] = None]
      /\ since' = [since EXCEPT ![r] = 0]
      /\ UNCHANGED <<mapVars, now, from>>
      /\ answer' = [answer EXCEPT ![r] = "allowed"] \/ answer' = [answer EXCEPT ![r] = "denied"]
  BY DEF Allow
<1>3. \A l \in Limiters : bucket'[l].last = bucket[l].last \/ (l = ptr[r] /\ bucket'[l].last = now)
  <2>1. CASE bucket'[ptr[r]] = [tokens |-> Tokens(bucket[ptr[r]]) - 1, last |-> now]
    <3>1. bucket'[ptr[r]].last = now
      BY <2>1
    <3> QED BY <3>1, AllowBucket
  <2>2. CASE bucket' = bucket
    BY <2>2
  <2> QED BY <2>1, <2>2, AllowBucket
<1>4. TypeOK'
  BY <1>1, <1>2, AllowBucket DEF TypeOK, mapVars
<1>5. Past'
  BY <1>1, <1>2, <1>3 DEF TypeOK, Past, mapVars
<1>6. Recent'
  BY <1>1, <1>2 DEF TypeOK, Recent, InFlight, mapVars
<1>7. now <= lastSeen[from[r]] + MaxStall
  BY <1>1, <1>2 DEF TypeOK, Recent
<1>8. Refilled'
  <2> SUFFICES ASSUME NEW x \in IPs, limiters[x] # None
               PROVE  bucket'[limiters[x]].last <= lastSeen[x] + MaxStall
    BY <1>2 DEF Refilled, mapVars
  <2>1. CASE limiters[x] = ptr[r]
    <3>1. x = from[r]
      BY <1>1, <2>1, AllowBucket DEF Distinct
    <3> QED BY <1>1, <1>3, <1>7, <3>1 DEF Refilled, TypeOK
  <2>2. CASE limiters[x] # ptr[r]
    BY <1>1, <1>3, <2>2 DEF Refilled, TypeOK
  <2> QED BY <2>1, <2>2
<1>9. Distinct' /\ OneBucket'
  BY <1>1, <1>2 DEF TypeOK, Distinct, OneBucket, InFlight, mapVars
<1> QED BY <1>4, <1>5, <1>6, <1>8, <1>9 DEF IInv

LEMMA TickInv ==
    ASSUME IInv, Tick
    PROVE  IInv'
<1>1. MaxStall \in Nat
  BY LimiterAssumption
<1>2. TypeOK'
  BY DEF IInv, TypeOK, Tick, mapVars, reqVars
<1>3. Past'
  BY DEF IInv, TypeOK, Buckets, Past, Tick, mapVars, reqVars
<1>4. Recent'
  BY <1>1 DEF IInv, TypeOK, Recent, InFlight, Tick, mapVars, reqVars
<1>5. Refilled' /\ Distinct' /\ OneBucket'
  BY DEF IInv, Refilled, Distinct, OneBucket, InFlight, Tick, mapVars, reqVars
<1> QED BY <1>2, <1>3, <1>4, <1>5 DEF IInv

LEMMA NextInv == IInv /\ [Next]_vars => IInv'
<1> SUFFICES ASSUME IInv, [Next]_vars PROVE IInv'
  OBVIOUS
<1>1. CASE \E r \in Requests, ip \in IPs : getLimiter(r, ip)
  BY <1>1, GetLimiterInv
<1>2. CASE \E r \in Requests : Allow(r)
  BY <1>2, AllowInv
<1>3. CASE Tick
  BY <1>3, TickInv
<1>4. CASE UNCHANGED vars
  BY <1>4 DEF vars, mapVars, reqVars, IInv, TypeOK, Past, Recent, Refilled, Distinct,
              OneBucket, InFlight
<1> QED BY <1>1, <1>2, <1>3, <1>4 DEF Next

LEMMA Invariance == Spec => []IInv
  BY InitInv, NextInv, PTL DEF Spec

\* Between getLimiter and Allow (rate_limit.go:77-80) the entry of the request's
\* IP is neither evicted nor replaced: no IP ever has two buckets in use.
THEOREM RateLimiterOneBucket == Spec => []OneBucket
<1>1. IInv => OneBucket
  BY DEF IInv
<1> QED BY <1>1, Invariance, PTL
-----------------------------------------------------------------------------
(* The refinement *)

LEMMA InitRefines == Init => Ideal!Init
  BY DEF Init, Level, Ideal!Init

\* getLimiter leaves every level as it is: what it evicts is full, and what it
\* makes is full.
LEMMA GetLimiterRefines ==
    ASSUME IInv, NEW r \in Requests, NEW ip \in IPs, getLimiter(r, ip)
    PROVE  Ideal!Arrive(r)
<1>1. /\ TypeOK /\ Past /\ Distinct /\ None \notin Limiters /\ now' = now
      /\ Rate \in Nat /\ Burst \in Nat /\ now \in Nat
      /\ answer' = [answer EXCEPT ![r] = "none"]
  BY LimiterAssumption DEF IInv, TypeOK, getLimiter
<1>2. ASSUME NEW x \in IPs
      PROVE  Level'[x] = Level[x]
  <2>1. CASE limiters'[x] = limiters[x] /\ (limiters[x] = None \/ bucket'[limiters[x]] = bucket[limiters[x]])
    BY <1>1, <2>1 DEF Level, Tokens
  <2>2. CASE limiters'[x] = None /\ x \in Stale
    BY <2>2, <1>1, StaleIsIdle DEF Level
  <2>3. CASE /\ x = ip /\ limiters'[x] \in Limiters
             /\ bucket'[limiters'[x]] = [tokens |-> Burst, last |-> now]
             /\ limiters[x] = None \/ x \in Stale
    <3>1. Level[x] = Burst
      BY <1>1, <2>3, StaleIsIdle DEF Level
    <3> QED BY <1>1, <2>3, <3>1 DEF Level, Tokens
  <2>4. x # ip /\ limiters'[x] = limiters[x] /\ limiters[x] # None =>
           bucket'[limiters[x]] = bucket[limiters[x]]
    BY <1>1, GetLimiterMap DEF TypeOK, Unused
  <2> QED BY <1>1, <2>1, <2>2, <2>3, <2>4, GetLimiterMap DEF TypeOK
<1>3. Level' = Level
  BY <1>2 DEF Level
<1> QED BY <1>1, <1>3 DEF Ideal!Arrive

\* Allow decides as the bucket of the request's IP would.
LEMMA AllowRefines ==
    ASSUME IInv, NEW r \in Requests, Allow(r)
    PROVE  Ideal!Decide(r, from[r])
<1> DEFINE l == ptr[r]
           ip == from[r]
<1>1. /\ TypeOK /\ Past /\ Distinct /\ None \notin Limiters /\ now' = now
      /\ limiters' = limiters /\ Rate \in Nat /\ Burst \in Nat /\ now \in Nat
  BY LimiterAssumption DEF IInv, TypeOK, Allow, mapVars
<1>2. l \in Limiters /\ limiters[ip] = l /\ ip \in IPs
  BY AllowBucket
<1>3. Level[ip] = Tokens(bucket[l]) /\ Tokens(bucket[l]) \in 0..Burst
  BY <1>1, <1>2, TokensInBurst DEF Level
<1>4. \A x \in IPs \ {ip} : Level'[x] = Level[x]
  <2> SUFFICES ASSUME NEW x \in IPs \ {ip} PROVE Level'[x] = Level[x]
    OBVIOUS
  <2>1. limiters[x] # None => limiters[x] \in Limiters \ {l}
    BY <1>1, <1>2 DEF TypeOK, Distinct
  <2> QED BY <1>1, <2>1, AllowBucket DEF Level, Tokens
<1>5. CASE /\ Tokens(bucket[l]) >= 1
           /\ bucket'[l] = [tokens |-> Tokens(bucket[l]) - 1, last |-> now]
           /\ answer' = [answer EXCEPT ![r] = "allowed"]
  <2>1. Level'[ip] = Level[ip] - 1
    BY <1>1, <1>2, <1>3, <1>5 DEF Level, Tokens
  <2>2. Level' = [Level EXCEPT ![ip] = @ - 1]
    BY <1>2, <1>4, <2>1 DEF Level
  <2> QED BY <1>3, <1>5, <2>2 DEF Ideal!Decide
<1>6. CASE /\ Tokens(bucket[l]) < 1
           /\ bucket' = bucket
           /\ answer' = [answer EXCEPT ![r] = "denied"]
  <2>1. Level' = Level
    BY <1>1, <1>6 DEF Level, Tokens
  <2> QED BY <1>3, <1>6, <2>1 DEF Ideal!Decide
<1> QED BY <1>5, <1>6, AllowBucket

\* A unit of time refills every bucket, those without an entry included.
LEMMA TickRefines ==
    ASSUME IInv, Tick
    PROVE  Ideal!Refill
<1>1. /\ TypeOK /\ Past /\ now' = now + 1 /\ limiters' = limiters /\ bucket' = bucket
      /\ answer' = answer /\ Rate \in Nat /\ Burst \in Nat /\ now \in Nat
      /\ None \notin Limiters
  BY LimiterAssumption DEF IInv, TypeOK, Tick, mapVars
<1>2. ASSUME NEW x \in IPs
      PROVE  Level'[x] = IF Level[x] + Rate > Burst THEN Burst ELSE Level[x] + Rate
  <2>1. CASE limiters[x] = None
    BY <1>1, <2>1 DEF Level
  <2>2. CASE limiters[x] \in Limiters
    <3> DEFINE b == bucket[limiters[x]]
    <3>1. b.tokens \in 0..Burst /\ b.last \in Nat /\ b.last <= now
      BY <1>1, <2>2 DEF TypeOK, Past, Buckets
    <3> DEFINE before == Rate * (now - b.last)
               after  == Rate * (now' - b.last)
    <3>2. before \in Nat
      BY <1>1, <2>2, TokensInBurst
    <3>3. after = before + Rate
      <4>1. now - b.last \in Int /\ now' - b.last = (now - b.last) + 1
        BY <1>1, <3>1
      <4> HIDE DEF b
      <4> QED BY <4>1, RefillStep
    <3>4. Level[x] = IF b.tokens + before > Burst THEN Burst ELSE b.tokens + before
      BY <1>1, <2>2 DEF Level, Tokens
    <3>5. Level'[x] = IF b.tokens + after > Burst THEN Burst ELSE b.tokens + after
      <4>1. Level'[x] = Tokens(bucket[limiters[x]])'
        BY <1>1, <2>2 DEF Level
      <4> QED BY <1>1, <4>1 DEF Tokens
    <3> HIDE DEF b, before, after
    <3> QED BY <1>1, <3>1, <3>2, <3>3, <3>4, <3>5
  <2> QED BY <1>1, <2>1, <2>2 DEF TypeOK
<1> QED BY <1>1, <1>2 DEF Level, Ideal!Refill

\* The rate limiter with its map, its eviction and the gap between getLimiter and
\* Allow (rate_limit.go:59-130) implements buckets that are never forgotten.
THEOREM RateLimiterImplementsTokenBuckets == Spec => ImplementsTokenBuckets
<1>1. IInv /\ [Next]_vars => [Ideal!Next]_Ideal!vars
  <2> SUFFICES ASSUME IInv, [Next]_vars PROVE [Ideal!Next]_Ideal!vars
    OBVIOUS
  <2>1. CASE \E r \in Requests, ip \in IPs : getLimiter(r, ip)
    BY <2>1, GetLimiterRefines DEF Ideal!Next
  <2>2. ASSUME NEW r \in Requests, Allow(r) PROVE Ideal!Next
    BY <2>2, AllowRefines, AllowBucket DEF Ideal!Next
  <2>3. CASE Tick
    BY <2>3, TickRefines DEF Ideal!Next
  <2>4. CASE UNCHANGED vars
    BY <2>4 DEF vars, mapVars, Level, Tokens, Ideal!vars
  <2> QED BY <2>1, <2>2, <2>3, <2>4 DEF Next
<1> QED BY <1>1, InitRefines, Invariance, PTL DEF Spec, ImplementsTokenBuckets, Ideal!Spec
-----------------------------------------------------------------------------
(* The life of the process *)

\* Main before App.Shutdown, and after it.
Before == {"start", "serve", "scheduler", "worker"}
After  == {"server", "leader", "database", "returns", "done"}

LifeTypeOK ==
    /\ main \in Before \cup {"app", "exited"} \cup After
    /\ next \in Nat /\ started \subseteq 1..N
    /\ stops \in Seq(1..N) /\ failed \subseteq 1..N /\ appErr \in 0..N
    /\ interrupted \in BOOLEAN /\ expired \in BOOLEAN /\ working \in BOOLEAN
    /\ server \in {"off", "starting", "listening", "closed"}
    /\ request \in [Clients -> {"none", "active", "done"}]
    /\ workers \in {"off", "running", "exited"}
    /\ database \in {"open", "closed"}

\* The loop of App.Start has called the hooks before next; nothing serves yet.
StartLoop ==
    /\ main = "start" => /\ server = "off" /\ workers = "off" /\ ~working
                         /\ {m \in Starters : m < next} \subseteq started
    /\ main \notin {"start", "exited"} \/ server # "off" \/ workers # "off" \/ working
          => Starters \subseteq started

\* The modules below k were stopped, in order, and the first error was kept.
StoppedBelow(k) ==
    /\ \A m \in Stoppers : m < k => m \in ToSet(stops)
    /\ \A i \in DOMAIN stops : stops[i] \in Stoppers /\ stops[i] < k
    /\ \A i, j \in DOMAIN stops : i < j => stops[i] < stops[j]
    /\ failed = {} => appErr = 0
    /\ \A m \in failed : m \in Stoppers /\ m < k
    /\ failed # {} => appErr \in failed /\ \A m \in failed : appErr <= m

\* The loop of App.Shutdown, and that the server is closed after it.
StopLoop ==
    /\ main \in Before => stops = <<>> /\ failed = {} /\ appErr = 0
    /\ main = "app" => next >= 1 /\ StoppedBelow(next)
    /\ server = "closed" => StoppedBelow(N + 1)
    /\ server = "closed" <=> main \in After

\* What was waited for, unless the deadline came.
Waited ==
    /\ workers = "exited" => ~working
    /\ main \in {"app"} \cup After /\ ~expired => workers = "exited"
    /\ main \in After \ {"server"} /\ ~expired => Active = {}
    /\ UseDb /\ database = "closed" => main \in {"returns", "done"}

LifeInv == LifeTypeOK /\ StartLoop /\ StopLoop /\ Waited
-----------------------------------------------------------------------------
LEMMA LifeInit ==
    ASSUME LifecycleAssumption, ProcessInit
    PROVE  LifeInv
<1>1. LifeTypeOK
  <2>1. /\ main \in Before /\ next \in Nat /\ started \subseteq 1..N
        /\ stops \in Seq(1..N) /\ failed \subseteq 1..N /\ appErr \in 0..N
    BY DEF LifecycleAssumption, ProcessInit, Before
  <2>2. /\ interrupted \in BOOLEAN /\ expired \in BOOLEAN /\ working \in BOOLEAN
        /\ server = "off" /\ workers = "off"
        /\ request \in [Clients -> {"none", "active", "done"}]
        /\ database \in {"open", "closed"}
    BY Zenon DEF ProcessInit
  <2> QED BY <2>1, <2>2 DEF LifeTypeOK
<1>2. StartLoop
  <2>1. \A m \in Starters : ~(m < 1)
    BY DEF LifecycleAssumption
  <2>2. main = "start" /\ next = 1 /\ server = "off" /\ workers = "off" /\ ~working
    BY Zenon DEF ProcessInit
  <2> QED BY <2>1, <2>2 DEF StartLoop
<1>3. StopLoop /\ Waited
  BY DEF LifecycleAssumption, ProcessInit, StopLoop, Waited, Before, After
<1> QED BY <1>1, <1>2, <1>3 DEF LifeInv

\* App.Start's loop calls one more hook, or main exits.
LEMMA ModuleStartsStep ==
    ASSUME LifecycleAssumption, LifeInv, ModuleStarts
    PROVE  LifeInv'
<1> USE DEF ModuleStarts
<1>1. LifeTypeOK'
  <2>1. next' \in Nat /\ started' \subseteq 1..N
    <3>1. next \in Nat /\ started \subseteq 1..N /\ Starters \subseteq 1..N
      BY DEF LifeInv, LifeTypeOK, LifecycleAssumption
    <3>2. \/ next' = next + 1 /\ started' = started \cup ({next} \cap Starters)
          \/ next' = next /\ started' = started
      OBVIOUS
    <3>3. next' \in Nat
      BY <3>1, <3>2
    <3>4. started' \subseteq started \cup Starters
      BY <3>2, Zenon
    <3> QED BY <3>1, <3>3, <3>4
  <2>2. main' \in {"start", "exited"}
    OBVIOUS
  <2> QED BY <2>1, <2>2 DEF LifeInv, LifeTypeOK, Before
<1>2. StartLoop'
  <2>1. \A m \in Starters : m < next + 1 => m < next \/ m = next
    BY DEF LifeInv, LifeTypeOK, LifecycleAssumption
  <2>2. {m \in Starters : m < next'} \subseteq started' \/ main' = "exited"
    BY <2>1 DEF LifeInv, StartLoop
  <2>3. server' = "off" /\ workers' = "off" /\ ~working'
    BY DEF LifeInv, StartLoop
  <2> QED BY <2>2, <2>3 DEF StartLoop
<1>3. StopLoop' /\ Waited'
  BY DEF LifeInv, LifeTypeOK, StopLoop, StoppedBelow, Waited, Active, Before, After
<1> QED BY <1>1, <1>2, <1>3 DEF LifeInv


\* A step that leaves the errors and the order of the stops alone.
LEMMA StoppedFrame ==
    ASSUME UNCHANGED <<stops, failed, appErr>>
    PROVE  /\ next' = next => (StoppedBelow(next)' <=> StoppedBelow(next))
           /\ StoppedBelow(N + 1)' <=> StoppedBelow(N + 1)
BY DEF StoppedBelow

\* A step that changes neither main nor what the loops have done.
LEMMA LoopFrame ==
    ASSUME LifeInv, UNCHANGED <<stops, failed, appErr, next, started, server>>,
           main' = main
    PROVE  StopLoop'
<1>1. /\ StoppedBelow(next)' <=> StoppedBelow(next)
      /\ StoppedBelow(N + 1)' <=> StoppedBelow(N + 1)
  BY StoppedFrame
<1> QED BY <1>1 DEF LifeInv, StopLoop, Before, After

LEMMA EmptyStopped ==
    ASSUME LifecycleAssumption, stops = <<>>, failed = {}, appErr = 0
    PROVE  StoppedBelow(1)
<1>1. \A m \in Stoppers : ~(m < 1)
  BY DEF LifecycleAssumption
<1> QED BY <1>1 DEF StoppedBelow

\* Steps of main that touch none of the hooks.
LEMMA ServeStep ==
    ASSUME LifecycleAssumption, LifeInv, Serve
    PROVE  LifeInv'
<1> USE DEF Serve, appVars
<1>1. LifeTypeOK'
  BY DEF LifeInv, LifeTypeOK, Before
<1>2. StartLoop'
  BY DEF LifeInv, LifeTypeOK, StartLoop, LifecycleAssumption
<1>3. StopLoop' /\ Waited'
  BY DEF LifeInv, StopLoop, Waited, Active, Before, After
<1> QED BY <1>1, <1>2, <1>3 DEF LifeInv

LEMMA ShutdownBeginsStep ==
    ASSUME LifecycleAssumption, LifeInv, ShutdownBegins \/ SchedulerStopped
    PROVE  LifeInv'
<1> USE DEF ShutdownBegins, SchedulerStopped, appVars
<1>1. LifeTypeOK'
  BY DEF LifeInv, LifeTypeOK, Before
<1>2. StartLoop'
  BY DEF LifeInv, StartLoop
<1>3. StopLoop' /\ Waited'
  BY DEF LifeInv, StopLoop, Waited, Active, Before, After
<1> QED BY <1>1, <1>2, <1>3 DEF LifeInv

LEMMA WorkerStoppedStep ==
    ASSUME LifecycleAssumption, LifeInv, WorkerStopped
    PROVE  LifeInv'
<1> USE DEF WorkerStopped
<1>1. LifeTypeOK'
  BY DEF LifeInv, LifeTypeOK, Before
<1>2. StartLoop'
  BY DEF LifeInv, StartLoop
<1>3. StopLoop'
  <2>1. stops = <<>> /\ failed = {} /\ appErr = 0 /\ server # "closed"
    BY DEF LifeInv, StopLoop, Before, After
  <2>2. StoppedBelow(next)'
    BY <2>1, EmptyStopped DEF StoppedBelow
  <2> QED BY <2>1, <2>2 DEF StopLoop, Before, After
<1>4. Waited'
  BY DEF LifeInv, StopLoop, Waited, Active, Before, After
<1> QED BY <1>1, <1>2, <1>3, <1>4 DEF LifeInv

\* App.Shutdown's loop calls one more hook.
LEMMA ModuleStopsStep ==
    ASSUME LifecycleAssumption, LifeInv, ModuleStops
    PROVE  LifeInv'
<1>1. /\ main = "app" /\ next >= 1 /\ next <= N /\ next \in Nat /\ N \in Nat
      /\ StoppedBelow(next) /\ server # "closed" /\ next' = next + 1
      /\ stops \in Seq(1..N) /\ Stoppers \subseteq 1..N /\ failed \subseteq 1..N
      /\ appErr \in 0..N
  BY DEF LifeInv, LifeTypeOK, StopLoop, ModuleStops, After, LifecycleAssumption
<1>2. CASE next \notin Stoppers /\ UNCHANGED <<stops, failed, appErr>>
  <2>1. LifeTypeOK'
    BY <1>1, <1>2 DEF LifeInv, LifeTypeOK, ModuleStops, Before
  <2>2. StoppedBelow(next)'
    <3>1. \A m \in Stoppers : m < next + 1 => m < next
      BY <1>1, <1>2
    <3>2. \A m \in 1..N : m < next => m < next + 1
      BY <1>1
    <3> QED BY <1>1, <1>2, <3>1, <3>2 DEF StoppedBelow
  <2> QED BY <1>1, <2>1, <2>2 DEF LifeInv, ModuleStops, StartLoop, StopLoop, Waited, Active,
                                  Before, After
<1>3. CASE next \in Stoppers /\ stops' = Append(stops, next)
  <2>1. /\ stops' \in Seq(1..N) /\ Len(stops) \in Nat /\ Len(stops') = Len(stops) + 1
        /\ DOMAIN stops = 1..Len(stops) /\ DOMAIN stops' = 1..Len(stops) + 1
        /\ stops'[Len(stops) + 1] = next
        /\ \A i \in 1..Len(stops) : stops'[i] = stops[i]
    BY <1>1, <1>3
  <2>2. \/ failed' = failed /\ appErr' = appErr
        \/ failed' = failed \cup {next} /\ appErr' = IF appErr = 0 THEN next ELSE appErr
    BY <1>1, <1>3 DEF ModuleStops
  <2>3. LifeTypeOK'
    <3>1. failed' \subseteq 1..N /\ appErr' \in 0..N
      <4>1. next \in 1..N /\ next \in 0..N
        BY <1>1
      <4> QED BY <1>1, <2>2, <4>1
    <3> QED BY <1>1, <2>1, <3>1 DEF LifeInv, LifeTypeOK, ModuleStops, Before
  <2>4. \A m \in Stoppers : m < next + 1 => m \in ToSet(stops')
    <3>1. ToSet(stops') = {stops'[i] : i \in 1..Len(stops) + 1}
      BY <2>1 DEF ToSet
    <3>2. ToSet(stops) = {stops[i] : i \in 1..Len(stops)}
      BY <2>1 DEF ToSet
    <3>3. next \in ToSet(stops')
      BY <2>1, <3>1
    <3>4. ToSet(stops) \subseteq ToSet(stops')
      BY <2>1, <3>1, <3>2
    <3>5. \A m \in Stoppers : m < next + 1 => m < next \/ m = next
      BY <1>1
    <3> QED BY <1>1, <3>3, <3>4, <3>5 DEF StoppedBelow
  <2>5. \A i \in DOMAIN stops' : stops'[i] \in Stoppers /\ stops'[i] < next + 1
    BY <1>1, <1>3, <2>1 DEF StoppedBelow
  <2>6. \A i, j \in DOMAIN stops' : i < j => stops'[i] < stops'[j]
    <3> SUFFICES ASSUME NEW i \in 1..Len(stops) + 1, NEW j \in 1..Len(stops) + 1, i < j
                 PROVE  stops'[i] < stops'[j]
      BY <2>1
    <3>1. i \in 1..Len(stops)
      BY <2>1
    <3>2. CASE j \in 1..Len(stops)
      BY <1>1, <2>1, <3>1, <3>2 DEF StoppedBelow
    <3>3. CASE j = Len(stops) + 1
      BY <1>1, <2>1, <3>1, <3>3 DEF StoppedBelow
    <3>4. j \in 1..Len(stops) \/ j = Len(stops) + 1
      BY <2>1
    <3> QED BY <3>2, <3>3, <3>4
  <2>7. /\ failed' = {} => appErr' = 0
        /\ \A m \in failed' : m \in Stoppers /\ m < next + 1
        /\ failed' # {} => appErr' \in failed' /\ \A m \in failed' : appErr' <= m
    <3>1. \A m \in failed : m \in Stoppers /\ m < next /\ m >= 1
      BY <1>1 DEF StoppedBelow
    <3>2. CASE failed' = failed /\ appErr' = appErr
      BY <1>1, <3>1, <3>2 DEF StoppedBelow
    <3>3. CASE failed' = failed \cup {next} /\ appErr' = IF appErr = 0 THEN next ELSE appErr
      BY <1>1, <1>3, <3>1, <3>3 DEF StoppedBelow
    <3> QED BY <2>2, <3>2, <3>3
  <2>8. StoppedBelow(next)'
    BY <1>1, <2>4, <2>5, <2>6, <2>7 DEF StoppedBelow
  <2> QED BY <1>1, <2>3, <2>8 DEF LifeInv, ModuleStops, StartLoop, StopLoop, Waited, Active,
                                  Before, After
<1> QED BY <1>2, <1>3 DEF ModuleStops

LEMMA ServerClosesStep ==
    ASSUME LifecycleAssumption, LifeInv, ServerCloses
    PROVE  LifeInv'
<1> USE DEF ServerCloses, appVars
<1>1. LifeTypeOK'
  BY DEF LifeInv, LifeTypeOK, After
<1>2. StartLoop'
  BY DEF LifeInv, StartLoop, StopLoop, After
<1>3. StopLoop'
  <2>1. /\ StoppedBelow(next) /\ next > N /\ next \in Nat /\ N \in Nat
        /\ stops \in Seq(1..N) /\ Stoppers \subseteq 1..N /\ failed \subseteq 1..N
    BY DEF LifeInv, LifeTypeOK, StopLoop, LifecycleAssumption
  <2>2. /\ \A m \in 1..N : m < next /\ m < N + 1
        /\ \A i \in DOMAIN stops : stops[i] \in 1..N
    BY <2>1
  <2>3. StoppedBelow(N + 1)'
    BY <2>1, <2>2 DEF StoppedBelow
  <2> QED BY <2>3 DEF StopLoop, Before, After
<1>4. Waited'
  BY DEF LifeInv, StopLoop, Waited, Active, Before, After
<1> QED BY <1>1, <1>2, <1>3, <1>4 DEF LifeInv

\* The steps of main after the server was closed.
LEMMA ClosingSteps ==
    ASSUME LifecycleAssumption, LifeInv,
           ServerStopped \/ LeaderClosed \/ DatabaseClosed \/ MainReturns
    PROVE  LifeInv'
<1> USE DEF ServerStopped, LeaderClosed, DatabaseClosed, MainReturns, appVars
<1>1. LifeTypeOK'
  BY DEF LifeInv, LifeTypeOK, After, LifecycleAssumption
<1>2. StartLoop'
  BY DEF LifeInv, StartLoop, LifecycleAssumption
<1>3. StopLoop'
  <2>1. UNCHANGED <<stops, failed, appErr, next, server>>
    OBVIOUS
  <2>2. StoppedBelow(N + 1)' <=> StoppedBelow(N + 1)
    BY <2>1, StoppedFrame
  <2>3. main \in After /\ main' \in After
    BY DEF After, LifecycleAssumption
  <2> QED BY <2>1, <2>2, <2>3 DEF LifeInv, StopLoop, Before, After
<1>4. Waited'
  BY DEF LifeInv, StopLoop, Waited, Active, Before, After
<1> QED BY <1>1, <1>2, <1>3, <1>4 DEF LifeInv

\* The environment, the server's goroutine, the requests and the workers.
LEMMA OtherSteps ==
    ASSUME LifecycleAssumption, LifeInv,
           \/ Interrupt \/ Expire \/ Listen
           \/ \E r \in Clients : Arrive(r) \/ Answer(r)
           \/ JobBegins \/ JobEnds \/ WorkersExit
           \/ UNCHANGED processVars
    PROVE  LifeInv'
<1>1. CASE Interrupt \/ Expire \/ JobBegins \/ JobEnds \/ WorkersExit \/ UNCHANGED processVars
  <2> USE <1>1 DEF Interrupt, Expire, JobBegins, JobEnds, WorkersExit, Alive, Stopping,
                   processVars, appVars
  <2>1. LifeTypeOK'
    BY DEF LifeInv, LifeTypeOK
  <2>2. StartLoop'
    BY DEF LifeInv, StartLoop
  <2>3. StopLoop'
    <3>1. UNCHANGED <<stops, failed, appErr, next, started, server>> /\ main' = main
      OBVIOUS
    <3> QED BY <3>1, LoopFrame
  <2>4. Waited'
    BY DEF LifeInv, LifeTypeOK, Waited, Active
  <2> QED BY <2>1, <2>2, <2>3, <2>4 DEF LifeInv
<1>2. CASE Listen
  <2> USE <1>2 DEF Listen, Alive, appVars
  <2>1. LifeTypeOK'
    BY DEF LifeInv, LifeTypeOK
  <2>2. StartLoop'
    BY DEF LifeInv, StartLoop
  <2>3. main \notin After /\ server # "closed" /\ server' # "closed"
    BY DEF LifeInv, StopLoop, After
  <2>4. StopLoop'
    <3>1. StoppedBelow(next)' <=> StoppedBelow(next)
      BY StoppedFrame
    <3> QED BY <2>3, <3>1 DEF LifeInv, StopLoop, Before, After
  <2>5. Waited'
    BY <2>3 DEF LifeInv, Waited, Active, After
  <2> QED BY <2>1, <2>2, <2>4, <2>5 DEF LifeInv
<1>3. CASE \E r \in Clients : Arrive(r) \/ Answer(r)
  <2>1. PICK r \in Clients : Arrive(r) \/ Answer(r)
    BY <1>3
  <2> USE DEF Arrive, Answer, Alive, appVars
  <2>2. LifeTypeOK'
    BY <2>1 DEF LifeInv, LifeTypeOK
  <2>3. StartLoop'
    BY <2>1 DEF LifeInv, StartLoop
  <2>4. StopLoop'
    <3>1. UNCHANGED <<stops, failed, appErr, next, started, server>> /\ main' = main
      BY <2>1
    <3> QED BY <3>1, LoopFrame
  <2>5. Waited'
    BY <2>1 DEF LifeInv, LifeTypeOK, StopLoop, Waited, Active, After
  <2> QED BY <2>2, <2>3, <2>4, <2>5 DEF LifeInv
<1> QED BY <1>1, <1>2, <1>3

\* The inductive invariant holds wherever main, the requests and the workers are.
LEMMA LifeInvariance == ProcessSpec => []LifeInv
<1>1. ProcessInit => LifeInv
  BY LifecycleAssumption, LifeInit
<1>2. LifeInv /\ [ProcessNext]_processVars => LifeInv'
  BY LifecycleAssumption, ModuleStartsStep, ServeStep, ShutdownBeginsStep, WorkerStoppedStep,
     ModuleStopsStep, ServerClosesStep, ClosingSteps, OtherSteps DEF ProcessNext, Main
<1> QED BY <1>1, <1>2, PTL DEF ProcessSpec

\* app.go: nothing is served before every OnStart hook succeeded, and when the
\* server is closed App.Shutdown has called every OnShutdown hook exactly once,
\* whatever fails, and holds the error of the first call that failed.
THEOREM LifecycleHooksCalled == ProcessSpec => []HooksCalled
<1>1. LifeInv => HooksCalled
  <2> SUFFICES ASSUME LifeInv, server = "closed"
               PROVE  /\ ToSet(stops) = Stoppers
                      /\ \A m, n \in DOMAIN stops : stops[m] = stops[n] => m = n
                      /\ failed = {} => appErr = 0
                      /\ failed # {} =>
                            \E n \in DOMAIN stops :
                                /\ stops[n] = appErr /\ appErr \in failed
                                /\ \A m \in DOMAIN stops : m < n => stops[m] \notin failed
    BY DEF LifeInv, StartLoop, HooksCalled
  <2>1. StoppedBelow(N + 1)
    BY DEF LifeInv, StopLoop
  <2>2. stops \in Seq(1..N) /\ failed \subseteq Stoppers /\ Stoppers \subseteq 1..N
    BY <2>1, LifecycleAssumption DEF LifeInv, LifeTypeOK, StoppedBelow
  <2>3. N \in Nat /\ DOMAIN stops = 1..Len(stops) /\ \A n \in DOMAIN stops : stops[n] \in 1..N
    BY <2>2, LifecycleAssumption
  <2>4. ToSet(stops) = Stoppers
    <3>1. \A m \in Stoppers : m < N + 1
      BY <2>2, <2>3
    <3> QED BY <2>1, <3>1 DEF StoppedBelow, ToSet
  <2>5. \A m, n \in DOMAIN stops : stops[m] = stops[n] => m = n
    BY <2>1, <2>3 DEF StoppedBelow
  <2>6. ASSUME failed # {}
        PROVE  \E n \in DOMAIN stops :
                  /\ stops[n] = appErr /\ appErr \in failed
                  /\ \A m \in DOMAIN stops : m < n => stops[m] \notin failed
    <3>1. appErr \in failed /\ \A m \in failed : appErr <= m
      BY <2>1, <2>6 DEF StoppedBelow
    <3>2. PICK n \in DOMAIN stops : stops[n] = appErr
      BY <2>2, <2>4, <3>1 DEF ToSet
    <3>3. \A m \in DOMAIN stops : m < n => stops[m] < stops[n]
      BY <2>1 DEF StoppedBelow
    <3> QED BY <2>3, <3>1, <3>2, <3>3
  <2> QED BY <2>1, <2>4, <2>5, <2>6 DEF StoppedBelow
<1> QED BY <1>1, LifeInvariance, PTL

\* cmd/example/main.go: the database is closed under no request and no job
\* unless the shutdown's deadline came first, although requests keep arriving
\* until the listener is closed.
THEOREM LifecycleDatabaseClosedLast == ProcessSpec => []DatabaseClosedLast
<1>1. LifeInv => DatabaseClosedLast
  BY DEF LifeInv, Waited, After, DatabaseClosedLast
<1> QED BY <1>1, LifeInvariance, PTL
=============================================================================
