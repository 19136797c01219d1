---------------------------- MODULE RateLimiter -----------------------------
(* RateLimiter (middleware/rate_limit.go): token buckets per IP, kept in a    *)
(* map that concurrent requests share and from which idle entries are         *)
(* evicted.  Allow is two steps: getLimiter under rl.mu hands out a pointer,  *)
(* the bucket decides later under its own lock.                               *)
(* External: rate.Limiter (golang.org/x/time/rate), with whole tokens and a   *)
(* clock that ticks once per unit of time; the requests, each with its IP     *)
(* (extractIP).  Abstracted: the response written for a denied request.       *)
EXTENDS Integers, FiniteSets

CONSTANTS
    IPs,
    Requests,       \* goroutines serving requests, one at a time each
    Rate,           \* RPS, as tokens per unit of time
    Burst,
    CleanupAfter,   \* idle time after which an entry may go (10 minutes)
    CleanupEvery,   \* requests between looks for idle entries (256)
    MaxStall,       \* longest time from getLimiter to the bucket's decision
    MaxTime,        \* bound on the clock
    None

Limiters == 1..(Cardinality(IPs) + Cardinality(Requests))

\* A bucket idle for as long as eviction takes is full again.
ASSUME LimiterAssumption ==
    /\ IPs # {} /\ IsFiniteSet(IPs) /\ IsFiniteSet(Requests)
    /\ Rate \in Nat /\ Burst \in Nat /\ CleanupAfter \in Nat /\ MaxStall \in Nat
    /\ CleanupEvery \in Nat \ {0} /\ MaxTime \in Nat
    /\ MaxStall <= CleanupAfter
    /\ Burst <= Rate * (CleanupAfter - MaxStall)
    /\ None \notin Limiters

VARIABLES
    limiters,       \* [IP]: its limiter in the map, or None
    lastSeen,       \* [IP]: lastSeen of its entry
    bucket,         \* [limiter]: tokens and the time they were counted
    now,
    lastCleanup,    \* 0: never (IsZero)
    requests,       \* rl.requests modulo CleanupEvery
    ptr,            \* [request]: the limiter getLimiter returned, or None
    from,           \* [request]: the IP of the request in flight
    since,          \* [request]: when it called getLimiter
    answer          \* [request]: the last decision

mapVars == <<limiters, lastSeen, lastCleanup, requests>>
reqVars == <<ptr, from, since>>
vars == <<mapVars, bucket, now, reqVars, answer>>

Init ==
    /\ limiters = [ip \in IPs |-> None]
    /\ lastSeen = [ip \in IPs |-> 0]
    /\ bucket = [l \in Limiters |-> [tokens |-> Burst, last |-> 0]]
    /\ now = 1
    /\ lastCleanup = 0 /\ requests = 0
    /\ ptr = [r \in Requests |-> None]
    /\ from = [r \in Requests |-> CHOOSE ip \in IPs : TRUE]
    /\ since = [r \in Requests |-> 0]
    /\ answer = [r \in Requests |-> "none"]

InFlight(r) == ptr[r] # None
-----------------------------------------------------------------------------
\* cleanupExpiredLocked: the entries that go.
Stale ==
    IF lastCleanup # 0 /\ now - lastCleanup < CleanupAfter
    THEN {}
    ELSE {ip \in IPs : limiters[ip] # None /\ now - lastSeen[ip] > CleanupAfter}

\* rate.NewLimiter: a limiter nobody refers to (any more).
Unused(l) == (\A ip \in IPs : limiters[ip] # l) /\ \A r \in Requests : ptr[r] # l
NewLimiter(l) == Unused(l) /\ \A m \in Limiters : Unused(m) => l <= m

\* Mutant: an entry that exists keeps its old lastSeen.
getLimiter_OldLastSeen(r, ip) ==
    LET count  == (requests + 1) % CleanupEvery
        evicts == count = 0 /\ (lastCleanup = 0 \/ now - lastCleanup >= CleanupAfter)
        kept   == [x \in IPs |-> IF count = 0 /\ x \in Stale THEN None ELSE limiters[x]]
    IN
    /\ ~InFlight(r)
    /\ requests' = count
    /\ lastCleanup' = IF evicts THEN now ELSE lastCleanup
    /\ \/ /\ kept[ip] # None
          /\ limiters' = kept /\ ptr' = [ptr EXCEPT ![r] = kept[ip]]
          /\ UNCHANGED <<bucket, lastSeen>>
       \/ /\ kept[ip] = None
          /\ \E l \in Limiters :
                /\ NewLimiter(l)
                /\ limiters' = [kept EXCEPT ![ip] = l] /\ ptr' = [ptr EXCEPT ![r] = l]
                /\ bucket' = [bucket EXCEPT ![l] = [tokens |-> Burst, last |-> now]]
          /\ lastSeen' = [lastSeen EXCEPT ![ip] = now]
    /\ from' = [from EXCEPT ![r] = ip]
    /\ since' = [since EXCEPT ![r] = now]
    /\ answer' = [answer EXCEPT ![r] = "none"]
    /\ UNCHANGED now

\* getLimiter under rl.mu: now and then a cleanup, then the entry of the IP, a
\* new one with a full bucket if there is none.
getLimiter(r, ip) ==
    LET count  == (requests + 1) % CleanupEvery
        evicts == count = 0 /\ (lastCleanup = 0 \/ now - lastCleanup >= CleanupAfter)
        kept   == [x \in IPs |-> IF count = 0 /\ x \in Stale THEN None ELSE limiters[x]]
    IN
    /\ ~InFlight(r)
    /\ requests' = count
    /\ lastCleanup' = IF evicts THEN now ELSE lastCleanup
    /\ \/ /\ kept[ip] # None
          /\ limiters' = kept /\ ptr' = [ptr EXCEPT ![r] = kept[ip]]
          /\ UNCHANGED bucket
       \/ /\ kept[ip] = None
          /\ \E l \in Limiters :
                /\ NewLimiter(l)
                /\ limiters' = [kept EXCEPT ![ip] = l] /\ ptr' = [ptr EXCEPT ![r] = l]
                /\ bucket' = [bucket EXCEPT ![l] = [tokens |-> Burst, last |-> now]]
    /\ lastSeen' = [lastSeen EXCEPT ![ip] = now]
    /\ from' = [from EXCEPT ![r] = ip]
    /\ since' = [since EXCEPT ![r] = now]
    /\ answer' = [answer EXCEPT ![r] = "none"]
    /\ UNCHANGED now

\* rate.Limiter: the tokens of a bucket at this time.
Tokens(b) ==
    LET t == b.tokens + Rate * (now - b.last) IN IF t > Burst THEN Burst ELSE t

\* limiter.Allow(): take a token if there is one.
Allow(r) ==
    LET l == ptr[r] IN
    /\ InFlight(r)
    /\ \/ /\ Tokens(bucket[l]) >= 1
          /\ bucket' = [bucket EXCEPT ![l] = [tokens |-> Tokens(@) - 1, last |-> now]]
          /\ answer' = [answer EXCEPT ![r] = "allowed"]
       \/ /\ Tokens(bucket[l]) < 1
          /\ answer' = [answer EXCEPT ![r] = "denied"]
          /\ UNCHANGED bucket
    /\ ptr' = [ptr EXCEPT ![r] = None]
    /\ since' = [since EXCEPT ![r] = 0]
    /\ UNCHANGED <<mapVars, now, from>>

\* Time passes; no request stays between getLimiter and Allow for too long.
Tick ==
    /\ now < MaxTime
    /\ \A r \in Requests : InFlight(r) => now < since[r] + MaxStall
    /\ now' = now + 1
    /\ UNCHANGED <<mapVars, bucket, reqVars, answer>>

Next ==
    \/ \E r \in Requests, ip \in IPs : getLimiter(r, ip)
    \/ \E r \in Requests : Allow(r)
    \/ Tick

Spec == Init /\ [][Next]_vars
-----------------------------------------------------------------------------
(* Properties *)

\* A request in flight decides on the bucket that is in the map for its IP: the
\* gap between getLimiter and Allow never leaves two buckets for one IP.
OneBucket == \A r \in Requests : InFlight(r) => limiters[from[r]] = ptr[r]

\* Forgetting idle entries is invisible: every decision is the one of buckets
\* that are never evicted, for an evicted bucket would be full.
Level == [ip \in IPs |-> IF limiters[ip] = None THEN Burst ELSE Tokens(bucket[limiters[ip]])]
Ideal == INSTANCE TokenBuckets WITH level <- Level
ImplementsTokenBuckets == Ideal!Spec
=============================================================================
