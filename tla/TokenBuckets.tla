---------------------------- MODULE TokenBuckets ----------------------------
(* What the rate limiter promises (README.md:27): a token bucket per IP that  *)
(* is never forgotten, refilled with Rate tokens per unit of time up to Burst.*)
EXTENDS Integers

CONSTANTS IPs, Requests, Rate, Burst

VARIABLES
    level,  \* [IP]: tokens in its bucket
    answer  \* [request]: "none", "allowed", "denied"

vars == <<level, answer>>

Init == level = [ip \in IPs |-> Burst] /\ answer = [r \in Requests |-> "none"]

Arrive(r) == answer' = [answer EXCEPT ![r] = "none"] /\ UNCHANGED level

Decide(r, ip) ==
    \/ /\ level[ip] >= 1
       /\ level' = [level EXCEPT ![ip] = @ - 1]
       /\ answer' = [answer EXCEPT ![r] = "allowed"]
    \/ /\ level[ip] < 1
       /\ answer' = [answer EXCEPT ![r] = "denied"]
       /\ UNCHANGED level

Refill ==
    /\ level' = [ip \in IPs |-> IF level[ip] + Rate > Burst THEN Burst ELSE level[ip] + Rate]
    /\ UNCHANGED answer

Next ==
    \/ \E r \in Requests : Arrive(r) \/ \E ip \in IPs : Decide(r, ip)
    \/ Refill

Spec == Init /\ [][Next]_vars
=============================================================================
