--------------------------- MODULE JobQueueProofs ---------------------------
(* Proofs about JobQueue for any number of jobs and workers and any size of   *)
(* the queue, none included.                                                  *)
(*                                                                            *)
(* The argument follows Line, the jobs that were started, are buffered and    *)
(* are blocked, in that order.  Enqueue appends to it, a cancelled caller is  *)
(* taken out of it, and Receive leaves it alone: it only moves the borders    *)
(* between the three parts.  What a caller was told depends on its place in   *)
(* Line: before the border after the buffer (Border) the answer was nil,      *)
(* behind it the caller is blocked.                                           *)
EXTENDS JobQueue, FiniteSetTheorems, SequenceTheorems, TLAPS

Answers == {"new", "stored", "error", "nil", "blocked"}

TypeOK ==
    /\ call \in [Jobs -> Answers]
    /\ memQueue \in Seq(Jobs) /\ sendq \in Seq(Jobs)
    /\ worker \in [Workers -> {"new", "select", "execute", "exited"}]
    /\ shutdown \in {"none", "waiting", "nil", "error"}
    /\ started \in Seq(Jobs)

\* Callers block only when the buffer is full.
Room ==
    /\ Len(memQueue) <= QueueSize
    /\ sendq # <<>> => Len(memQueue) = QueueSize

\* Jobs that were started, are buffered and are blocked, in that order.
Line == started \o memQueue \o sendq

Border == Len(started) + Len(memQueue)

\* A job has at most one place in the line, and its call knows where.
Placed ==
    /\ \A m, n \in 1..Len(Line) : Line[m] = Line[n] => m = n
    /\ \A n \in 1..Len(Line) : call[Line[n]] = IF n <= Border THEN "nil" ELSE "blocked"
    /\ \A j \in Jobs : call[j] \in {"nil", "blocked"} => \E n \in 1..Len(Line) : Line[n] = j

\* Shutdown returned nil because every worker had exited.
Drained == shutdown = "nil" => \A w \in Workers : worker[w] = "exited"

IInv == TypeOK /\ Room /\ Placed /\ Drained
-----------------------------------------------------------------------------
(* Sequences *)

\* The line, place by place.
LEMMA Concat3 ==
    ASSUME NEW S, NEW s \in Seq(S), NEW t \in Seq(S), NEW u \in Seq(S)
    PROVE  /\ s \o t \o u \in Seq(S)
           /\ Len(s \o t \o u) = Len(s) + Len(t) + Len(u)
           /\ \A n \in 1..Len(s) + Len(t) + Len(u) :
                 (s \o t \o u)[n] = IF n <= Len(s) THEN s[n]
                                    ELSE IF n <= Len(s) + Len(t) THEN t[n - Len(s)]
                                    ELSE u[n - (Len(s) + Len(t))]
<1>1. /\ s \o t \in Seq(S)
      /\ Len(s \o t) = Len(s) + Len(t)
      /\ \A i \in 1..Len(s) + Len(t) : (s \o t)[i] = IF i <= Len(s) THEN s[i] ELSE t[i - Len(s)]
  BY ConcatProperties
<1>2. /\ (s \o t) \o u \in Seq(S)
      /\ Len((s \o t) \o u) = Len(s \o t) + Len(u)
      /\ \A i \in 1..Len(s \o t) + Len(u) :
            ((s \o t) \o u)[i] = IF i <= Len(s \o t) THEN (s \o t)[i] ELSE u[i - Len(s \o t)]
  BY <1>1, ConcatProperties
<1>3. Len(s) \in Nat /\ Len(t) \in Nat /\ Len(u) \in Nat
  OBVIOUS
<1> QED BY <1>1, <1>2, <1>3

\* RemoveAt closes the gap at place n.
LEMMA RemoveAtProperties ==
    ASSUME NEW S, NEW s \in Seq(S), NEW n \in 1..Len(s)
    PROVE  /\ RemoveAt(s, n) \in Seq(S)
           /\ Len(RemoveAt(s, n)) = Len(s) - 1
           /\ \A i \in 1..Len(s) - 1 : RemoveAt(s, n)[i] = IF i < n THEN s[i] ELSE s[i + 1]
<1> DEFINE t == SubSeq(s, 1, n - 1)
           u == SubSeq(s, n + 1, Len(s))
<1>1. Len(s) \in Nat /\ \A i \in 1..Len(s) : s[i] \in S
  OBVIOUS
<1>2. t \in Seq(S) /\ Len(t) = n - 1 /\ \A i \in 1..n - 1 : t[i] = s[i]
  <2>1. /\ t \in Seq(S) /\ Len(t) = IF 1 <= n - 1 THEN (n - 1) - 1 + 1 ELSE 0
        /\ \A i \in 1..(n - 1) - 1 + 1 : t[i] = s[1 + i - 1]
    BY <1>1, SubSeqProperties
  <2> HIDE DEF t
  <2> QED BY <1>1, <2>1
<1>3. u \in Seq(S) /\ Len(u) = Len(s) - n /\ \A i \in 1..Len(s) - n : u[i] = s[n + i]
  <2>1. /\ u \in Seq(S) /\ Len(u) = IF n + 1 <= Len(s) THEN Len(s) - (n + 1) + 1 ELSE 0
        /\ \A i \in 1..Len(s) - (n + 1) + 1 : u[i] = s[(n + 1) + i - 1]
    BY <1>1, SubSeqProperties
  <2> HIDE DEF u
  <2> QED BY <1>1, <2>1
<1> HIDE DEF t, u
<1>4. /\ t \o u \in Seq(S)
      /\ Len(t \o u) = Len(t) + Len(u)
      /\ \A i \in 1..Len(t) + Len(u) : (t \o u)[i] = IF i <= Len(t) THEN t[i] ELSE u[i - Len(t)]
  BY <1>2, <1>3, ConcatProperties
<1>5. RemoveAt(s, n) = t \o u
  BY DEF RemoveAt, t, u
<1>6. Len(t \o u) = Len(s) - 1
  BY <1>1, <1>2, <1>3, <1>4
<1>7. ASSUME NEW i \in 1..Len(s) - 1
      PROVE  (t \o u)[i] = IF i < n THEN s[i] ELSE s[i + 1]
  <2>1. (t \o u)[i] = IF i <= n - 1 THEN t[i] ELSE u[i - (n - 1)]
    BY <1>1, <1>2, <1>3, <1>4
  <2>2. CASE i < n
    BY <1>1, <1>2, <2>1, <2>2
  <2>3. CASE i >= n
    <3>1. i - (n - 1) \in 1..Len(s) - n /\ n + (i - (n - 1)) = i + 1
      BY <1>1, <2>3
    <3> QED BY <1>3, <2>1, <2>3, <3>1
  <2>4. i < n \/ i >= n
    BY <1>1
  <2> QED BY <2>2, <2>3, <2>4
<1> QED BY <1>4, <1>5, <1>6, <1>7

LEMMA LastOrBefore ==
    ASSUME NEW k \in Nat, NEW n \in 1..k + 1
    PROVE  n = k + 1 \/ n \in 1..k
OBVIOUS

LEMMA MinOfTwo ==
    ASSUME NEW a \in Int, NEW b \in Int
    PROVE  Min({a, b}) = IF a <= b THEN a ELSE b
<1>1. \E x \in {a, b} : \A y \in {a, b} : x <= y
  OBVIOUS
<1>2. Min({a, b}) \in {a, b} /\ \A y \in {a, b} : Min({a, b}) <= y
  BY <1>1 DEF Min
<1> QED BY <1>2

LEMMA LinePlaces ==
    ASSUME TypeOK
    PROVE  /\ Line \in Seq(Jobs)
           /\ Len(Line) = Border + Len(sendq)
           /\ Border \in Nat /\ Len(started) \in Nat /\ Len(memQueue) \in Nat
           /\ Len(sendq) \in Nat
           /\ \A n \in 1..Len(Line) :
                 Line[n] = IF n <= Len(started) THEN started[n]
                           ELSE IF n <= Border THEN memQueue[n - Len(started)]
                           ELSE sendq[n - Border]
<1>1. started \in Seq(Jobs) /\ memQueue \in Seq(Jobs) /\ sendq \in Seq(Jobs)
  BY DEF TypeOK
<1>2. Len(started) \in Nat /\ Len(memQueue) \in Nat /\ Len(sendq) \in Nat
  BY <1>1
<1> QED BY <1>1, <1>2, Concat3 DEF Line, Border

\* The same of the line after a step.
LEMMA LinePlacesNext ==
    ASSUME TypeOK'
    PROVE  /\ Line' \in Seq(Jobs)
           /\ Len(Line') = Border' + Len(sendq')
           /\ \A n \in 1..Len(Line') :
                 Line'[n] = IF n <= Len(started') THEN started'[n]
                            ELSE IF n <= Border' THEN memQueue'[n - Len(started')]
                            ELSE sendq'[n - Border']
<1>1. started' \in Seq(Jobs) /\ memQueue' \in Seq(Jobs) /\ sendq' \in Seq(Jobs)
  BY DEF TypeOK
<1>2. Len(started') \in Nat /\ Len(memQueue') \in Nat /\ Len(sendq') \in Nat
  BY <1>1
<1> QED BY <1>1, <1>2, Concat3 DEF Line, Border
-----------------------------------------------------------------------------
(* What steps do to the line *)

\* A call comes in: its job is the last of the line, in the buffer if it has
\* room, which means that nobody is blocked.
LEMMA LineGrows ==
    ASSUME TypeOK, TypeOK', Placed, NEW j \in Jobs, call[j] = "new",
           Line' = Append(Line, j),
           \/ Border' = Border + 1 /\ Len(Line) = Border /\ call' = [call EXCEPT ![j] = "nil"]
           \/ Border' = Border /\ call' = [call EXCEPT ![j] = "blocked"]
    PROVE  Placed'
<1>1. /\ Line \in Seq(Jobs) /\ Border \in Nat /\ Len(Line) \in Nat /\ Len(Line) >= Border
      /\ call \in [Jobs -> Answers]
  BY LinePlaces DEF TypeOK
<1>2. /\ Len(Line') = Len(Line) + 1 /\ Line'[Len(Line) + 1] = j
      /\ \A n \in 1..Len(Line) : Line'[n] = Line[n] /\ Line[n] \in Jobs
  BY <1>1
<1>3. \A n \in 1..Len(Line) : Line[n] # j
  BY DEF Placed
<1>4. /\ call'[j] = IF Len(Line) + 1 <= Border' THEN "nil" ELSE "blocked"
      /\ \A i \in Jobs : i # j => call'[i] = call[i]
      /\ \A n \in 1..Len(Line) : n <= Border' <=> n <= Border
  BY <1>1
<1>5. \A m, n \in 1..Len(Line') : Line'[m] = Line'[n] => m = n
  BY <1>1, <1>2, <1>3 DEF Placed
<1>6. ASSUME NEW n \in 1..Len(Line')
      PROVE  call'[Line'[n]] = IF n <= Border' THEN "nil" ELSE "blocked"
  <2>1. CASE n = Len(Line) + 1
    BY <1>2, <1>4, <2>1
  <2>2. CASE n \in 1..Len(Line)
    BY <1>2, <1>3, <1>4, <2>2 DEF Placed
  <2> QED BY <1>1, <1>2, <2>1, <2>2
<1>7. ASSUME NEW i \in Jobs, call'[i] \in {"nil", "blocked"}
      PROVE  \E n \in 1..Len(Line') : Line'[n] = i
  <2>1. CASE i = j
    BY <1>1, <1>2, <2>1
  <2>2. CASE i # j
    <3>1. PICK n \in 1..Len(Line) : Line[n] = i
      BY <1>4, <1>7, <2>2 DEF Placed
    <3> QED BY <1>1, <1>2, <3>1
  <2> QED BY <2>1, <2>2
<1> QED BY <1>5, <1>6, <1>7 DEF Placed

\* A blocked caller gives up and leaves the line.
LEMMA LineShrinks ==
    ASSUME TypeOK, TypeOK', Placed, NEW k \in 1..Len(Line), k > Border,
           Line' = RemoveAt(Line, k),
           Border' = Border,
           call' = [call EXCEPT ![Line[k]] = "error"]
    PROVE  Placed'
<1>1. /\ Line \in Seq(Jobs) /\ Border \in Nat /\ Len(Line) \in Nat
      /\ \A n \in 1..Len(Line) : Line[n] \in Jobs
      /\ call \in [Jobs -> Answers]
  BY LinePlaces DEF TypeOK
<1> DEFINE old(n) == IF n < k THEN n ELSE n + 1
<1>2. /\ Len(Line') = Len(Line) - 1
      /\ \A n \in 1..Len(Line') : /\ old(n) \in 1..Len(Line) /\ old(n) # k
                                  /\ Line'[n] = Line[old(n)]
                                  /\ old(n) <= Border <=> n <= Border
  <2>1. /\ Len(Line') = Len(Line) - 1
        /\ \A n \in 1..Len(Line) - 1 : Line'[n] = IF n < k THEN Line[n] ELSE Line[n + 1]
    BY <1>1, RemoveAtProperties
  <2> SUFFICES ASSUME NEW n \in 1..Len(Line) - 1
               PROVE  /\ old(n) \in 1..Len(Line) /\ old(n) # k
                      /\ Line'[n] = Line[old(n)]
                      /\ old(n) <= Border <=> n <= Border
    BY <2>1
  <2>2. Line'[n] = Line[old(n)]
    BY <2>1
  <2> QED BY <1>1, <2>2
<1>3. \A m, n \in 1..Len(Line') : old(m) = old(n) => m = n
  BY <1>1
<1>4. \A n \in 1..Len(Line) : n # k => Line[n] # Line[k] /\ \E m \in 1..Len(Line') : old(m) = n
  <2> SUFFICES ASSUME NEW n \in 1..Len(Line), n # k
               PROVE  Line[n] # Line[k] /\ \E m \in 1..Len(Line') : old(m) = n
    OBVIOUS
  <2>1. Line[n] # Line[k]
    BY DEF Placed
  <2>2. CASE n < k
    <3>1. n \in 1..Len(Line') /\ old(n) = n
      BY <1>1, <1>2, <2>2
    <3> QED BY <2>1, <3>1
  <2>3. CASE n > k
    <3>1. n - 1 \in 1..Len(Line') /\ old(n - 1) = n
      BY <1>1, <1>2, <2>3
    <3> QED BY <2>1, <3>1
  <2> QED BY <1>1, <2>2, <2>3
<1> HIDE DEF old
<1>5. \A m, n \in 1..Len(Line') : Line'[m] = Line'[n] => m = n
  BY <1>2, <1>3 DEF Placed
<1>6. ASSUME NEW n \in 1..Len(Line')
      PROVE  call'[Line'[n]] = IF n <= Border' THEN "nil" ELSE "blocked"
  <2>1. /\ old(n) \in 1..Len(Line) /\ Line'[n] = Line[old(n)]
        /\ Line[old(n)] \in Jobs /\ Line[old(n)] # Line[k]
    BY <1>1, <1>2, <1>4
  <2>2. call'[Line'[n]] = call[Line[old(n)]]
    BY <1>1, <2>1
  <2>3. call[Line[old(n)]] = IF old(n) <= Border THEN "nil" ELSE "blocked"
    BY <2>1 DEF Placed
  <2> QED BY <1>2, <2>2, <2>3
<1>7. ASSUME NEW i \in Jobs, call'[i] \in {"nil", "blocked"}
      PROVE  \E n \in 1..Len(Line') : Line'[n] = i
  <2>1. i # Line[k] /\ call[i] \in {"nil", "blocked"}
    BY <1>1, <1>7
  <2>2. PICK n \in 1..Len(Line) : Line[n] = i
    BY <2>1 DEF Placed
  <2>3. PICK m \in 1..Len(Line') : old(m) = n
    BY <1>4, <2>1, <2>2
  <2> QED BY <1>2, <2>2, <2>3
<1> QED BY <1>5, <1>6, <1>7 DEF Placed

\* A worker takes the first envelope: the line stays, and the first blocked
\* caller, if there is one, is answered.
LEMMA LineMoves ==
    ASSUME TypeOK, TypeOK', Placed, Line' = Line,
           \/ Border' = Border /\ call' = call
           \/ /\ Border' = Border + 1 /\ Border + 1 <= Len(Line)
              /\ call' = [call EXCEPT ![Line[Border + 1]] = "nil"]
    PROVE  Placed'
<1>1. /\ Line \in Seq(Jobs) /\ Border \in Nat /\ Len(Line) \in Nat
      /\ \A n \in 1..Len(Line) : Line[n] \in Jobs
      /\ call \in [Jobs -> Answers]
  BY LinePlaces DEF TypeOK
<1>2. CASE Border' = Border /\ call' = call
  BY <1>2 DEF Placed
<1>3. CASE /\ Border' = Border + 1 /\ Border + 1 <= Len(Line)
           /\ call' = [call EXCEPT ![Line[Border + 1]] = "nil"]
  <2>1. /\ Border + 1 \in 1..Len(Line)
        /\ \A i \in Jobs : call'[i] = IF i = Line[Border + 1] THEN "nil" ELSE call[i]
    BY <1>1, <1>3
  <2>2. \A n \in 1..Len(Line) : call'[Line[n]] = IF n <= Border' THEN "nil" ELSE "blocked"
    BY <1>1, <1>3, <2>1 DEF Placed
  <2> QED BY <1>1, <1>3, <2>1, <2>2 DEF Placed
<1> QED BY <1>2, <1>3

\* A call that is answered without having come to the channel.
LEMMA LineFrame ==
    ASSUME TypeOK, TypeOK', Placed, NEW j \in Jobs, call[j] = "new",
           Line' = Line, Border' = Border,
           call' = [call EXCEPT ![j] = "stored"] \/ call' = [call EXCEPT ![j] = "error"]
    PROVE  Placed'
<1>1. /\ Line \in Seq(Jobs) /\ \A n \in 1..Len(Line) : Line[n] \in Jobs
      /\ call \in [Jobs -> Answers]
  BY LinePlaces DEF TypeOK
<1>2. \A n \in 1..Len(Line) : Line[n] # j
  BY DEF Placed
<1>3. \A i \in Jobs : call'[i] = IF i = j THEN call'[j] ELSE call[i]
  BY <1>1
<1>4. call'[j] \notin {"nil", "blocked"}
  BY <1>1
<1> QED BY <1>1, <1>2, <1>3, <1>4 DEF Placed
-----------------------------------------------------------------------------
(* Steps *)

LEMMA StartTypeOK ==
    ASSUME QueueAssumption, Init
    PROVE  IInv
<1>1. TypeOK
  BY DEF Init, TypeOK, Answers
<1>2. Len(Line) = 0
  <2>1. Len(started) = 0 /\ Len(memQueue) = 0 /\ Len(sendq) = 0
    BY DEF Init
  <2> QED BY <1>1, <2>1, LinePlaces DEF Border
<1>3. Placed
  <2>1. \A j \in Jobs : call[j] = "new"
    BY DEF Init
  <2> QED BY <1>2, <2>1 DEF Placed
<1>4. Room /\ Drained
  BY DEF QueueAssumption, Init, Room, Drained
<1> QED BY <1>1, <1>3, <1>4 DEF IInv

LEMMA EnqueuePersistentStep ==
    ASSUME QueueAssumption, IInv, NEW j \in Jobs, EnqueuePersistent(j)
    PROVE  IInv'
<1> USE DEF EnqueuePersistent, queueVars, poolVars, history
<1>1. TypeOK'
  BY DEF IInv, TypeOK, Answers
<1>2. Line' = Line /\ Border' = Border
  BY DEF Line, Border
<1>3. Placed'
  BY <1>1, <1>2, LineFrame DEF IInv
<1> QED BY <1>1, <1>3 DEF IInv, Room, Drained

LEMMA EnqueueStep ==
    ASSUME QueueAssumption, IInv, NEW j \in Jobs, Enqueue(j)
    PROVE  IInv'
<1> USE DEF poolVars, history
<1>1. TypeOK'
  <2>1. call' \in [Jobs -> Answers]
    BY DEF IInv, TypeOK, Answers, Enqueue
  <2>2. started' \in Seq(Jobs)
    BY DEF IInv, TypeOK, Enqueue
  <2>3. memQueue' \in Seq(Jobs) /\ sendq' \in Seq(Jobs)
    <3>1. memQueue \in Seq(Jobs) /\ sendq \in Seq(Jobs)
      BY DEF IInv, TypeOK
    <3>2. CASE memQueue' = Append(memQueue, j) /\ sendq' = sendq
      BY <3>1, <3>2
    <3>3. CASE memQueue' = memQueue /\ sendq' = Append(sendq, j)
      BY <3>1, <3>3
    <3> QED BY <3>2, <3>3 DEF Enqueue
  <2> QED BY <2>1, <2>2, <2>3 DEF IInv, TypeOK, Enqueue
<1>2. /\ started \in Seq(Jobs) /\ memQueue \in Seq(Jobs) /\ sendq \in Seq(Jobs)
      /\ Len(memQueue) \in Nat /\ Len(started) \in Nat /\ QueueSize \in Nat
  BY DEF IInv, TypeOK, QueueAssumption
<1>3. CASE /\ Len(memQueue) < QueueSize /\ memQueue' = Append(memQueue, j)
           /\ call' = [call EXCEPT ![j] = "nil"] /\ UNCHANGED sendq
  <2>1. sendq = <<>> /\ started' = started
    BY <1>2, <1>3 DEF IInv, Room, Enqueue
  <2>2. Len(memQueue') = Len(memQueue) + 1 /\ Border' = Border + 1 /\ Len(Line) = Border
    BY <1>2, <1>3, <2>1, LinePlaces DEF Border, IInv
  <2>3. Line' = Append(Line, j)
    BY <1>2, <1>3, <2>1 DEF Line
  <2>4. Placed'
    BY <1>1, <1>3, <2>2, <2>3, LineGrows DEF IInv, Enqueue
  <2>5. Room'
    BY <1>2, <1>3, <2>1, <2>2 DEF Room
  <2> QED BY <1>1, <2>4, <2>5 DEF IInv, Drained, Enqueue
<1>4. CASE /\ Len(memQueue) = QueueSize /\ sendq' = Append(sendq, j)
           /\ call' = [call EXCEPT ![j] = "blocked"] /\ UNCHANGED memQueue
  <2>1. started' = started /\ Border' = Border
    BY <1>4 DEF Enqueue, Border
  <2>2. Line' = Append(Line, j)
    <3>1. started \o memQueue \in Seq(Jobs)
      BY <1>2
    <3> QED BY <1>2, <1>4, <2>1, <3>1 DEF Line
  <2>3. Placed'
    BY <1>1, <1>4, <2>1, <2>2, LineGrows DEF IInv, Enqueue
  <2>4. Room'
    BY <1>2, <1>4 DEF Room
  <2> QED BY <1>1, <2>3, <2>4 DEF IInv, Drained, Enqueue
<1> QED BY <1>3, <1>4 DEF Enqueue

LEMMA EnqueueCancelledStep ==
    ASSUME QueueAssumption, IInv, NEW j \in Jobs, EnqueueCancelled(j)
    PROVE  IInv'
<1> USE DEF poolVars, history
<1>1. /\ started \in Seq(Jobs) /\ memQueue \in Seq(Jobs) /\ sendq \in Seq(Jobs)
      /\ Len(memQueue) \in Nat /\ Len(started) \in Nat /\ Len(sendq) \in Nat
  BY DEF IInv, TypeOK
<1>2. CASE call[j] = "new" /\ UNCHANGED sendq
  <2>1. TypeOK'
    BY <1>2 DEF IInv, TypeOK, Answers, EnqueueCancelled
  <2>2. Line' = Line /\ Border' = Border
    BY <1>2 DEF Line, Border, EnqueueCancelled
  <2>3. Placed'
    BY <1>2, <2>1, <2>2, LineFrame DEF IInv, EnqueueCancelled
  <2> QED BY <1>2, <2>1, <2>3 DEF IInv, Room, Drained, EnqueueCancelled
<1>3. CASE \E n \in DOMAIN sendq : sendq[n] = j /\ sendq' = RemoveAt(sendq, n)
  <2>1. PICK n \in 1..Len(sendq) : sendq[n] = j /\ sendq' = RemoveAt(sendq, n)
    BY <1>1, <1>3
  <2>2. /\ sendq' \in Seq(Jobs) /\ Len(sendq') = Len(sendq) - 1
        /\ \A i \in 1..Len(sendq) - 1 : sendq'[i] = IF i < n THEN sendq[i] ELSE sendq[i + 1]
    BY <1>1, <2>1, RemoveAtProperties
  <2>3. TypeOK'
    BY <2>2 DEF IInv, TypeOK, Answers, EnqueueCancelled
  <2>4. started' = started /\ memQueue' = memQueue /\ Border' = Border /\ Border \in Nat
    BY <1>1 DEF EnqueueCancelled, Border
  <2>5. /\ Border + n \in 1..Len(Line) /\ Border + n > Border /\ Line[Border + n] = j
        /\ Len(Line) \in Nat /\ Line \in Seq(Jobs)
    BY <1>1, <2>1, <2>4, LinePlaces DEF IInv, Border
  <2>6. Line' = RemoveAt(Line, Border + n)
    <3>1. /\ RemoveAt(Line, Border + n) \in Seq(Jobs)
          /\ Len(RemoveAt(Line, Border + n)) = Len(Line) - 1
          /\ \A i \in 1..Len(Line) - 1 :
               RemoveAt(Line, Border + n)[i] = IF i < Border + n THEN Line[i] ELSE Line[i + 1]
      BY <2>5, RemoveAtProperties
    <3>2. Line' \in Seq(Jobs) /\ Len(Line') = Len(Line) - 1
      BY <1>1, <2>2, <2>3, <2>4, LinePlaces, LinePlacesNext DEF IInv
    <3>3. ASSUME NEW i \in 1..Len(Line) - 1
          PROVE  Line'[i] = IF i < Border + n THEN Line[i] ELSE Line[i + 1]
      <4>1. Line'[i] = IF i <= Len(started) THEN started[i]
                       ELSE IF i <= Border THEN memQueue[i - Len(started)]
                       ELSE sendq'[i - Border]
        BY <2>3, <2>4, <3>2, LinePlacesNext
      <4>2. CASE i <= Border
        <5>1. i \in 1..Len(Line) /\ i < Border + n
          BY <2>1, <2>4, <2>5, <4>2
        <5>2. Line[i] = IF i <= Len(started) THEN started[i]
                        ELSE IF i <= Border THEN memQueue[i - Len(started)]
                        ELSE sendq[i - Border]
          BY <5>1, LinePlaces DEF IInv
        <5> QED BY <4>1, <4>2, <5>1, <5>2
      <4>3. CASE i > Border
        <5>1. /\ i - Border \in 1..Len(sendq) - 1 /\ Len(Line) = Border + Len(sendq)
              /\ i > Len(started)
          BY <1>1, <2>4, <2>5, <4>3, LinePlaces DEF IInv, Border
        <5>2. Line'[i] = IF i - Border < n THEN sendq[i - Border] ELSE sendq[i - Border + 1]
          <6>1. Line'[i] = sendq'[i - Border]
            BY <1>1, <2>4, <4>1, <4>3, <5>1
          <6>2. sendq'[i - Border] = IF i - Border < n THEN sendq[i - Border]
                                                       ELSE sendq[i - Border + 1]
            BY <2>2, <5>1
          <6> QED BY <6>1, <6>2
        <5>3. Line[i] = sendq[i - Border] /\ Line[i + 1] = sendq[(i + 1) - Border]
          BY <1>1, <2>4, <2>5, <4>3, <5>1, LinePlaces DEF IInv
        <5>4. (i + 1) - Border = i - Border + 1 /\ (i - Border < n <=> i < Border + n)
          BY <2>1, <2>4
        <5> QED BY <5>2, <5>3, <5>4
      <4> QED BY <2>4, <4>2, <4>3
    <3>4. \A i \in 1..Len(Line') : Line'[i] = RemoveAt(Line, Border + n)[i]
      BY <3>1, <3>2, <3>3
    <3> HIDE DEF RemoveAt
    <3> QED BY <3>1, <3>2, <3>4
  <2>7. Placed'
    BY <2>3, <2>4, <2>5, <2>6, LineShrinks DEF IInv, EnqueueCancelled
  <2>8. Room'
    BY <1>1, <2>1, <2>2, <2>4 DEF IInv, Room
  <2> QED BY <2>3, <2>7, <2>8 DEF IInv, Drained, EnqueueCancelled
<1> QED BY <1>2, <1>3 DEF EnqueueCancelled

\* A worker takes the head of the buffer or, without a buffer, of the blocked
\* callers; the first blocked caller moves up.
LEMMA ReceiveStep ==
    ASSUME QueueAssumption, IInv, NEW w \in Workers, Receive(w)
    PROVE  IInv'
<1> DEFINE all == memQueue \o sendq
           last == Min({Len(all), QueueSize + 1})
<1> USE DEF poolVars
<1>1. /\ started \in Seq(Jobs) /\ memQueue \in Seq(Jobs) /\ sendq \in Seq(Jobs)
      /\ Len(memQueue) \in Nat /\ Len(started) \in Nat /\ Len(sendq) \in Nat
      /\ QueueSize \in Nat /\ call \in [Jobs -> Answers]
  BY DEF IInv, TypeOK, QueueAssumption
<1>2. /\ all \in Seq(Jobs) /\ Len(all) = Len(memQueue) + Len(sendq)
      /\ \A i \in 1..Len(all) : all[i] = IF i <= Len(memQueue) THEN memQueue[i]
                                         ELSE sendq[i - Len(memQueue)]
  BY <1>1, ConcatProperties
<1>3. /\ all # <<>> /\ memQueue' = SubSeq(all, 2, last)
      /\ sendq' = IF sendq = <<>> THEN <<>> ELSE Tail(sendq)
      /\ call' = IF sendq = <<>> THEN call ELSE [call EXCEPT ![Head(sendq)] = "nil"]
      /\ started' = Append(started, Head(all))
  BY DEF Receive
<1>4. last = IF Len(all) <= QueueSize + 1 THEN Len(all) ELSE QueueSize + 1
  BY <1>1, <1>2, MinOfTwo
<1> HIDE DEF all, last
<1>5. Len(all) >= 1 /\ Head(all) = all[1] /\ all[1] \in Jobs
  BY <1>2, <1>3
<1>6. Len(started') = Len(started) + 1 /\ started' \in Seq(Jobs)
      /\ \A i \in 1..Len(started) + 1 :
            started'[i] = IF i <= Len(started) THEN started[i] ELSE all[1]
  BY <1>1, <1>3, <1>5
<1>7. /\ memQueue' \in Seq(Jobs) /\ Len(memQueue') = last - 1 /\ last \in 1..Len(all)
      /\ \A i \in 1..last - 1 : memQueue'[i] = all[i + 1]
  <2>1. last \in 1..Len(all)
    BY <1>1, <1>2, <1>4, <1>5
  <2>2. /\ memQueue' \in Seq(Jobs) /\ Len(memQueue') = IF 2 <= last THEN last - 2 + 1 ELSE 0
        /\ \A i \in 1..last - 2 + 1 : memQueue'[i] = all[2 + i - 1]
    <3>1. \A i \in 2..last : all[i] \in Jobs
      BY <1>2, <2>1
    <3> QED BY <1>2, <1>3, <2>1, <3>1, SubSeqProperties
  <2> QED BY <2>1, <2>2
<1>8. /\ sendq = <<>> => sendq' = <<>> /\ Len(sendq) = 0 /\ last = Len(memQueue)
      /\ sendq # <<>> => /\ Len(sendq) >= 1 /\ Len(sendq') = Len(sendq) - 1
                         /\ \A i \in 1..Len(sendq) - 1 : sendq'[i] = sendq[i + 1]
                         /\ Head(sendq) = sendq[1] /\ sendq[1] \in Jobs
                         /\ last = QueueSize + 1 /\ Len(memQueue) = QueueSize
      /\ sendq' \in Seq(Jobs)
  <2>1. CASE sendq = <<>>
    <3>1. Len(sendq) = 0
      BY <2>1
    <3>2. last = Len(memQueue)
      BY <1>1, <1>2, <1>4, <3>1 DEF IInv, Room
    <3> QED BY <1>3, <2>1, <3>1, <3>2
  <2>2. CASE sendq # <<>>
    <3>1. /\ Len(sendq) >= 1 /\ sendq' = Tail(sendq)
          /\ Head(sendq) = sendq[1] /\ sendq[1] \in Jobs
      BY <1>1, <1>3, <2>2
    <3>2. /\ sendq' \in Seq(Jobs) /\ Len(sendq') = Len(sendq) - 1
          /\ \A i \in 1..Len(sendq) - 1 : sendq'[i] = sendq[i + 1]
      BY <1>1, <2>2, <3>1
    <3>3. Len(memQueue) = QueueSize
      BY <2>2 DEF IInv, Room
    <3>4. last = QueueSize + 1
      BY <1>1, <1>2, <1>4, <3>1, <3>3
    <3> QED BY <2>2, <3>1, <3>2, <3>3, <3>4
  <2> QED BY <2>1, <2>2
<1>9. TypeOK'
  <2>1. call' \in [Jobs -> Answers]
    BY <1>1, <1>3, <1>8 DEF Answers
  <2> QED BY <1>6, <1>7, <1>8, <2>1 DEF IInv, TypeOK, Receive
<1>10. Border' = (IF sendq = <<>> THEN Border ELSE Border + 1) /\ Border \in Nat
  <2>1. Border' = (Len(started) + 1) + (last - 1) /\ Border = Len(started) + Len(memQueue)
    BY <1>6, <1>7 DEF Border
  <2>2. CASE sendq = <<>>
    BY <1>1, <1>8, <2>1, <2>2
  <2>3. CASE sendq # <<>>
    <3>1. last = QueueSize + 1 /\ Len(memQueue) = QueueSize
      BY <1>8, <2>3
    <3>2. QueueSize \in Nat /\ Len(started) \in Nat
      BY <1>1
    <3>3. Border' = Border + 1 /\ Border \in Nat
      BY <2>1, <3>1, <3>2
    <3> QED BY <2>3, <3>3
  <2> QED BY <2>2, <2>3
<1>11. Len(Line') = Len(Line) /\ Line \in Seq(Jobs) /\ Line' \in Seq(Jobs)
       /\ Border \in Nat /\ Len(Line) = Border + Len(sendq)
       /\ Border = Len(started) + Len(memQueue)
  <2>1. Line \in Seq(Jobs) /\ Border \in Nat /\ Len(Line) = Border + Len(sendq)
    BY LinePlaces DEF IInv
  <2>2. Line' \in Seq(Jobs) /\ Len(Line') = Border' + Len(sendq')
    BY <1>9, LinePlacesNext
  <2>3. Len(Line') = Len(Line)
    <3>1. CASE sendq = <<>>
      BY <1>8, <1>10, <2>1, <2>2, <3>1
    <3>2. CASE sendq # <<>>
      <4>1. Border' = Border + 1 /\ Len(sendq') = Len(sendq) - 1 /\ Len(sendq) \in Nat
        BY <1>1, <1>8, <1>10, <3>2
      <4> QED BY <2>1, <2>2, <4>1
    <3> QED BY <3>1, <3>2
  <2>4. Border = Len(started) + Len(memQueue)
    BY DEF Border
  <2> QED BY <2>1, <2>2, <2>3, <2>4
<1>12. ASSUME NEW i \in 1..Len(Line)
       PROVE  Line'[i] = Line[i]
  <2>1. Line'[i] = IF i <= Len(started) + 1 THEN started'[i]
                   ELSE IF i <= Border' THEN memQueue'[i - (Len(started) + 1)]
                   ELSE sendq'[i - Border']
    BY <1>6, <1>9, <1>11, LinePlacesNext
  <2>2. Line[i] = IF i <= Len(started) THEN started[i]
                  ELSE IF i <= Border THEN memQueue[i - Len(started)]
                  ELSE sendq[i - Border]
    BY LinePlaces DEF IInv
  <2>3. CASE i <= Len(started)
    BY <1>1, <1>6, <2>1, <2>2, <2>3
  <2>4. CASE i > Len(started)
    <3>1. i - Len(started) \in 1..Len(all)
      BY <1>1, <1>2, <1>11, <2>4
    <3>2. Line[i] = all[i - Len(started)]
      <4>1. all[i - Len(started)] = IF i - Len(started) <= Len(memQueue)
                                    THEN memQueue[i - Len(started)]
                                    ELSE sendq[(i - Len(started)) - Len(memQueue)]
        BY <1>2, <3>1
      <4>2. /\ i - Len(started) <= Len(memQueue) <=> i <= Border
            /\ (i - Len(started)) - Len(memQueue) = i - Border
            /\ ~(i <= Len(started))
        BY <1>1, <1>11, <2>4
      <4> QED BY <2>2, <4>1, <4>2
    <3>3. CASE i = Len(started) + 1
      BY <1>1, <1>6, <2>1, <3>2, <3>3
    <3>4. CASE i > Len(started) + 1 /\ i <= Border'
      <4>1. i - (Len(started) + 1) \in 1..last - 1
        BY <1>1, <1>6, <1>7, <3>4 DEF Border
      <4>2. Line'[i] = all[(i - (Len(started) + 1)) + 1]
        BY <1>1, <1>7, <2>1, <3>4, <4>1
      <4>3. (i - (Len(started) + 1)) + 1 = i - Len(started)
        BY <1>1
      <4> QED BY <3>2, <4>2, <4>3
    <3>5. CASE i > Len(started) + 1 /\ i > Border'
      <4>1. sendq # <<>> /\ Border' = Border + 1
        BY <1>8, <1>10, <1>11, <3>5
      <4>2. i - Border' \in 1..Len(sendq) - 1 /\ (i - Border') + 1 = i - Border
            /\ i > Border /\ i > Len(started)
        BY <1>1, <1>11, <3>5, <4>1
      <4>3. Line'[i] = sendq'[i - Border']
        BY <1>1, <1>11, <2>1, <3>5, <4>1
      <4>4. Line[i] = sendq[i - Border]
        BY <1>1, <1>11, <2>2, <4>2
      <4> QED BY <1>8, <4>1, <4>2, <4>3, <4>4
    <3>6. \/ i = Len(started) + 1
          \/ i > Len(started) + 1 /\ i <= Border'
          \/ i > Len(started) + 1 /\ i > Border'
      <4>1. Border' \in Nat /\ i \in Int
        BY <1>10, <1>11
      <4> QED BY <1>1, <2>4, <4>1
    <3> QED BY <3>3, <3>4, <3>5, <3>6
  <2> QED BY <1>1, <2>3, <2>4
<1>13. Line' = Line
  BY <1>11, <1>12
<1>14. Placed'
  <2>1. CASE sendq = <<>>
    BY <1>3, <1>9, <1>10, <1>13, <2>1, LineMoves DEF IInv, Receive
  <2>2. CASE sendq # <<>>
    <3>1. Border + 1 <= Len(Line) /\ Line[Border + 1] = sendq[1]
      <4>1. Border + 1 \in 1..Len(Line) /\ ~(Border + 1 <= Len(started))
            /\ ~(Border + 1 <= Border) /\ (Border + 1) - Border = 1
        BY <1>1, <1>8, <1>11, <2>2
      <4> QED BY <4>1, LinePlaces DEF IInv
    <3> QED BY <1>3, <1>8, <1>9, <1>10, <1>13, <2>2, <3>1, LineMoves DEF IInv, Receive
  <2> QED BY <2>1, <2>2
<1>15. Room'
  <2>1. CASE sendq = <<>>
    BY <1>1, <1>7, <1>8, <2>1 DEF IInv, Room
  <2>2. CASE sendq # <<>>
    BY <1>1, <1>7, <1>8, <2>2 DEF Room
  <2> QED BY <2>1, <2>2
<1>16. Drained'
  BY DEF IInv, Drained, Receive
<1> QED BY <1>9, <1>14, <1>15, <1>16 DEF IInv

\* A step that touches neither the calls nor the queue.
LEMMA QueueFrame ==
    ASSUME IInv, TypeOK', Drained', UNCHANGED <<call, memQueue, sendq, started>>
    PROVE  IInv'
<1>1. Line' = Line /\ Border' = Border
  BY DEF Line, Border
<1> QED BY <1>1 DEF IInv, Room, Placed

LEMMA PoolStep ==
    ASSUME QueueAssumption, IInv,
           \/ \E w \in Workers : ExecuteReturns(w) \/ ExecutePanics(w) \/ Exit(w)
           \/ Start \/ Interrupt
           \/ Shutdown \/ ShutdownReturns \/ ShutdownTimeout
    PROVE  IInv'
<1> USE DEF queueVars, poolVars, history
<1>1. UNCHANGED <<call, memQueue, sendq, started>>
  BY DEF ExecuteReturns, ExecutePanics, Exit, Start, Interrupt, Shutdown,
         ShutdownReturns, ShutdownTimeout
<1>2. TypeOK'
  <2>1. worker' \in [Workers -> {"new", "select", "execute", "exited"}]
    BY DEF IInv, TypeOK, ExecuteReturns, ExecutePanics, Exit, Start, Interrupt,
           Shutdown, ShutdownReturns, ShutdownTimeout
  <2>2. shutdown' \in {"none", "waiting", "nil", "error"}
    BY DEF IInv, TypeOK, ExecuteReturns, ExecutePanics, Exit, Start, Interrupt,
           Shutdown, ShutdownReturns, ShutdownTimeout
  <2> QED BY <1>1, <2>1, <2>2 DEF IInv, TypeOK
<1>3. 1 \in Workers
  BY DEF Workers, QueueAssumption
<1>4. Drained'
  BY <1>3 DEF IInv, TypeOK, Drained, ExecuteReturns, ExecutePanics, Exit, Start,
         Interrupt, Shutdown, ShutdownReturns, ShutdownTimeout
<1> QED BY <1>1, <1>2, <1>4, QueueFrame

LEMMA StutterStep ==
    ASSUME IInv, UNCHANGED vars
    PROVE  IInv'
<1> USE DEF vars, queueVars, poolVars, history
<1>1. TypeOK' /\ Drained'
  BY DEF IInv, TypeOK, Drained
<1> QED BY <1>1, QueueFrame

\* The inductive invariant holds of the enqueuer and the workers, whatever the
\* numbers of callers and goroutines and however they interleave.
THEOREM Invariance == Spec => []IInv
<1>1. QueueAssumption
  BY QueueAssumption
<1>2. Init => IInv
  BY <1>1, StartTypeOK
<1>3. IInv /\ [Next]_vars => IInv'
  BY <1>1, EnqueuePersistentStep, EnqueueStep, EnqueueCancelledStep, ReceiveStep,
     PoolStep, StutterStep DEF Next
<1> QED BY <1>2, <1>3, PTL DEF Spec
-----------------------------------------------------------------------------
(* Results *)

LEMMA AnswersFromPlaces ==
    ASSUME IInv
    PROVE  EnqueueAnswers
<1> SUFFICES ASSUME NEW j \in Jobs
             PROVE  /\ Cardinality({n \in DOMAIN started : started[n] = j})
                         + Cardinality({n \in DOMAIN memQueue : memQueue[n] = j})
                         = IF call[j] = "nil" THEN 1 ELSE 0
                    /\ call[j] = "blocked" <=> \E n \in DOMAIN sendq : sendq[n] = j
                    /\ call[j] = "blocked" => Len(memQueue) = QueueSize
  BY DEF EnqueueAnswers
<1> DEFINE places == {n \in DOMAIN started : started[n] = j}
           queued == {n \in DOMAIN memQueue : memQueue[n] = j}
<1>1. /\ DOMAIN started = 1..Len(started) /\ DOMAIN memQueue = 1..Len(memQueue)
      /\ DOMAIN sendq = 1..Len(sendq)
      /\ Len(started) \in Nat /\ Len(memQueue) \in Nat /\ Len(sendq) \in Nat
      /\ call \in [Jobs -> Answers]
  BY DEF IInv, TypeOK
<1>2. Len(Line) = Border + Len(sendq) /\ Border = Len(started) + Len(memQueue)
  BY LinePlaces DEF IInv, Border
<1>3. /\ \A n \in 1..Len(started) : n \in 1..Border /\ Line[n] = started[n]
      /\ \A n \in 1..Len(memQueue) :
            /\ Len(started) + n \in 1..Border
            /\ Line[Len(started) + n] = memQueue[n]
      /\ \A n \in 1..Len(sendq) : Border + n \in 1..Len(Line) /\ Line[Border + n] = sendq[n]
  <2>1. ASSUME NEW n \in 1..Len(started)
        PROVE  n \in 1..Border /\ Line[n] = started[n]
    <3>1. n \in 1..Len(Line) /\ n \in 1..Border /\ n <= Len(started)
      BY <1>1, <1>2
    <3> QED BY <3>1, LinePlaces DEF IInv
  <2>2. ASSUME NEW n \in 1..Len(memQueue)
        PROVE  /\ Len(started) + n \in 1..Border
               /\ Line[Len(started) + n] = memQueue[n]
    <3>1. /\ Len(started) + n \in 1..Len(Line) /\ Len(started) + n \in 1..Border
          /\ Len(started) + n <= Border /\ ~(Len(started) + n <= Len(started))
          /\ (Len(started) + n) - Len(started) = n
      BY <1>1, <1>2
    <3> QED BY <3>1, LinePlaces DEF IInv
  <2>3. ASSUME NEW n \in 1..Len(sendq)
        PROVE  Border + n \in 1..Len(Line) /\ Line[Border + n] = sendq[n]
    <3>1. /\ Border + n \in 1..Len(Line) /\ ~(Border + n <= Len(started))
          /\ ~(Border + n <= Border) /\ (Border + n) - Border = n
      BY <1>1, <1>2
    <3> QED BY <3>1, LinePlaces DEF IInv
  <2> QED BY <2>1, <2>2, <2>3
<1>4. \A n \in 1..Border : n \in 1..Len(Line) /\ call[Line[n]] = "nil"
  <2>1. \A n \in 1..Border : n \in 1..Len(Line) /\ n <= Border
    BY <1>1, <1>2
  <2> QED BY <2>1 DEF IInv, Placed
<1>5. Cardinality(places) + Cardinality(queued) = IF call[j] = "nil" THEN 1 ELSE 0
  <2>1. CASE call[j] = "nil"
    <3>1. PICK n \in 1..Len(Line) : Line[n] = j
      BY <2>1 DEF IInv, Placed
    <3>2. n <= Border
      BY <2>1, <3>1 DEF IInv, Placed
    <3>3. \A m \in 1..Border : Line[m] = j => m = n
      BY <1>4, <3>1 DEF IInv, Placed
    <3>4. CASE n <= Len(started)
      <4>1. n \in 1..Len(started) /\ started[n] = j
        BY <1>1, <1>3, <3>1, <3>4
      <4>2. places = {n}
        BY <1>1, <1>3, <3>3, <4>1
      <4>3. queued = {}
        <5>1. \A m \in 1..Len(memQueue) : Len(started) + m # n
          BY <1>1, <3>1, <3>4
        <5> QED BY <1>1, <1>3, <3>3, <5>1
      <4>4. Cardinality(places) = 1 /\ Cardinality(queued) = 0
        BY <4>2, <4>3, FS_Singleton, FS_EmptySet
      <4> QED BY <2>1, <4>4
    <3>5. CASE n > Len(started)
      <4>1. n - Len(started) \in 1..Len(memQueue)
        BY <1>1, <1>2, <3>1, <3>2, <3>5
      <4>2. memQueue[n - Len(started)] = j
        <5>1. Len(started) + (n - Len(started)) = n
          BY <1>1, <3>1
        <5> QED BY <1>3, <3>1, <4>1, <5>1
      <4>3. queued = {n - Len(started)}
        <5>1. \A m \in 1..Len(memQueue) : memQueue[m] = j => Len(started) + m = n
          BY <1>3, <3>3
        <5>2. \A m \in 1..Len(memQueue) : Len(started) + m = n => m = n - Len(started)
          BY <1>1, <3>1
        <5> QED BY <1>1, <4>1, <4>2, <5>1, <5>2
      <4>4. places = {}
        <5>1. \A m \in 1..Len(started) : m # n
          BY <1>1, <3>1, <3>5
        <5> QED BY <1>1, <1>3, <3>3, <5>1
      <4>5. Cardinality(places) = 0 /\ Cardinality(queued) = 1
        BY <4>3, <4>4, FS_Singleton, FS_EmptySet
      <4> QED BY <2>1, <4>5
    <3>6. n <= Len(started) \/ n > Len(started)
      BY <1>1, <3>1
    <3> QED BY <3>4, <3>5, <3>6
  <2>2. CASE call[j] # "nil"
    <3>1. places = {} /\ queued = {}
      <4>1. \A n \in 1..Border : Line[n] # j
        BY <1>4, <2>2
      <4>2. \A n \in 1..Len(started) : started[n] # j
        BY <1>3, <4>1
      <4>3. \A n \in 1..Len(memQueue) : memQueue[n] # j
        BY <1>3, <4>1
      <4> QED BY <1>1, <4>2, <4>3
    <3>2. Cardinality(places) = 0 /\ Cardinality(queued) = 0
      BY <3>1, FS_EmptySet
    <3> QED BY <2>2, <3>2
  <2> QED BY <2>1, <2>2
<1>6. call[j] = "blocked" <=> \E n \in DOMAIN sendq : sendq[n] = j
  <2>1. ASSUME call[j] = "blocked"
        PROVE  \E n \in DOMAIN sendq : sendq[n] = j
    <3>1. PICK n \in 1..Len(Line) : Line[n] = j
      BY <2>1 DEF IInv, Placed
    <3>2. ~(n <= Border)
      BY <2>1, <3>1 DEF IInv, Placed
    <3>3. n - Border \in 1..Len(sendq) /\ Border + (n - Border) = n
      BY <1>1, <1>2, <3>1, <3>2
    <3> QED BY <1>1, <1>3, <3>1, <3>3
  <2>2. ASSUME NEW n \in DOMAIN sendq, sendq[n] = j
        PROVE  call[j] = "blocked"
    <3>1. n \in 1..Len(sendq) /\ Border + n \in 1..Len(Line) /\ Line[Border + n] = j
      BY <1>1, <1>3, <2>2
    <3>2. ~(Border + n <= Border)
      BY <1>1, <1>2, <3>1
    <3> QED BY <3>1, <3>2 DEF IInv, Placed
  <2> QED BY <2>1, <2>2
<1>7. call[j] = "blocked" => Len(memQueue) = QueueSize
  BY <1>1, <1>6 DEF IInv, Room
<1> QED BY <1>5, <1>6, <1>7

\* Enqueue's answer is what happens to the job (enqueuer.go): accepted jobs
\* have one place in the buffer or in the hands of the workers, refused ones
\* none, and callers block only while the buffer is full.
THEOREM JobQueueEnqueueAnswers == Spec => []EnqueueAnswers
BY Invariance, AnswersFromPlaces, PTL

\* When Shutdown has returned nil (worker.go), no job is being executed and
\* none starts in any later step.
THEOREM JobQueueQuietAfterShutdown == Spec => QuietAfterShutdown
<1> DEFINE Quiet == shutdown = "nil" => /\ \A w \in Workers : worker[w] # "execute"
                                        /\ started' = started
<1>1. IInv /\ [Next]_vars => [Quiet]_vars
  <2> SUFFICES ASSUME IInv, Next, shutdown = "nil"
               PROVE  (\A w \in Workers : worker[w] # "execute") /\ started' = started
    OBVIOUS
  <2>1. \A w \in Workers : worker[w] = "exited"
    BY DEF IInv, Drained
  <2>2. started' = started
    BY <2>1 DEF Next, EnqueuePersistent, Enqueue, EnqueueCancelled, Receive, ExecuteReturns,
       ExecutePanics, Exit, Start, Interrupt, Shutdown, ShutdownReturns, ShutdownTimeout,
       queueVars, poolVars, history
  <2> QED BY <2>1, <2>2
<1>2. Spec => [][Next]_vars
  BY PTL DEF Spec
<1> QED BY <1>1, <1>2, Invariance, PTL DEF QuietAfterShutdown
=============================================================================
