--------------------------- MODULE SchedulerProofs --------------------------
(* Proofs about Scheduler for any number of instances, definitions, fire      *)
(* times and faults, on top of the invariant of the electors (PgLeaderProofs) *)
(* whose callers are the scheduler's ticks.                                   *)
EXTENDS Scheduler, FiniteSetTheorems, TLAPS

P == INSTANCE PgLeaderProofs WITH Callers <- Ticks, InstanceOf <- TickInstance, Keys <- Defs

Stages == {"none", "launched", "elect", "enqueue", "release", "done"}
Active == {"elect", "enqueue", "release"}

\* The ticks of definition d that run on instance i.
Runs(i, d) == {t \in Ticks : t[1] = i /\ t[2] = d /\ stage[t] \in Active}

Types ==
    /\ stage \in [Ticks -> Stages]
    /\ token \in [Instances -> [Defs -> BOOLEAN]]
    /\ now \in 0..MaxTime
    /\ nextFire \in [Instances -> [Defs -> Nat]]
    /\ startPc \in [Instances -> {"new", "adding", "waiting"}]
    /\ running \in [Instances -> BOOLEAN]
    /\ shutdown \in [Instances -> {"none", "cronWait", "wgWait", "nil", "error"}]
    /\ early \subseteq Instances

\* A tick calls the elector for its own definition, and only while it runs: it
\* leads when it enqueues and calls nothing before and after.
Calling ==
    \A t \in Ticks :
        /\ key[t] = t[2]
        /\ stage[t] \in {"none", "launched", "done"} => pc[t] = "idle"
        /\ stage[t] = "elect" => UseLeader /\ pc[t] \in {"idle", "dial", "query", "store"}
        /\ stage[t] = "enqueue" => pc[t] = IF UseLeader THEN "leader" ELSE "idle"
        /\ stage[t] = "release" => UseLeader /\ pc[t] \in {"leader", "unlock"}

\* Cron fires later and later: the next fire time of an entry is a new tick.
FireTimes ==
    /\ \A t \in Ticks : stage[t] # "none" =>
          startPc[t[1]] = "waiting" /\ t[3] < nextFire[t[1]][t[2]]
    /\ \A i \in Instances :
          /\ running[i] => startPc[i] = "waiting"
          /\ startPc[i] = "waiting" => \A d \in Defs : nextFire[i][d] >= 1

\* The token of a definition is away exactly while one tick runs with it.
Tokens ==
    \A i \in Instances, d \in Defs \ Overlap :
        IF token[i][d] THEN Runs(i, d) = {} ELSE \E t \in Ticks : Runs(i, d) = {t}

\* After a Shutdown that found cron started, cron stays stopped, and nothing is
\* launched once the wait for cron's jobs has ended.
Stopped ==
    \A i \in Instances \ early :
        /\ shutdown[i] # "none" => startPc[i] = "waiting" /\ ~running[i]
        /\ shutdown[i] \in {"wgWait", "nil"} => Launched(i) = {}

SInv == Types /\ Calling /\ FireTimes /\ Tokens /\ Stopped

IInv == P!ElectorInv /\ SInv
-----------------------------------------------------------------------------
(* The electors. *)

\* The electors' assumptions hold of the scheduler's ticks.
LEMMA ElectorAssumptions ==
    P!CallersAssumption /\ P!PoolAssumption /\ P!BoundsAssumption /\ P!NoneAssumption
<1>1. TickInstance \in [Ticks -> Instances]
  BY DEF TickInstance, Ticks
<1>2. IsFiniteSet(1..MaxTime)
  BY SchedulerAssumption, FS_Interval DEF SchedulerAssumption
<1>3. IsFiniteSet(Ticks)
  <2> DEFINE Pairs == (Instances \X Defs) \X (1..MaxTime)
             pair == [t \in Ticks |-> <<<<t[1], t[2]>>, t[3]>>]
  <2>1. IsFiniteSet(Pairs)
    <3>1. IsFiniteSet(Instances \X Defs)
      BY SchedulerAssumption, FS_Product DEF SchedulerAssumption
    <3> QED
      BY <3>1, <1>2, FS_Product
  <2>2. pair \in Injection(Ticks, Pairs)
    <3>1. \A t \in Ticks : pair[t] \in Pairs
      BY DEF Ticks
    <3>2. \A t, u \in Ticks : pair[t] = pair[u] => t = u
      BY DEF Ticks
    <3> QED
      BY <3>1, <3>2 DEF Injection, IsInjective
  <2> HIDE DEF Pairs, pair
  <2> QED
    BY <2>1, <2>2, FS_Injection
<1>4. P!CallersAssumption
  BY <1>1, <1>3 DEF P!CallersAssumption, IsFiniteSet, P!IsFiniteSet
<1>5. P!PoolAssumption /\ P!BoundsAssumption
  BY SchedulerAssumption DEF SchedulerAssumption, P!PoolAssumption, P!BoundsAssumption
<1>6. P!NoneAssumption
  BY NoneAssumption DEF P!NoneAssumption, L!Sessions, L!Entry, P!Sessions, P!Entry
<1> QED
  BY <1>4, <1>5, <1>6

\* A tick's calls are steps of its caller, and leave the other ticks alone.
LEMMA ElectCalls ==
    ASSUME Types, Calling, NEW t \in Ticks, Elect(t), key \in [Ticks -> Defs]
    PROVE  /\ P!CallerStep(t)
           /\ key' = key
           /\ \E x \in {"idle", "dial", "query", "store", "leader"} : pc' = [pc EXCEPT ![t] = x]
<1> USE DEF P!closeVars, P!faultVars, L!closeVars, L!faultVars
<1>1. CASE L!TryAcquire(t, t[2])
  <2>1. t[2] \in Defs /\ key \in [Ticks -> Defs] /\ key[t] = t[2]
    BY DEF Calling, Ticks
  <2>2. P!TryAcquire(t, t[2])
    BY <1>1 DEF L!TryAcquire, P!TryAcquire
  <2>3. key' = key /\ \E x \in {"idle", "dial", "query", "store", "leader"} : pc' = [pc EXCEPT ![t] = x]
    BY <1>1, <2>1 DEF L!TryAcquire
  <2> QED
    BY <2>1, <2>2, <2>3 DEF P!CallerStep
<1>2. CASE L!Dial(t)
  <2>1. P!Dial(t)
    BY <1>2 DEF L!Dial, P!Dial, L!PoolOf, P!PoolOf
  <2>2. key' = key /\ \E x \in {"idle", "dial", "query", "store", "leader"} : pc' = [pc EXCEPT ![t] = x]
    BY <1>2 DEF L!Dial
  <2> QED
    BY <2>1, <2>2 DEF P!CallerStep
<1>3. CASE L!DialFails(t)
  <2>1. P!DialFails(t)
    BY <1>3 DEF L!DialFails, P!DialFails
  <2>2. key' = key /\ \E x \in {"idle", "dial", "query", "store", "leader"} : pc' = [pc EXCEPT ![t] = x]
    BY <1>3 DEF L!DialFails
  <2> QED
    BY <2>1, <2>2 DEF P!CallerStep
<1>4. CASE L!LockQuery(t)
  <2>1. P!LockQuery(t)
    BY <1>4 DEF L!LockQuery, P!LockQuery, L!Free, P!Free, L!CloseConn, P!CloseConn, L!Sessions, P!Sessions
  <2>2. key' = key /\ \E x \in {"idle", "dial", "query", "store", "leader"} : pc' = [pc EXCEPT ![t] = x]
    BY <1>4 DEF L!LockQuery
  <2> QED
    BY <2>1, <2>2 DEF P!CallerStep
<1>5. CASE L!LockQueryFails(t)
  <2>1. P!LockQueryFails(t)
    BY <1>5 DEF L!LockQueryFails, P!LockQueryFails, L!QueryFails, P!QueryFails, L!CloseConn, P!CloseConn
  <2>2. key' = key /\ \E x \in {"idle", "dial", "query", "store", "leader"} : pc' = [pc EXCEPT ![t] = x]
    BY <1>5 DEF L!LockQueryFails
  <2> QED
    BY <2>1, <2>2 DEF P!CallerStep
<1>6. CASE L!Store(t)
  <2>1. P!Store(t)
    BY <1>6 DEF L!Store, P!Store
  <2>2. key' = key /\ \E x \in {"idle", "dial", "query", "store", "leader"} : pc' = [pc EXCEPT ![t] = x]
    BY <1>6 DEF L!Store
  <2> QED
    BY <2>1, <2>2 DEF P!CallerStep
<1> QED
  BY <1>1, <1>2, <1>3, <1>4, <1>5, <1>6 DEF Elect

LEMMA ReleaseCalls ==
    ASSUME NEW t \in Ticks, Release(t)
    PROVE  /\ P!CallerStep(t)
           /\ key' = key
           /\ \E x \in {"idle", "unlock"} : pc' = [pc EXCEPT ![t] = x]
<1> USE DEF P!closeVars, P!faultVars, L!closeVars, L!faultVars
<1>1. CASE L!Release(t)
  <2>1. P!Release(t)
    BY <1>1 DEF L!Release, P!Release
  <2>2. key' = key /\ \E x \in {"idle", "unlock"} : pc' = [pc EXCEPT ![t] = x]
    BY <1>1 DEF L!Release
  <2> QED
    BY <2>1, <2>2 DEF P!CallerStep
<1>2. CASE L!Unlock(t)
  <2>1. P!Unlock(t)
    BY <1>2 DEF L!Unlock, P!Unlock, L!AdvisoryUnlock, P!AdvisoryUnlock, L!QueryFails, P!QueryFails,
       L!CloseConn, P!CloseConn
  <2>2. key' = key /\ \E x \in {"idle", "unlock"} : pc' = [pc EXCEPT ![t] = x]
    BY <1>2 DEF L!Unlock
  <2> QED
    BY <2>1, <2>2 DEF P!CallerStep
<1> QED
  BY <1>1, <1>2 DEF Release

\* The steps of CloseLeader and SessionLost are the electors' own.
LEMMA CloseCalls ==
    ASSUME NEW i \in Instances, L!CloseStep(i)
    PROVE  P!CloseStep(i) /\ UNCHANGED <<pc, key>>
<1> USE DEF P!callerVars, P!closeVars, P!faultVars, L!callerVars, L!closeVars, L!faultVars
<1>1. CASE L!CloseSwap(i)
  BY <1>1 DEF L!CloseSwap, P!CloseSwap, P!CloseStep
<1>2. CASE L!CloseUnlock(i)
  BY <1>2 DEF L!CloseUnlock, P!CloseUnlock, P!CloseStep, L!AdvisoryUnlock, P!AdvisoryUnlock,
     L!QueryFails, P!QueryFails, L!CloseConn, P!CloseConn
<1>3. CASE L!CloseReturnConn(i)
  BY <1>3 DEF L!CloseReturnConn, P!CloseReturnConn, P!CloseStep, L!CloseConn, P!CloseConn
<1>4. CASE L!CloseCtxDone(i)
  BY <1>4 DEF L!CloseCtxDone, P!CloseCtxDone, P!CloseStep
<1> QED
  BY <1>1, <1>2, <1>3, <1>4 DEF L!CloseStep

LEMMA LostCalls ==
    ASSUME NEW s \in L!Sessions, L!SessionLost(s)
    PROVE  s \in P!Sessions /\ P!SessionLost(s) /\ UNCHANGED <<pc, key>>
BY DEF L!SessionLost, P!SessionLost, L!Sessions, P!Sessions, L!Ids, P!Ids,
   P!callerVars, P!closeVars, L!callerVars, L!closeVars
-----------------------------------------------------------------------------
(* One step. *)

\* What a step of tick t does to its stage and to the token of its definition:
\* it is skipped, begins, goes on, or ends.
TickEffect(t) ==
    \E s \in Stages \ {"none", "launched"} :
        /\ stage[t] \in Active \cup {"launched"}
        /\ stage' = [stage EXCEPT ![t] = s]
        /\ \/ stage[t] = "launched" /\ s = "done" /\ token' = token
           \/ /\ stage[t] = "launched" /\ s \in Active
              /\ \/ t[2] \in Overlap /\ token' = token
                 \/ /\ t[2] \notin Overlap /\ token[t[1]][t[2]]
                    /\ token' = [token EXCEPT ![t[1]][t[2]] = FALSE]
           \/ stage[t] \in Active /\ s \in Active /\ token' = token
           \/ /\ stage[t] \in Active /\ s = "done"
              /\ \/ t[2] \in Overlap /\ token' = token
                 \/ t[2] \notin Overlap /\ token' = [token EXCEPT ![t[1]][t[2]] = TRUE]

\* The elector's part of a step of tick t.
ElectorStep(t) ==
    \/ P!CallerStep(t)
    \/ UNCHANGED P!vars
    \/ /\ errors' = errors + 1
       /\ UNCHANGED <<locks, pc, key, conn, sess, held, closing, closeAt, ctxDone, closes, losses>>

\* The tick after its elector call.
LEMMA AfterCall ==
    ASSUME Types, Calling, NEW t \in Ticks, UseLeader,
           NEW goOn \in {"enqueue", "release"}, After(t, goOn),
           stage[t] \in {"elect", "release"}, key' = key,
           NEW x \in {"idle", "dial", "query", "store", "leader", "unlock"},
           pc \in [Ticks -> {"idle", "dial", "query", "store", "leader", "unlock"}],
           pc' = [pc EXCEPT ![t] = x],
           stage[t] = "elect" => x # "unlock" /\ goOn = "enqueue",
           stage[t] = "release" => x \in {"idle", "unlock"}
    PROVE  TickEffect(t) /\ Calling'
<1>1. pc'[t] = x /\ \A u \in Ticks \ {t} : pc'[u] = pc[u]
  OBVIOUS
<1>2. CASE x = "idle"
  <2>1. stage' = [stage EXCEPT ![t] = "done"]
    BY <1>1, <1>2 DEF After
  <2>2. token' = IF t[2] \in Overlap THEN token ELSE [token EXCEPT ![t[1]][t[2]] = TRUE]
    BY <1>1, <1>2 DEF After
  <2>3. TickEffect(t)
    BY <2>1, <2>2 DEF TickEffect, Stages, Active
  <2>4. stage'[t] = "done" /\ \A u \in Ticks \ {t} : stage'[u] = stage[u]
    BY <2>1 DEF Types
  <2> QED
    BY <1>1, <1>2, <2>3, <2>4 DEF Calling
<1>3. CASE x = "leader"
  <2>1. stage' = [stage EXCEPT ![t] = "enqueue"] /\ stage[t] = "elect"
    BY <1>1, <1>3 DEF After
  <2>2. token' = token
    BY <1>1, <1>3 DEF After
  <2>3. TickEffect(t)
    BY <2>1, <2>2 DEF TickEffect, Stages, Active
  <2>4. stage'[t] = "enqueue" /\ \A u \in Ticks \ {t} : stage'[u] = stage[u]
    BY <2>1 DEF Types
  <2> QED
    BY <1>1, <1>3, <2>3, <2>4 DEF Calling
<1>4. CASE x \notin {"idle", "leader"}
  <2>1. stage' = [stage EXCEPT ![t] = stage[t]]
    BY <1>1, <1>4 DEF After
  <2>2. token' = token
    BY <1>1, <1>4 DEF After
  <2>3. TickEffect(t)
    BY <2>1, <2>2 DEF TickEffect, Stages, Active
  <2>4. stage' = stage
    BY <2>1 DEF Types
  <2> QED
    BY <1>1, <1>4, <2>3, <2>4 DEF Calling
<1> QED
  BY <1>2, <1>3, <1>4

\* The tick after Enqueue has answered.
LEMMA AfterEnqueue ==
    ASSUME Types, Calling, NEW t \in Ticks, stage[t] = "enqueue", EnqueueEnds(t),
           UNCHANGED <<pc, key>>
    PROVE  TickEffect(t) /\ Calling'
<1>1. CASE UseLeader
  <2>1. stage' = [stage EXCEPT ![t] = "release"] /\ token' = token
    BY <1>1 DEF EnqueueEnds
  <2>2. TickEffect(t)
    BY <2>1 DEF TickEffect, Stages, Active
  <2>3. stage'[t] = "release" /\ \A u \in Ticks \ {t} : stage'[u] = stage[u]
    BY <2>1 DEF Types
  <2> QED
    BY <1>1, <2>2, <2>3 DEF Calling
<1>2. CASE ~UseLeader
  <2>1. /\ stage' = [stage EXCEPT ![t] = "done"]
        /\ token' = IF t[2] \in Overlap THEN token ELSE [token EXCEPT ![t[1]][t[2]] = TRUE]
    BY <1>2 DEF EnqueueEnds
  <2>2. TickEffect(t)
    BY <2>1 DEF TickEffect, Stages, Active
  <2>3. stage'[t] = "done" /\ \A u \in Ticks \ {t} : stage'[u] = stage[u]
    BY <2>1 DEF Types
  <2> QED
    BY <1>2, <2>2, <2>3 DEF Calling
<1> QED
  BY <1>1, <1>2

LEMMA TickSteps ==
    ASSUME Types, Calling, P!ElectorInv, NEW t \in Ticks, TickStep(t)
    PROVE  TickEffect(t) /\ Calling' /\ ElectorStep(t) /\ UNCHANGED <<cronVars, stopVars>>
<1>0. /\ pc \in [Ticks -> {"idle", "dial", "query", "store", "leader", "unlock"}]
      /\ key \in [Ticks -> Defs]
  BY DEF P!ElectorInv, P!IInv, P!TypeOK
<1>1. CASE Begin(t)
  <2>1. UNCHANGED P!vars /\ UNCHANGED <<cronVars, stopVars>>
    BY <1>1 DEF Begin, leaderVars, P!vars, P!callerVars, P!closeVars, P!faultVars
  <2>2. CASE stage' = [stage EXCEPT ![t] = "done"] /\ token' = token
    <3>1. TickEffect(t)
      BY <1>1, <2>2 DEF Begin, TickEffect, Stages, Active
    <3>2. stage'[t] = "done" /\ \A u \in Ticks \ {t} : stage'[u] = stage[u]
      BY <2>2 DEF Types
    <3>3. UNCHANGED <<pc, key>> /\ stage[t] = "launched"
      BY <1>1, <2>1 DEF Begin, P!vars, P!callerVars
    <3>4. Calling'
      BY <3>2, <3>3 DEF Calling
    <3> QED
      BY <2>1, <3>1, <3>4 DEF ElectorStep
  <2>3. CASE /\ t[2] \in Overlap \/ token[t[1]][t[2]]
             /\ stage' = [stage EXCEPT ![t] = IF UseLeader THEN "elect" ELSE "enqueue"]
             /\ token' = IF t[2] \in Overlap THEN token ELSE [token EXCEPT ![t[1]][t[2]] = FALSE]
    <3> DEFINE s == IF UseLeader THEN "elect" ELSE "enqueue"
    <3>0. s \in {"elect", "enqueue"} /\ stage' = [stage EXCEPT ![t] = s] /\ stage[t] = "launched"
      BY <1>1, <2>3 DEF Begin
    <3>1. TickEffect(t)
      <4> HIDE DEF s
      <4> QED
        BY <2>3, <3>0 DEF TickEffect, Stages, Active
    <3>2. stage'[t] = s /\ \A u \in Ticks \ {t} : stage'[u] = stage[u]
      BY <2>3 DEF Types
    <3>3. UNCHANGED <<pc, key>>
      BY <2>1 DEF P!vars, P!callerVars
    <3>4. Calling'
      BY <3>0, <3>2, <3>3 DEF Calling
    <3> QED
      BY <2>1, <3>1, <3>4 DEF ElectorStep
  <2> QED
    BY <1>1, <2>2, <2>3 DEF Begin
<1>2. CASE Elect(t)
  <2>1. /\ P!CallerStep(t)
        /\ key' = key
        /\ \E x \in {"idle", "dial", "query", "store", "leader"} : pc' = [pc EXCEPT ![t] = x]
    BY <1>0, <1>2, ElectCalls
  <2>2. PICK x \in {"idle", "dial", "query", "store", "leader"} : pc' = [pc EXCEPT ![t] = x]
    BY <2>1
  <2>3. stage[t] = "elect" /\ UseLeader /\ After(t, "enqueue") /\ UNCHANGED <<cronVars, stopVars>>
    BY <1>2 DEF Elect, Calling
  <2>4. TickEffect(t) /\ Calling'
    BY <1>0, <2>1, <2>2, <2>3, AfterCall
  <2> QED
    BY <2>1, <2>3, <2>4 DEF ElectorStep
<1>3. CASE EnqueueMem(t) \/ EnqueueDb(t)
  <2>1. /\ stage[t] = "enqueue" /\ EnqueueEnds(t)
        /\ UNCHANGED <<leaderVars, cronVars, stopVars>>
    BY <1>3 DEF EnqueueMem, EnqueueDb
  <2>2. UNCHANGED P!vars /\ UNCHANGED <<pc, key>>
    BY <2>1 DEF leaderVars, P!vars, P!callerVars, P!closeVars, P!faultVars
  <2> QED
    BY <2>1, <2>2, AfterEnqueue DEF ElectorStep
<1>4. CASE EnqueueFails(t)
  <2>1. /\ stage[t] = "enqueue" /\ EnqueueEnds(t) /\ errors' = errors + 1
        /\ UNCHANGED <<locks, pc, key, conn, sess, held, closing, closeAt, ctxDone, closes, losses>>
        /\ UNCHANGED <<cronVars, stopVars>>
    BY <1>4 DEF EnqueueFails
  <2> QED
    BY <2>1, AfterEnqueue DEF ElectorStep
<1>5. CASE Release(t)
  <2>1. P!CallerStep(t) /\ key' = key /\ \E x \in {"idle", "unlock"} : pc' = [pc EXCEPT ![t] = x]
    BY <1>5, ReleaseCalls
  <2>2. PICK x \in {"idle", "unlock"} : pc' = [pc EXCEPT ![t] = x]
    BY <2>1
  <2>3. stage[t] = "release" /\ UseLeader /\ After(t, "release") /\ UNCHANGED <<cronVars, stopVars>>
    BY <1>5 DEF Release, Calling
  <2>4. TickEffect(t) /\ Calling'
    BY <1>0, <2>1, <2>2, <2>3, AfterCall
  <2> QED
    BY <2>1, <2>3, <2>4 DEF ElectorStep
<1> QED
  BY <1>1, <1>2, <1>3, <1>4, <1>5 DEF TickStep

\* A step of a tick keeps the rest of the invariant.
LEMMA TickKeeps ==
    ASSUME SInv, NEW t \in Ticks, TickEffect(t), UNCHANGED <<cronVars, stopVars>>
    PROVE  Types' /\ FireTimes' /\ Tokens' /\ Stopped'
<1> USE DEF SInv
<1>0. t[1] \in Instances /\ t[2] \in Defs
  BY DEF Ticks
<1>1. PICK s \in Stages \ {"none", "launched"} :
        /\ stage[t] \in Active \cup {"launched"}
        /\ stage' = [stage EXCEPT ![t] = s]
  BY DEF TickEffect
<1>2. stage'[t] = s /\ \A u \in Ticks \ {t} : stage'[u] = stage[u]
  BY <1>1 DEF Types
<1>3. Types'
  <2>1. token' \in [Instances -> [Defs -> BOOLEAN]]
    <3>1. \/ token' = token
          \/ token' = [token EXCEPT ![t[1]][t[2]] = FALSE]
          \/ token' = [token EXCEPT ![t[1]][t[2]] = TRUE]
      BY DEF TickEffect
    <3>2. \A b \in BOOLEAN :
             [token EXCEPT ![t[1]][t[2]] = b] \in [Instances -> [Defs -> BOOLEAN]]
      BY <1>0 DEF Types
    <3> QED
      BY <3>1, <3>2 DEF Types
  <2>2. stage' \in [Ticks -> Stages]
    BY <1>1 DEF Types
  <2> QED
    BY <2>1, <2>2 DEF Types, cronVars, stopVars
<1>4. FireTimes'
  BY <1>1, <1>2 DEF FireTimes, cronVars, Active
<1>5. Stopped'
  <2> SUFFICES ASSUME NEW i \in Instances \ early, shutdown[i] \in {"wgWait", "nil"}
               PROVE  Launched(i)' = {}
    BY DEF Stopped, cronVars, stopVars
  <2>1. Launched(i) = {}
    BY DEF Stopped
  <2>2. t[1] # i
    BY <1>1, <2>1 DEF Launched, Active
  <2> QED
    BY <1>2, <2>1, <2>2 DEF Launched
<1>6. Tokens'
  <2> SUFFICES ASSUME NEW i \in Instances, NEW d \in Defs \ Overlap
               PROVE  IF token'[i][d] THEN Runs(i, d)' = {} ELSE \E u \in Ticks : Runs(i, d)' = {u}
    BY DEF Tokens
  <2>1. IF token[i][d] THEN Runs(i, d) = {} ELSE \E u \in Ticks : Runs(i, d) = {u}
    BY DEF Tokens
  <2>2. CASE t[1] = i /\ t[2] = d
    <3>1. CASE stage[t] = "launched" /\ stage'[t] = "done" /\ token' = token
      <4>1. Runs(i, d)' = Runs(i, d)
        BY <1>2, <3>1 DEF Runs, Active
      <4> QED
        BY <2>1, <3>1, <4>1
    <3>2. CASE /\ stage[t] = "launched" /\ stage'[t] \in Active /\ token[i][d]
               /\ token' = [token EXCEPT ![i][d] = FALSE]
      <4>1. Runs(i, d) = {}
        BY <2>1, <3>2
      <4>2. Runs(i, d)' = {t}
        BY <1>2, <2>2, <3>2, <4>1 DEF Runs
      <4>3. ~token'[i][d]
        BY <3>2 DEF Types
      <4> QED
        BY <4>2, <4>3
    <3>3. CASE stage[t] \in Active /\ stage'[t] \in Active /\ token' = token
      <4>1. Runs(i, d)' = Runs(i, d)
        BY <1>2, <3>3 DEF Runs
      <4> QED
        BY <2>1, <3>3, <4>1
    <3>4. CASE stage[t] \in Active /\ stage'[t] = "done" /\ token' = [token EXCEPT ![i][d] = TRUE]
      <4>1. t \in Runs(i, d)
        BY <2>2, <3>4 DEF Runs
      <4>2. Runs(i, d) = {t}
        BY <2>1, <4>1
      <4>3. Runs(i, d)' = {}
        BY <1>2, <3>4, <4>2 DEF Runs, Active
      <4>4. token'[i][d]
        BY <3>4 DEF Types
      <4> QED
        BY <4>3, <4>4
    <3>5. \/ stage[t] = "launched" /\ stage'[t] = "done" /\ token' = token
          \/ /\ stage[t] = "launched" /\ stage'[t] \in Active /\ token[i][d]
             /\ token' = [token EXCEPT ![i][d] = FALSE]
          \/ stage[t] \in Active /\ stage'[t] \in Active /\ token' = token
          \/ stage[t] \in Active /\ stage'[t] = "done" /\ token' = [token EXCEPT ![i][d] = TRUE]
      <4>1. PICK x \in Stages \ {"none", "launched"} :
              /\ stage' = [stage EXCEPT ![t] = x]
              /\ \/ stage[t] = "launched" /\ x = "done" /\ token' = token
                 \/ /\ stage[t] = "launched" /\ x \in Active
                    /\ \/ t[2] \in Overlap /\ token' = token
                       \/ /\ t[2] \notin Overlap /\ token[t[1]][t[2]]
                          /\ token' = [token EXCEPT ![t[1]][t[2]] = FALSE]
                 \/ stage[t] \in Active /\ x \in Active /\ token' = token
                 \/ /\ stage[t] \in Active /\ x = "done"
                    /\ \/ t[2] \in Overlap /\ token' = token
                       \/ t[2] \notin Overlap /\ token' = [token EXCEPT ![t[1]][t[2]] = TRUE]
        BY DEF TickEffect
      <4>2. x = stage'[t]
        BY <4>1 DEF Types
      <4> QED
        BY <2>2, <4>1, <4>2
    <3> QED
      BY <3>1, <3>2, <3>3, <3>4, <3>5
  <2>3. CASE ~(t[1] = i /\ t[2] = d)
    <3>1. Runs(i, d)' = Runs(i, d)
      BY <1>2, <2>3 DEF Runs
    <3>2. token'[i][d] = token[i][d]
      BY <1>0, <2>3 DEF TickEffect, Types
    <3> QED
      BY <2>1, <3>1, <3>2
  <2> QED
    BY <2>2, <2>3
<1> QED
  BY <1>3, <1>4, <1>5, <1>6

\* Cron launches a tick that was not launched before.
LEMMA FireIsNew ==
    ASSUME Types, FireTimes, NEW i \in Instances, NEW d \in Defs, Fire(i, d)
    PROVE  LET t == <<i, d, nextFire[i][d]>> IN
           /\ t \in Ticks /\ stage[t] = "none"
           /\ stage' = [stage EXCEPT ![t] = "launched"]
           /\ nextFire' = [nextFire EXCEPT ![i][d] = now + Period[d]]
           /\ now + Period[d] \in Nat /\ nextFire[i][d] < now + Period[d]
<1> DEFINE n == nextFire[i][d]
<1>1. n \in Nat /\ n >= 1 /\ n <= now /\ now \in Nat /\ now <= MaxTime /\ MaxTime \in Nat
  BY SchedulerAssumption DEF SchedulerAssumption, Fire, FireTimes, Types
<1>2. n \in 1..MaxTime
  BY <1>1
<1>3. <<i, d, n>> \in Ticks
  BY <1>2 DEF Ticks
<1>4. stage[<<i, d, n>>] = "none"
  BY <1>1, <1>3 DEF FireTimes
<1>5. Period[d] \in Nat /\ Period[d] >= 1
  BY SchedulerAssumption DEF SchedulerAssumption
<1> QED
  BY <1>1, <1>3, <1>4, <1>5 DEF Fire

LEMMA FireKeeps ==
    ASSUME SInv, NEW i \in Instances, NEW d \in Defs, Fire(i, d)
    PROVE  SInv'
<1> USE DEF SInv
<1>1. PICK t : t = <<i, d, nextFire[i][d]>>
  OBVIOUS
<1>2. PICK n : n = now + Period[d]
  OBVIOUS
<1>3. /\ t \in Ticks /\ stage[t] = "none" /\ t[1] = i /\ t[2] = d /\ t[3] = nextFire[i][d]
      /\ stage' = [stage EXCEPT ![t] = "launched"]
      /\ nextFire' = [nextFire EXCEPT ![i][d] = n]
      /\ n \in Nat /\ nextFire[i][d] < n
  BY <1>1, <1>2, FireIsNew
<1>4. stage'[t] = "launched" /\ \A u \in Ticks \ {t} : stage'[u] = stage[u]
  BY <1>3 DEF Types
<1>5. /\ running[i] /\ UNCHANGED <<pc, key, now, startPc, running, stopVars, token>>
  BY DEF Fire, leaderVars
<1>6. nextFire' \in [Instances -> [Defs -> Nat]]
  BY <1>3 DEF Types
<1>7. \A j \in Instances, e \in Defs : nextFire[j][e] <= nextFire'[j][e]
  BY <1>3 DEF Types
<1>8. Types'
  BY <1>3, <1>5, <1>6 DEF Types, Stages, stopVars
<1>9. Calling'
  BY <1>3, <1>4, <1>5 DEF Calling
<1>10. FireTimes'
  <2>1. nextFire'[i][d] = n
    BY <1>3 DEF Types
  <2>2. \A u \in Ticks \ {t} : stage'[u] # "none" =>
           startPc[u[1]] = "waiting" /\ u[3] < nextFire'[u[1]][u[2]]
    <3> SUFFICES ASSUME NEW u \in Ticks \ {t}, stage'[u] # "none"
                 PROVE  startPc[u[1]] = "waiting" /\ u[3] < nextFire'[u[1]][u[2]]
      OBVIOUS
    <3>1. u[1] \in Instances /\ u[2] \in Defs /\ u[3] \in Nat
      BY DEF Ticks
    <3>2. startPc[u[1]] = "waiting" /\ u[3] < nextFire[u[1]][u[2]]
      BY <1>4 DEF FireTimes
    <3>3. nextFire[u[1]][u[2]] \in Nat /\ nextFire'[u[1]][u[2]] \in Nat
      BY <1>6, <3>1 DEF Types
    <3>4. nextFire[u[1]][u[2]] <= nextFire'[u[1]][u[2]]
      BY <1>7, <3>1
    <3> QED
      BY <3>1, <3>2, <3>3, <3>4
  <2>3. startPc[t[1]] = "waiting" /\ t[3] < nextFire'[t[1]][t[2]]
    BY <1>3, <1>5, <2>1 DEF FireTimes
  <2>4. \A j \in Instances : startPc[j] = "waiting" => \A e \in Defs : nextFire'[j][e] >= 1
    <3> SUFFICES ASSUME NEW j \in Instances, startPc[j] = "waiting", NEW e \in Defs
                 PROVE  nextFire'[j][e] >= 1
      OBVIOUS
    <3>1. nextFire[j][e] \in Nat /\ nextFire'[j][e] \in Nat /\ nextFire[j][e] >= 1
      BY <1>6 DEF FireTimes, Types
    <3> QED
      BY <1>7, <3>1
  <2> QED
    BY <1>5, <2>2, <2>3, <2>4 DEF FireTimes
<1>11. Tokens'
  <2>1. \A j, e : Runs(j, e)' = Runs(j, e)
    BY <1>3, <1>4 DEF Runs, Active
  <2> QED
    BY <1>5, <2>1 DEF Tokens
<1>12. Stopped'
  <2>1. \A j \in Instances \ early : shutdown[j] # "none" => j # i
    BY <1>5 DEF Stopped
  <2>2. \A j \in Instances : j # i => Launched(j)' = Launched(j)
    BY <1>3, <1>4 DEF Launched
  <2> QED
    BY <1>5, <2>1, <2>2 DEF Stopped, stopVars
<1> QED
  BY <1>8, <1>9, <1>10, <1>11, <1>12

\* The other steps of an instance leave the ticks and their calls alone.
LEMMA InstanceKeeps ==
    ASSUME SInv, NEW i \in Instances, UNCHANGED <<pc, key, tickVars>>,
           \/ Start(i) \/ CronStart(i) \/ Shutdown(i) \/ CronStopped(i)
           \/ ShutdownReturns(i) \/ ShutdownTimesOut(i)
    PROVE  SInv'
<1> USE DEF SInv
<1>0. \A j : Launched(j)' = Launched(j)
  BY DEF Launched, tickVars
<1>1. Calling' /\ Tokens'
  BY DEF Calling, Tokens, Runs, tickVars
<1>2. CASE Start(i)
  <2>1. Types'
    BY <1>2 DEF Types, Start, stopVars, tickVars
  <2>2. FireTimes'
    BY <1>2 DEF FireTimes, Types, Start, stopVars, tickVars
  <2>3. Stopped'
    BY <1>0, <1>2 DEF Stopped, Types, Start, stopVars
  <2> QED
    BY <1>1, <2>1, <2>2, <2>3
<1>3. CASE CronStart(i)
  <2>1. PICK next : next = [d \in Defs |-> now + Period[d]]
    OBVIOUS
  <2>2. /\ startPc[i] = "adding" /\ startPc' = [startPc EXCEPT ![i] = "waiting"]
        /\ running' = [running EXCEPT ![i] = TRUE]
        /\ nextFire' = [nextFire EXCEPT ![i] = next]
        /\ UNCHANGED <<now, stopVars>>
    BY <1>3, <2>1 DEF CronStart
  <2>3. \A d \in Defs : now \in Nat /\ Period[d] \in Nat /\ Period[d] >= 1
    BY SchedulerAssumption DEF SchedulerAssumption, Types
  <2>4. next \in [Defs -> Nat] /\ \A d \in Defs : next[d] >= 1
    BY <2>1, <2>3
  <2>5. Types'
    BY <2>2, <2>4 DEF Types, stopVars, tickVars
  <2>6. \A t \in Ticks : stage[t] # "none" => t[1] # i
    BY <2>2 DEF FireTimes
  <2>7. FireTimes'
    <3>1. \A t \in Ticks : stage[t] # "none" =>
             startPc'[t[1]] = "waiting" /\ t[3] < nextFire'[t[1]][t[2]]
      BY <2>2, <2>6 DEF FireTimes, Types, Ticks
    <3>2. \A j \in Instances :
             /\ running'[j] => startPc'[j] = "waiting"
             /\ startPc'[j] = "waiting" => \A d \in Defs : nextFire'[j][d] >= 1
      BY <2>2, <2>4 DEF FireTimes, Types
    <3> QED
      BY <3>1, <3>2 DEF FireTimes, tickVars
  <2>8. Stopped'
    BY <1>0, <2>2 DEF Stopped, Types, stopVars
  <2> QED
    BY <1>1, <2>5, <2>7, <2>8
<1>4. CASE Shutdown(i)
  <2>1. /\ running' = [running EXCEPT ![i] = FALSE]
        /\ shutdown' = [shutdown EXCEPT ![i] = "cronWait"]
        /\ early' = IF startPc[i] \in {"new", "adding"} THEN early \cup {i} ELSE early
        /\ UNCHANGED <<now, startPc, nextFire>>
    BY <1>4 DEF Shutdown
  <2>2. Types'
    BY <2>1 DEF Types, tickVars
  <2>3. FireTimes'
    BY <2>1 DEF FireTimes, Types, tickVars
  <2>4. Stopped'
    <3> SUFFICES ASSUME NEW j \in Instances \ early'
                 PROVE  /\ shutdown'[j] # "none" => startPc[j] = "waiting" /\ ~running'[j]
                        /\ shutdown'[j] \in {"wgWait", "nil"} => Launched(j) = {}
      BY <1>0, <2>1 DEF Stopped
    <3>1. CASE j = i
      BY <2>1, <3>1 DEF Types
    <3>2. CASE j # i
      BY <2>1, <3>2 DEF Types, Stopped
    <3> QED
      BY <3>1, <3>2
  <2> QED
    BY <1>1, <2>2, <2>3, <2>4
<1>5. CASE CronStopped(i)
  <2>1. /\ shutdown[i] = "cronWait" /\ Launched(i) = {}
        /\ shutdown' = [shutdown EXCEPT ![i] = "wgWait"]
        /\ UNCHANGED <<cronVars, early>>
    BY <1>5 DEF CronStopped
  <2>2. Types' /\ FireTimes'
    BY <2>1 DEF Types, FireTimes, cronVars, tickVars
  <2>3. Stopped'
    BY <1>0, <2>1 DEF Stopped, Types, cronVars
  <2> QED
    BY <1>1, <2>2, <2>3
<1>6. CASE ShutdownReturns(i) \/ ShutdownTimesOut(i)
  <2>1. PICK x \in {"nil", "error"} :
          /\ shutdown[i] # "none" /\ (x = "nil" => shutdown[i] = "wgWait")
          /\ shutdown' = [shutdown EXCEPT ![i] = x]
          /\ UNCHANGED <<cronVars, early>>
    BY <1>6 DEF ShutdownReturns, ShutdownTimesOut
  <2>2. Types' /\ FireTimes'
    BY <2>1 DEF Types, FireTimes, cronVars, tickVars
  <2>3. Stopped'
    BY <1>0, <2>1 DEF Stopped, Types, cronVars
  <2> QED
    BY <1>1, <2>2, <2>3
<1> QED
  BY <1>2, <1>3, <1>4, <1>5, <1>6

\* The steps that touch nothing the invariant speaks of, but for the clock.
LEMMA OtherKeeps ==
    ASSUME SInv, UNCHANGED <<pc, key, startPc, running, nextFire, stopVars, tickVars>>,
           now' \in 0..MaxTime
    PROVE  SInv'
<1> USE DEF SInv, stopVars, tickVars
<1>1. Types' /\ Calling' /\ FireTimes'
  BY DEF Types, Calling, FireTimes
<1>2. Tokens' /\ Stopped'
  BY DEF Tokens, Stopped, Runs, Launched
<1> QED
  BY <1>1, <1>2
-----------------------------------------------------------------------------
(* The invariant. *)

LEMMA InitIInv == Init => IInv
<1> SUFFICES ASSUME Init PROVE IInv
  OBVIOUS
<1>1. P!ElectorInv
  <2>1. P!Init
    BY DEF Init, L!Init, P!Init, L!Sessions, P!Sessions, L!Ids, P!Ids
  <2> QED
    BY <2>1, P!InitElectorInv, ElectorAssumptions
<1>2. Types /\ Calling /\ FireTimes
  BY SchedulerAssumption
  DEF SchedulerAssumption, Init, L!Init, Types, Calling, FireTimes, Stages, Ticks
<1>3. Tokens /\ Stopped
  BY DEF Init, Tokens, Stopped, Runs, Launched, Active
<1> QED
  BY <1>1, <1>2, <1>3 DEF IInv, SInv

LEMMA NextIInv == IInv /\ [Next]_vars => IInv'
<1> SUFFICES ASSUME IInv, [Next]_vars PROVE IInv'
  OBVIOUS
<1> USE DEF IInv
<1>0. now \in 0..MaxTime
  BY DEF SInv, Types
<1>1. ASSUME NEW t \in Ticks, TickStep(t) PROVE IInv'
  <2>1. TickEffect(t) /\ Calling' /\ ElectorStep(t) /\ UNCHANGED <<cronVars, stopVars>>
    BY <1>1, TickSteps DEF SInv
  <2>2. SInv'
    BY <2>1, TickKeeps DEF SInv
  <2>3. P!ElectorInv'
    <3>1. CASE P!CallerStep(t)
      <4>1. P!Next
        BY <3>1 DEF P!Next
      <4> QED
        BY <4>1, P!NextElectorInv, ElectorAssumptions
    <3>2. CASE UNCHANGED P!vars
      BY <3>2, P!NextElectorInv, ElectorAssumptions
    <3>3. CASE /\ errors' = errors + 1
               /\ UNCHANGED <<locks, pc, key, conn, sess, held, closing, closeAt, ctxDone,
                              closes, losses>>
      BY <3>3, P!OtherErrors, ElectorAssumptions
    <3> QED
      BY <2>1, <3>1, <3>2, <3>3 DEF ElectorStep
  <2> QED
    BY <2>2, <2>3
<1>2. ASSUME UNCHANGED P!vars PROVE P!ElectorInv' /\ UNCHANGED <<pc, key>>
  <2>1. P!ElectorInv'
    BY <1>2, P!NextElectorInv, ElectorAssumptions
  <2> QED
    BY <1>2, <2>1 DEF P!vars, P!callerVars
<1>3. ASSUME UNCHANGED leaderVars PROVE UNCHANGED P!vars
  BY <1>3 DEF leaderVars, P!vars, P!callerVars, P!closeVars, P!faultVars
<1>4. ASSUME NEW i \in Instances, InstanceStep(i) PROVE IInv'
  <2>1. CASE \/ Start(i) \/ CronStart(i) \/ Shutdown(i) \/ CronStopped(i)
             \/ ShutdownReturns(i) \/ ShutdownTimesOut(i)
    <3>1. UNCHANGED <<leaderVars, tickVars>>
      BY <2>1 DEF Start, CronStart, Shutdown, CronStopped, ShutdownReturns, ShutdownTimesOut
    <3>2. P!ElectorInv' /\ UNCHANGED <<pc, key, tickVars>>
      BY <3>1, <1>2, <1>3
    <3>3. SInv'
      BY <2>1, <3>2, InstanceKeeps
    <3> QED
      BY <3>2, <3>3
  <2>2. CASE Interrupt(i) \/ \E d \in Defs : Execute(i, d) \/ ExecuteReturns(i, d)
    <3>1. UNCHANGED <<leaderVars, now, startPc, running, nextFire, stopVars, tickVars>>
      BY <2>2 DEF Interrupt, Execute, ExecuteReturns, cronVars
    <3>2. P!ElectorInv' /\ UNCHANGED <<pc, key>>
      BY <3>1, <1>2, <1>3
    <3>3. SInv'
      BY <1>0, <3>1, <3>2, OtherKeeps
    <3> QED
      BY <3>2, <3>3
  <2>3. CASE CloseLeader(i)
    <3>1. P!CloseStep(i) /\ UNCHANGED <<pc, key>>
      BY <2>3, CloseCalls DEF CloseLeader
    <3>2. P!ElectorInv'
      <4>1. P!Next
        BY <3>1 DEF P!Next
      <4> QED
        BY <4>1, P!NextElectorInv, ElectorAssumptions
    <3>3. UNCHANGED <<now, startPc, running, nextFire, stopVars, tickVars>>
      BY <2>3 DEF CloseLeader, cronVars
    <3>4. SInv'
      BY <1>0, <3>1, <3>3, OtherKeeps
    <3> QED
      BY <3>2, <3>4
  <2>4. ASSUME NEW d \in Defs, Fire(i, d) PROVE IInv'
    <3>1. UNCHANGED leaderVars
      BY <2>4 DEF Fire
    <3>2. P!ElectorInv'
      BY <3>1, <1>2, <1>3
    <3> QED
      BY <2>4, <3>2, FireKeeps
  <2> QED
    BY <1>4, <2>1, <2>2, <2>3, <2>4 DEF InstanceStep
<1>5. CASE SessionLost
  <2>1. PICK s \in L!Sessions : L!SessionLost(s)
    BY <1>5 DEF SessionLost
  <2>2. s \in P!Sessions /\ P!SessionLost(s) /\ UNCHANGED <<pc, key>>
    BY <2>1, LostCalls
  <2>3. P!ElectorInv'
    <3>1. P!Next
      BY <2>2 DEF P!Next
    <3> QED
      BY <3>1, P!NextElectorInv, ElectorAssumptions
  <2>4. UNCHANGED <<now, startPc, running, nextFire, stopVars, tickVars>>
    BY <1>5 DEF SessionLost, cronVars
  <2>5. SInv'
    BY <1>0, <2>2, <2>4, OtherKeeps
  <2> QED
    BY <2>3, <2>5
<1>6. CASE Clock \/ UNCHANGED vars
  <2>1. UNCHANGED <<leaderVars, startPc, running, nextFire, stopVars, tickVars>>
    BY <1>6 DEF Clock, vars, cronVars
  <2>2. now' \in 0..MaxTime
    BY <1>0, <1>6, SchedulerAssumption DEF SchedulerAssumption, Clock, vars, cronVars
  <2>3. P!ElectorInv' /\ UNCHANGED <<pc, key>>
    BY <2>1, <1>2, <1>3
  <2>4. SInv'
    BY <2>1, <2>2, <2>3, OtherKeeps
  <2> QED
    BY <2>3, <2>4
<1> QED
  BY <1>1, <1>4, <1>5, <1>6 DEF Next

LEMMA Invariance == Spec => []IInv
BY InitIInv, NextIInv, PTL DEF Spec
-----------------------------------------------------------------------------
(* Theorems *)

\* Without Overlap the ticks of a definition never run together on an instance,
\* and the token of SkipIfStillRunning always comes back, on every error path of
\* the closure (schedule.go:142-182).
THEOREM SchedulerTicksDontOverlap == Spec => []TicksDontOverlap
<1>1. IInv => TicksDontOverlap
  <2> SUFFICES ASSUME IInv, NEW i \in Instances, NEW d \in Defs \ Overlap
               PROVE  Cardinality({t \in Tracked(i) : t[2] = d}) = IF token[i][d] THEN 0 ELSE 1
    BY DEF TicksDontOverlap
  <2>1. {t \in Tracked(i) : t[2] = d} = Runs(i, d)
    BY DEF IInv, SInv, Types, Stages, Active, Runs, Tracked, Launched
  <2>2. IF token[i][d] THEN Runs(i, d) = {} ELSE \E t \in Ticks : Runs(i, d) = {t}
    BY DEF IInv, SInv, Tokens
  <2>3. Cardinality(Runs(i, d)) = IF token[i][d] THEN 0 ELSE 1
    BY <2>2, FS_EmptySet, FS_Singleton
  <2> QED
    BY <2>1, <2>3
<1> QED
  BY <1>1, Invariance, PTL

\* When Shutdown has returned nil and cron had been started before, no tick is
\* in progress and cron launches no other (schedule.go:199-224).
THEOREM SchedulerQuietAfterShutdown == Spec => []QuietAfterShutdown
<1>1. IInv => QuietAfterShutdown
  BY DEF IInv, SInv, Stopped, QuietAfterShutdown
<1> QED
  BY <1>1, Invariance, PTL

\* Ticks of two instances never enqueue for the same definition at the same time
\* while no session is lost and no elector is closed under a tick, whatever the
\* electors, the pools and Shutdown do (schedule.go:142-168).
THEOREM SchedulerOneEnqueuer == Spec => []OneEnqueuer
<1>1. IInv => OneEnqueuer
  <2> SUFFICES ASSUME IInv, UseLeader, losses = 0, NEW t \in Ticks, NEW u \in Ticks,
                      stage[t] = "enqueue", stage[u] = "enqueue", t[2] = u[2],
                      ~(closes[t[1]] > 0 /\ (shutdown[t[1]] # "nil" \/ t[1] \in early)),
                      ~(closes[u[1]] > 0 /\ (shutdown[u[1]] # "nil" \/ u[1] \in early))
               PROVE  t[1] = u[1]
    BY DEF OneEnqueuer
  <2>1. ASSUME NEW v \in Ticks, stage[v] = "enqueue",
               ~(closes[v[1]] > 0 /\ (shutdown[v[1]] # "nil" \/ v[1] \in early))
        PROVE  closes[TickInstance[v]] = 0 /\ pc[v] = "leader" /\ key[v] = v[2] /\ TickInstance[v] = v[1]
    <3>1. v[1] \in Instances /\ TickInstance[v] = v[1]
      BY DEF Ticks, TickInstance
    <3>2. v \in Launched(v[1])
      BY <2>1 DEF Launched
    <3>3. ~(shutdown[v[1]] = "nil" /\ v[1] \notin early)
      BY <3>1, <3>2 DEF IInv, SInv, Stopped
    <3>4. closes[v[1]] \in Nat
      BY <3>1 DEF IInv, P!ElectorInv, P!IInv, P!TypeOK
    <3> QED
      BY <2>1, <3>1, <3>3, <3>4 DEF IInv, SInv, Calling
  <2>2. P!MutualExclusion
    BY P!LeadersExclude, ElectorAssumptions DEF IInv, P!ElectorInv
  <2>3. /\ pc[t] = "leader" /\ pc[u] = "leader" /\ HashKey[key[t]] = HashKey[key[u]]
        /\ closes[TickInstance[t]] = 0 /\ closes[TickInstance[u]] = 0
        /\ TickInstance[t] = t[1] /\ TickInstance[u] = u[1]
    BY <2>1
  <2> QED
    BY <2>2, <2>3 DEF P!MutualExclusion
<1> QED
  BY <1>1, Invariance, PTL

\* Every leadership a tick was granted is given up, whatever Enqueue answered
\* (schedule.go:158-168): an instance without ticks remembers no lock, and without
\* faults and Close its sessions hold none.
THEOREM SchedulerLeadershipGivenUp == Spec => []LeadershipGivenUp
<1>1. IInv => LeadershipGivenUp
  <2> SUFFICES ASSUME IInv, NEW i \in Instances, Launched(i) = {}
               PROVE  /\ \A d \in Defs : locks[i][d] = None
                      /\ losses = 0 /\ errors = 0 /\ closes[i] = 0 =>
                            \A s \in L!Sessions, id \in L!Ids : s[1] = i => held[s][id] = 0
    BY DEF LeadershipGivenUp
  <2>1. \A t \in Ticks : TickInstance[t] = i => pc[t] = "idle"
    <3> SUFFICES ASSUME NEW t \in Ticks, TickInstance[t] = i PROVE pc[t] = "idle"
      OBVIOUS
    <3>1. stage[t] \in {"none", "done"}
      BY DEF Launched, TickInstance
    <3> QED
      BY <3>1 DEF IInv, SInv, Calling
  <2>2. \A d \in Defs : locks[i][d] = None
    <3>1. \A t \in Ticks : TickInstance[t] = i => pc[t] # "leader"
      BY <2>1
    <3>2. P!ElectorInv
      BY DEF IInv
    <3> QED
      BY <3>1, <3>2, P!NothingRemembered, ElectorAssumptions
  <2>3. ASSUME losses = 0, errors = 0, closes[i] = 0,
               NEW s \in L!Sessions, NEW id \in L!Ids, s[1] = i
        PROVE  held[s][id] = 0
    <3>1. P!ReleasedWhenQuiet
      BY P!QuietReleased, ElectorAssumptions DEF IInv
    <3>2. s \in {i} \X (1..PoolSize) /\ s \in P!Sessions /\ id \in P!Ids
      BY <2>3 DEF L!Sessions, P!Sessions, L!Ids, P!Ids
    <3>3. held[s][id] <= errors
      BY <2>1, <2>3, <3>1, <3>2 DEF P!ReleasedWhenQuiet
    <3>4. held[s][id] \in Nat
      BY <3>2 DEF IInv, P!ElectorInv, P!IInv, P!TypeOK
    <3> QED
      BY <2>3, <3>3, <3>4
  <2> QED
    BY <2>2, <2>3
<1> QED
  BY <1>1, Invariance, PTL
=============================================================================
