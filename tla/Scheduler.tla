----------------------------- MODULE Scheduler ------------------------------
(* Scheduler (schedule/schedule.go) on several instances that share one       *)
(* database, composed with their PgLeaderElectors (PgLeader) and with what    *)
(* the scheduler sees of each instance's in-memory queue and workers.         *)
(*                                                                            *)
(* A tick <<i, d, n>> is the goroutine cron starts on instance i for          *)
(* definition d at fire time n.  It is one caller of the leader elector and   *)
(* runs the closure of addDefinition.                                         *)
(* External: robfig/cron (Start, Stop, the firing of entries, the             *)
(* SkipIfStillRunning wrapper), the workers, database/sql.                    *)
(* Abstracted: cron expressions and time zones (a definition is due every     *)
(* Period[d] units of time), logging and the onError callback.                *)
EXTENDS Naturals, FiniteSets, FiniteSetsExt

CONSTANTS
    Instances,
    Defs,           \* the registered definitions; Name is the leader's key
    Overlap,        \* those with Overlap = true
    Persistent,     \* those whose options hold WithPersist()
    HashKey,        \* the advisory lock id of each definition's key
    UseLeader,      \* a LeaderElector was given to NewScheduler
    QueueSize,      \* capacity of the in-memory queue
    Concurrency,    \* worker goroutines per instance
    PoolSize,       \* MaxOpenConns of each instance's pool
    MaxTime,        \* bound on the clock
    Period,         \* [def]: the delay of its @every schedule
    MaxShutdowns,   \* bound on calls of Shutdown per instance
    Interruptible,  \* instances that may receive an interrupt signal
    MaxLosses, MaxErrors, MaxCloses,
    None

ASSUME SchedulerAssumption ==
    /\ Overlap \subseteq Defs /\ Persistent \subseteq Defs
    /\ UseLeader \in BOOLEAN
    /\ Period \in [Defs -> Nat \ {0}]
    /\ QueueSize \in Nat \ {0} /\ Concurrency \in Nat \ {0} /\ MaxTime \in Nat
    /\ MaxShutdowns \in Nat /\ Interruptible \subseteq Instances
    /\ IsFiniteSet(Instances) /\ IsFiniteSet(Defs)
    /\ PoolSize \in Nat \ {0}
    /\ MaxLosses \in Nat /\ MaxErrors \in Nat /\ MaxCloses \in Nat

VARIABLES
    locks, pc, key, conn, sess, held, closing, closeAt, ctxDone, closes, losses, errors,
                \* the electors, see PgLeader
    now,        \* the clock the instances share
    startPc,    \* [instance]: Start: "new", "adding", "waiting"
    running,    \* [instance]: cron's run loop is running
    nextFire,   \* [instance][def]: when cron fires the entry next
    stopCh,     \* [instance]: stopCh is closed
    interrupted,\* [instance]: the context of Start and of the workers has ended
    shutdown,   \* [instance]: "none", "cronWait", "wgWait", "nil", "error"
    shutdowns,  \* [instance]: calls of Shutdown so far
    stage,      \* [tick]: "none", "launched", "elect", "enqueue", "release", "done"
    token,      \* [instance][def]: SkipIfStillRunning may run the job
    queued,     \* [instance][def]: jobs in the in-memory queue
    executing,  \* [instance][def]: jobs being executed by workers
    enqueued,   \* history: ticks whose job was enqueued
    early       \* history: instances on which Shutdown preceded cron's start

leaderVars == <<locks, pc, key, conn, sess, held, closing, closeAt, ctxDone, closes,
                losses, errors>>
cronVars   == <<now, startPc, running, nextFire, stopCh, interrupted>>
stopVars   == <<shutdown, shutdowns, early>>
tickVars   == <<stage, token>>
jobVars    == <<queued, executing>>
vars == <<leaderVars, cronVars, stopVars, tickVars, jobVars, enqueued>>

Ticks == Instances \X Defs \X (1..MaxTime)
TickInstance == [t \in Ticks |-> t[1]]

L == INSTANCE PgLeader WITH Callers <- Ticks, InstanceOf <- TickInstance, Keys <- Defs

\* nil is neither a connection nor an entry of an elector's map.
ASSUME NoneAssumption == None \notin L!Sessions /\ None \notin L!Entry

\* Ticks that cron's job waiter, and those the scheduler's own wg, waits for.
Launched(i) == {t \in Ticks : t[1] = i /\ stage[t] \notin {"none", "done"}}
Tracked(i)  == {t \in Launched(i) : stage[t] # "launched"}

Init ==
    /\ L!Init /\ key = [t \in Ticks |-> t[2]]
    /\ now = 0
    /\ startPc = [i \in Instances |-> "new"]
    /\ running = [i \in Instances |-> FALSE]
    /\ nextFire = [i \in Instances |-> [d \in Defs |-> 0]]
    /\ stopCh = [i \in Instances |-> FALSE]
    /\ interrupted = [i \in Instances |-> FALSE]
    /\ shutdown = [i \in Instances |-> "none"]
    /\ shutdowns = [i \in Instances |-> 0]
    /\ early = {}
    /\ stage = [t \in Ticks |-> "none"]
    /\ token = [i \in Instances |-> [d \in Defs |-> TRUE]]
    /\ queued = [i \in Instances |-> [d \in Defs |-> 0]]
    /\ executing = [i \in Instances |-> [d \in Defs |-> 0]]
    /\ enqueued = {}
-----------------------------------------------------------------------------
(* Start *)

\* startOnce: the first call adds the definitions ...
Start(i) ==
    /\ startPc[i] = "new"
    /\ startPc' = [startPc EXCEPT ![i] = "adding"]
    /\ UNCHANGED <<leaderVars, now, running, nextFire, stopCh, interrupted, stopVars,
                   tickVars, jobVars, enqueued>>

\* ... and starts cron, whatever Shutdown has done meanwhile.  Start then waits
\* for stopCh or the end of its context; cron goes on when it returns.
CronStart(i) ==
    /\ startPc[i] = "adding"
    /\ startPc' = [startPc EXCEPT ![i] = "waiting"]
    /\ running' = [running EXCEPT ![i] = TRUE]
    /\ nextFire' = [nextFire EXCEPT ![i] = [d \in Defs |-> now + Period[d]]]
    /\ UNCHANGED <<leaderVars, now, stopCh, interrupted, stopVars, tickVars, jobVars, enqueued>>

\* External: an interrupt ends the context given to Start and to the workers.
Interrupt(i) ==
    /\ i \in Interruptible /\ ~interrupted[i]
    /\ interrupted' = [interrupted EXCEPT ![i] = TRUE]
    /\ UNCHANGED <<leaderVars, now, startPc, running, nextFire, stopCh, stopVars,
                   tickVars, jobVars, enqueued>>

Clock ==
    /\ now < MaxTime
    /\ now' = now + 1
    /\ UNCHANGED <<leaderVars, startPc, running, nextFire, stopCh, interrupted, stopVars,
                   tickVars, jobVars, enqueued>>

\* External: cron launches the job of a due entry and skips missed fire times.
Fire(i, d) ==
    /\ running[i]
    /\ nextFire[i][d] <= now
    /\ stage' = [stage EXCEPT ![<<i, d, nextFire[i][d]>>] = "launched"]
    /\ nextFire' = [nextFire EXCEPT ![i][d] = now + Period[d]]
    /\ UNCHANGED <<leaderVars, now, startPc, running, stopCh, interrupted, stopVars,
                   token, jobVars, enqueued>>
-----------------------------------------------------------------------------
(* The tick *)

\* Mutant: SkipIfStillRunning wraps the definitions with Overlap instead.
Begin_SwappedOverlap(t) ==
    LET i == t[1]  d == t[2] IN
    /\ stage[t] = "launched"
    /\ \/ /\ d \notin Overlap \/ token[i][d]
          /\ stage' = [stage EXCEPT ![t] = IF UseLeader THEN "elect" ELSE "enqueue"]
          /\ token' = IF d \notin Overlap THEN token ELSE [token EXCEPT ![i][d] = FALSE]
       \/ /\ d \in Overlap /\ ~token[i][d]
          /\ stage' = [stage EXCEPT ![t] = "done"]
          /\ UNCHANGED token
    /\ UNCHANGED <<leaderVars, cronVars, stopVars, jobVars, enqueued>>

\* SkipIfStillRunning, unless Overlap: without the token the run is skipped.
Begin(t) ==
    LET i == t[1]  d == t[2] IN
    /\ stage[t] = "launched"
    /\ \/ /\ d \in Overlap \/ token[i][d]
          /\ stage' = [stage EXCEPT ![t] = IF UseLeader THEN "elect" ELSE "enqueue"]
          /\ token' = IF d \in Overlap THEN token ELSE [token EXCEPT ![i][d] = FALSE]
       \/ /\ d \notin Overlap /\ ~token[i][d]
          /\ stage' = [stage EXCEPT ![t] = "done"]
          /\ UNCHANGED token
    /\ UNCHANGED <<leaderVars, cronVars, stopVars, jobVars, enqueued>>

\* Mutant: the answer of TryAcquire is ignored.
After_IgnoresRefusal(t, goOn) ==
    /\ stage' = [stage EXCEPT ![t] = IF pc'[t] \in {"idle", "leader"} THEN goOn ELSE @]
    /\ UNCHANGED token

\* The tick's stage after a call of the elector: goOn, unless the elector is done
\* with it; then the deferred wg.Done runs and the token goes back.
After(t, goOn) ==
    LET i == t[1]  d == t[2] IN
    IF pc'[t] = "idle"
    THEN /\ stage' = [stage EXCEPT ![t] = "done"]
         /\ token' = IF d \in Overlap THEN token ELSE [token EXCEPT ![i][d] = TRUE]
    ELSE /\ stage' = [stage EXCEPT ![t] = IF pc'[t] = "leader" THEN goOn ELSE @]
         /\ UNCHANGED token

\* leader.TryAcquire: an error, or false, ends the tick.
Elect(t) ==
    /\ stage[t] = "elect"
    /\ \/ L!TryAcquire(t, t[2])
       \/ L!Dial(t) \/ L!DialFails(t)
       \/ L!LockQuery(t) \/ L!LockQueryFails(t)
       \/ L!Store(t)
    /\ After(t, "enqueue")
    /\ UNCHANGED <<cronVars, stopVars, jobVars, enqueued>>

\* Mutant: Release is not deferred.
EnqueueEnds_NoRelease(t) ==
    LET i == t[1]  d == t[2] IN
    /\ stage' = [stage EXCEPT ![t] = "done"]
    /\ token' = IF d \in Overlap THEN token ELSE [token EXCEPT ![i][d] = TRUE]

\* What follows the Enqueue call, successful or not: the deferred Release.
EnqueueEnds(t) ==
    LET i == t[1]  d == t[2] IN
    IF UseLeader
    THEN stage' = [stage EXCEPT ![t] = "release"] /\ UNCHANGED token
    ELSE /\ stage' = [stage EXCEPT ![t] = "done"]
         /\ token' = IF d \in Overlap THEN token ELSE [token EXCEPT ![i][d] = TRUE]

\* enqueuer.Enqueue with context.Background(): waits for room in the queue.
EnqueueMem(t) ==
    LET i == t[1]  d == t[2] IN
    /\ stage[t] = "enqueue" /\ d \notin Persistent
    /\ MapThenSumSet(LAMBDA x : queued[i][x], Defs) < QueueSize
    /\ queued' = [queued EXCEPT ![i][d] = @ + 1]
    /\ enqueued' = enqueued \cup {t}
    /\ EnqueueEnds(t)
    /\ UNCHANGED <<leaderVars, cronVars, stopVars, executing>>

\* The persistent branch: the INSERT takes a connection of the pool and gives
\* it back; without a free connection it waits, holding the leader's.
EnqueueDb(t) ==
    LET i == t[1]  d == t[2] IN
    /\ stage[t] = "enqueue" /\ d \in Persistent
    /\ \E s \in L!PoolOf(t) : sess[s] = "idle"
    /\ enqueued' = enqueued \cup {t}
    /\ EnqueueEnds(t)
    /\ UNCHANGED <<leaderVars, cronVars, stopVars, jobVars>>

\* The INSERT is answered by an error, which is logged and reported.
EnqueueFails(t) ==
    LET i == t[1]  d == t[2] IN
    /\ stage[t] = "enqueue" /\ d \in Persistent
    /\ \E s \in L!PoolOf(t) : sess[s] = "idle"
    /\ errors < MaxErrors
    /\ errors' = errors + 1
    /\ EnqueueEnds(t)
    /\ UNCHANGED <<locks, pc, key, conn, sess, held, closing, closeAt, ctxDone, closes,
                   losses, cronVars, stopVars, jobVars, enqueued>>

\* The deferred leader.Release, then wg.Done.
Release(t) ==
    /\ stage[t] = "release"
    /\ L!Release(t) \/ L!Unlock(t)
    /\ After(t, "release")
    /\ UNCHANGED <<cronVars, stopVars, jobVars, enqueued>>
-----------------------------------------------------------------------------
(* Shutdown *)

\* Closes stopCh once and calls cron.Stop, which ends the run loop if there is one.
Shutdown(i) ==
    /\ shutdown[i] \notin {"cronWait", "wgWait"}
    /\ shutdowns[i] < MaxShutdowns
    /\ shutdowns' = [shutdowns EXCEPT ![i] = @ + 1]
    /\ stopCh' = [stopCh EXCEPT ![i] = TRUE]
    /\ running' = [running EXCEPT ![i] = FALSE]
    /\ shutdown' = [shutdown EXCEPT ![i] = "cronWait"]
    /\ early' = IF startPc[i] \in {"new", "adding"} THEN early \cup {i} ELSE early
    /\ UNCHANGED <<leaderVars, now, startPc, nextFire, interrupted, tickVars, jobVars, enqueued>>

\* Mutant: the context of cron.Stop is ignored and only wg is waited for.
CronStopped_Ignored(i) ==
    /\ shutdown[i] = "cronWait"
    /\ shutdown' = [shutdown EXCEPT ![i] = "wgWait"]
    /\ UNCHANGED <<leaderVars, cronVars, shutdowns, early, tickVars, jobVars, enqueued>>

\* case <-cronCtx.Done(): every job cron launched has returned.
CronStopped(i) ==
    /\ shutdown[i] = "cronWait"
    /\ Launched(i) = {}
    /\ shutdown' = [shutdown EXCEPT ![i] = "wgWait"]
    /\ UNCHANGED <<leaderVars, cronVars, shutdowns, early, tickVars, jobVars, enqueued>>

\* Mutant: a tick never calls wg.Done.
ShutdownReturns_NoDone(i) ==
    /\ shutdown[i] = "wgWait"
    /\ \A t \in Ticks : t[1] = i => stage[t] = "none"
    /\ shutdown' = [shutdown EXCEPT ![i] = "nil"]
    /\ UNCHANGED <<leaderVars, cronVars, shutdowns, early, tickVars, jobVars, enqueued>>

\* case <-done: wg is zero.
ShutdownReturns(i) ==
    /\ shutdown[i] = "wgWait"
    /\ Tracked(i) = {}
    /\ shutdown' = [shutdown EXCEPT ![i] = "nil"]
    /\ UNCHANGED <<leaderVars, cronVars, shutdowns, early, tickVars, jobVars, enqueued>>

\* case <-ctx.Done() of either select.
ShutdownTimesOut(i) ==
    /\ shutdown[i] \in {"cronWait", "wgWait"}
    /\ shutdown' = [shutdown EXCEPT ![i] = "error"]
    /\ UNCHANGED <<leaderVars, cronVars, shutdowns, early, tickVars, jobVars, enqueued>>

\* main closes the elector after Shutdown (cmd/example/main.go:220-224).
CloseLeader(i) ==
    /\ UseLeader
    /\ shutdown[i] \in {"nil", "error"}
    /\ L!CloseStep(i)
    /\ UNCHANGED <<cronVars, stopVars, tickVars, jobVars, enqueued>>

SessionLost ==
    /\ \E s \in L!Sessions : L!SessionLost(s)
    /\ UNCHANGED <<cronVars, stopVars, tickVars, jobVars, enqueued>>
-----------------------------------------------------------------------------
(* External: the workers of instance i. *)

\* A worker takes a job; once interrupted it may also exit instead.
Execute(i, d) ==
    /\ queued[i][d] > 0
    /\ MapThenSumSet(LAMBDA x : executing[i][x], Defs) < Concurrency
    /\ queued' = [queued EXCEPT ![i][d] = @ - 1]
    /\ executing' = [executing EXCEPT ![i][d] = @ + 1]
    /\ UNCHANGED <<leaderVars, cronVars, stopVars, tickVars, enqueued>>

ExecuteReturns(i, d) ==
    /\ executing[i][d] > 0
    /\ executing' = [executing EXCEPT ![i][d] = @ - 1]
    /\ UNCHANGED <<leaderVars, cronVars, stopVars, tickVars, queued, enqueued>>
-----------------------------------------------------------------------------
TickStep(t) ==
    \/ Begin(t) \/ Elect(t)
    \/ EnqueueMem(t) \/ EnqueueDb(t) \/ EnqueueFails(t)
    \/ Release(t)

InstanceStep(i) ==
    \/ Start(i) \/ CronStart(i) \/ Interrupt(i)
    \/ Shutdown(i) \/ CronStopped(i) \/ ShutdownReturns(i) \/ ShutdownTimesOut(i)
    \/ CloseLeader(i)
    \/ \E d \in Defs : Fire(i, d) \/ Execute(i, d) \/ ExecuteReturns(i, d)

Next ==
    \/ \E t \in Ticks : TickStep(t)
    \/ \E i \in Instances : InstanceStep(i)
    \/ SessionLost
    \/ Clock

Spec == Init /\ [][Next]_vars

\* A tick's goroutine goes on when it can.  Room in the queue goes to blocked
\* senders in order, and database/sql hands a returned connection to the waiter
\* that has waited longest: a tick does not wait for ever for what becomes free
\* again and again (strong fairness).  Shutdown's waits are noticed, and the
\* workers run while they are not interrupted.
Fairness ==
    /\ \A t \in Ticks :
          SF_vars(Begin(t) \/ Elect(t) \/ EnqueueMem(t) \/ EnqueueDb(t) \/ Release(t))
    /\ \A i \in Instances :
          /\ WF_vars(CronStopped(i) \/ ShutdownReturns(i))
          /\ WF_vars(CloseLeader(i))
          /\ WF_vars(\E d \in Defs : ~interrupted[i] /\ (Execute(i, d) \/ ExecuteReturns(i, d)))

FairSpec == Spec /\ Fairness
-----------------------------------------------------------------------------
(* Properties *)

\* Without Overlap the ticks of one definition on one instance do not run at the
\* same time, and the token that ensures it is never lost: it is away exactly
\* while one of them runs (schedule.go:179-182).
TicksDontOverlap ==
    \A i \in Instances, d \in Defs \ Overlap :
        Cardinality({t \in Tracked(i) : t[2] = d}) = IF token[i][d] THEN 0 ELSE 1

\* Leader election at each tick: ticks of two instances are never enqueueing for
\* the same definition at the same time, as long as no session is lost and no
\* elector is closed under a tick (after a Shutdown that timed out, or that came
\* before cron was started).
OneEnqueuer ==
    LET closed(i) == closes[i] > 0 /\ (shutdown[i] # "nil" \/ i \in early)
    IN  UseLeader /\ losses = 0 =>
            \A t, u \in Ticks :
                /\ stage[t] = "enqueue" /\ stage[u] = "enqueue" /\ t[2] = u[2]
                /\ ~closed(t[1]) /\ ~closed(u[1])
                => t[1] = u[1]

\* Every leadership a tick was granted is given up, on the error path of Enqueue
\* too (schedule.go:158-168): an instance without ticks remembers no lock, and
\* without faults and Close its sessions hold none.
LeadershipGivenUp ==
    \A i \in Instances : Launched(i) = {} =>
        /\ \A d \in Defs : locks[i][d] = None
        /\ losses = 0 /\ errors = 0 /\ closes[i] = 0 =>
              \A s \in L!Sessions, id \in L!Ids : s[1] = i => held[s][id] = 0

\* Shutdown's nil means that no tick is in progress and that none will start, if
\* cron had been started when Shutdown was called.
QuietAfterShutdown ==
    \A i \in Instances \ early :
        shutdown[i] = "nil" => Launched(i) = {} /\ ~running[i]

\* A tick with WithPersist() holds its leader's connection while its INSERT waits
\* for one more of the same pool, without a deadline (schedule.go:158-170).  The
\* ticks of one definition share one such connection, so a pool with more
\* connections than definitions of this kind always has one left for an INSERT.
\* With fewer, all of them may wait for each other for ever.
SpareConnection == Cardinality(Persistent) < PoolSize

\* Given a spare connection and workers that keep running, every tick ends,
\* although it holds the lock and a connection while it waits for room in the
\* queue or for a second connection that other ticks compete for: Shutdown, which
\* may be called at any time, returns even without its timeout.  The elector's
\* Close always does, although a tick that outlived Shutdown may hold or wait for
\* the connections of the pool.
ShutdownEnds ==
    \A i \in Instances :
        /\ SpareConnection =>
              shutdown[i] = "cronWait" ~> (shutdown[i] \in {"nil", "error"} \/ interrupted[i])
        /\ closing[i] # {} ~> (closing[i] = {} /\ closeAt[i] = None)

\* README.md:330: the elector is there "to ensure only one instance runs
\* schedules": a fire time is enqueued once, not once per instance.
FiredOnce ==
    \A t, u \in enqueued : t[2] = u[2] /\ t[3] = u[3] => t = u
=============================================================================
