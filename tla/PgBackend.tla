----------------------------- MODULE PgBackend ------------------------------
(* PgBackend (job/pg_backend.go): persistent jobs in the table broth_jobs.    *)
(* Each operation is one SQL statement.  Fetch has two visible moments: the   *)
(* sub-select takes a row lock (FOR UPDATE SKIP LOCKED), the commit publishes *)
(* the update and the answer travels to the worker.                           *)
(*                                                                            *)
(* External: the clients.  The repository has no loop that calls Fetch, so a  *)
(* worker is modelled from the Backend interface (job/backend.go:9-33): it    *)
(* fetches, executes, reports once through Complete, Fail or Dead, and        *)
(* repeats the report when the answer was lost.  A worker may crash anywhere. *)
(* Abstracted: name, payload, last_error and started_at, which no operation   *)
(* reads; a lost Enqueue answer, after which a caller may insert a second row *)
(* that is simply another job here.                                           *)
EXTENDS Naturals, FiniteSets, FiniteSetsExt

CONSTANTS
    Workers,        \* worker IDs given to Fetch
    Queues,         \* queue names
    WorkerQueues,   \* the queues each worker fetches from
    Priorities,     \* priorities jobs are enqueued with
    MaxAttempts,    \* max_attempts of every row (3, pg_backend.go:33)
    MaxJobs,        \* bound on rows ever inserted
    MaxTime,        \* bound on the clock
    MaxCrashes,     \* bound on worker crashes and lost Fetch answers
    MaxLostAcks,    \* bound on reports whose answer is lost
    MaxRetries,     \* bound on calls of RetryDead
    None

ASSUME BackendAssumption ==
    /\ WorkerQueues \in [Workers -> SUBSET Queues]
    /\ Priorities \subseteq Nat
    /\ MaxAttempts \in Nat \ {0} /\ MaxJobs \in Nat /\ MaxTime \in Nat \ {0}
    /\ MaxCrashes \in Nat /\ MaxLostAcks \in Nat /\ MaxRetries \in Nat
    /\ None \notin Workers

VARIABLES
    rows,       \* [id]: the row, None when not (or no longer) in the table
    nextId,     \* the id sequence
    now,        \* NOW()
    rowLock,    \* [id]: the worker whose Fetch holds the row lock, or None
    state,      \* [worker]: "idle", "fetching", "executing", "retrying"
    jobId,      \* [worker]: the job it fetches, executes or reports, or None
    report,     \* [worker]: the report it has to repeat
    crashes, lostAcks, retries,
    completed   \* history: ids for which Complete succeeded

clientVars == <<state, jobId, report>>
countVars  == <<crashes, lostAcks, retries>>
vars == <<rows, nextId, now, rowLock, clientVars, countVars, completed>>

JobIds   == 1..MaxJobs
Statuses == {"pending", "running", "completed", "dead"}
NoTime   == 0
Times    == 0..MaxTime

Row == [queue : Queues, priority : Priorities, status : Statuses, attempts : Nat,
        lockedBy : Workers \cup {None}, createdAt : Times, completedAt : Times,
        failedAt : Times]

ASSUME NoneAssumption == None \notin Row /\ None \notin JobIds

Exists(id) == rows[id] # None

Init ==
    /\ rows = [id \in JobIds |-> None]
    /\ nextId = 1
    /\ now = 1
    /\ rowLock = [id \in JobIds |-> None]
    /\ state = [w \in Workers |-> "idle"]
    /\ jobId = [w \in Workers |-> None]
    /\ report = [w \in Workers |-> "none"]
    /\ crashes = 0 /\ lostAcks = 0 /\ retries = 0
    /\ completed = {}
-----------------------------------------------------------------------------
\* INSERT ... 'pending'; attempts, locked_by and the times take their defaults.
Enqueue(q, p) ==
    /\ nextId <= MaxJobs
    /\ rows' = [rows EXCEPT ![nextId] =
          [queue |-> q, priority |-> p, status |-> "pending", attempts |-> 0,
           lockedBy |-> None, createdAt |-> now, completedAt |-> NoTime,
           failedAt |-> NoTime]]
    /\ nextId' = nextId + 1
    /\ UNCHANGED <<now, rowLock, clientVars, countVars, completed>>
-----------------------------------------------------------------------------
(* Fetch *)

\* Mutant: FOR UPDATE SKIP LOCKED is missing.
Candidates_NoSkipLocked(w) ==
    {id \in JobIds : /\ Exists(id)
                     /\ rows[id].status = "pending"
                     /\ rows[id].queue \in WorkerQueues[w]}

\* Rows the sub-select sees and does not skip as locked.
Candidates(w) ==
    {id \in JobIds : /\ Exists(id) /\ rowLock[id] = None
                     /\ rows[id].status = "pending"
                     /\ rows[id].queue \in WorkerQueues[w]}

\* ORDER BY priority DESC, created_at ASC; ties come in any order.
Before(a, b) ==
    \/ rows[a].priority > rows[b].priority
    \/ rows[a].priority = rows[b].priority /\ rows[a].createdAt < rows[b].createdAt

FetchSelect(w) ==
    /\ state[w] = "idle"
    /\ \E id \in Candidates(w) :
          /\ \A other \in Candidates(w) : ~Before(other, id)
          /\ rowLock' = [rowLock EXCEPT ![id] = w]
          /\ jobId' = [jobId EXCEPT ![w] = id]
    /\ state' = [state EXCEPT ![w] = "fetching"]
    /\ UNCHANGED <<rows, nextId, now, report, countVars, completed>>

\* Mutant: the attempt is not counted.
FetchUpdate_NotCounted(w) ==
    /\ state[w] = "fetching"
    /\ rows' = [rows EXCEPT ![jobId[w]].status = "running", ![jobId[w]].lockedBy = w]
    /\ rowLock' = [rowLock EXCEPT ![jobId[w]] = None]

\* The update of the selected row commits; the row lock ends.
FetchUpdate(w) ==
    /\ state[w] = "fetching"
    /\ rows' = [rows EXCEPT ![jobId[w]].status = "running",
                            ![jobId[w]].attempts = @ + 1,
                            ![jobId[w]].lockedBy = w]
    /\ rowLock' = [rowLock EXCEPT ![jobId[w]] = None]

\* The worker receives the job and executes it.
FetchReturns(w) ==
    /\ FetchUpdate(w)
    /\ state' = [state EXCEPT ![w] = "executing"]
    /\ UNCHANGED <<nextId, now, jobId, report, countVars, completed>>

\* The update commits and the answer is lost: Fetch returns an error.
FetchAnswerLost(w) ==
    /\ crashes < MaxCrashes
    /\ FetchUpdate(w)
    /\ crashes' = crashes + 1
    /\ state' = [state EXCEPT ![w] = "idle"]
    /\ jobId' = [jobId EXCEPT ![w] = None]
    /\ UNCHANGED <<nextId, now, report, lostAcks, retries, completed>>
-----------------------------------------------------------------------------
(* Reports: UPDATE ... WHERE id = $1, whatever the row's status and owner. *)

CompleteRow(r) ==
    [r EXCEPT !.status = "completed", !.completedAt = now, !.lockedBy = None]

\* Mutants: the last attempt is retried; a job to retry keeps its status.
FailRow_OffByOne(r) ==
    [r EXCEPT !.status = IF r.attempts <= MaxAttempts THEN "pending" ELSE "dead",
              !.failedAt = now, !.lockedBy = None]

FailRow_StaysRunning(r) ==
    [r EXCEPT !.status = IF r.attempts < MaxAttempts THEN r.status ELSE "dead",
              !.failedAt = now, !.lockedBy = None]

FailRow(r) ==
    [r EXCEPT !.status = IF r.attempts < MaxAttempts THEN "pending" ELSE "dead",
              !.failedAt = now, !.lockedBy = None]

\* Mutant: locked_by is not cleared.
DeadRow_KeepsOwner(r) == [r EXCEPT !.status = "dead", !.failedAt = now]

DeadRow(r) ==
    [r EXCEPT !.status = "dead", !.failedAt = now, !.lockedBy = None]

\* The statement waits for the row lock of a Fetch in progress; without the row
\* it reports "not found" and changes nothing.
Complete(id) ==
    /\ rowLock[id] = None
    /\ \/ /\ Exists(id)
          /\ rows' = [rows EXCEPT ![id] = CompleteRow(rows[id])]
          /\ completed' = completed \cup {id}
       \/ ~Exists(id) /\ UNCHANGED <<rows, completed>>

Fail(id) ==
    /\ rowLock[id] = None
    /\ \/ Exists(id) /\ rows' = [rows EXCEPT ![id] = FailRow(rows[id])]
       \/ ~Exists(id) /\ UNCHANGED rows
    /\ UNCHANGED completed

Dead(id) ==
    /\ rowLock[id] = None
    /\ \/ Exists(id) /\ rows' = [rows EXCEPT ![id] = DeadRow(rows[id])]
       \/ ~Exists(id) /\ UNCHANGED rows
    /\ UNCHANGED completed

Apply(op, id) ==
    \/ op = "complete" /\ Complete(id)
    \/ op = "fail" /\ Fail(id)
    \/ op = "dead" /\ Dead(id)

\* External: the worker reports the outcome and hears back ...
Report(w) ==
    /\ state[w] = "executing"
    /\ \E op \in {"complete", "fail", "dead"} : Apply(op, jobId[w])
    /\ state' = [state EXCEPT ![w] = "idle"]
    /\ jobId' = [jobId EXCEPT ![w] = None]
    /\ UNCHANGED <<nextId, now, rowLock, report, countVars>>

\* ... or the answer is lost and it will repeat the report ...
ReportUnanswered(w) ==
    /\ state[w] = "executing"
    /\ lostAcks < MaxLostAcks
    /\ lostAcks' = lostAcks + 1
    /\ \E op \in {"complete", "fail", "dead"} :
          Apply(op, jobId[w]) /\ report' = [report EXCEPT ![w] = op]
    /\ state' = [state EXCEPT ![w] = "retrying"]
    /\ UNCHANGED <<nextId, now, rowLock, jobId, crashes, retries>>

\* ... which it does at some later time.
ReportAgain(w) ==
    /\ state[w] = "retrying"
    /\ Apply(report[w], jobId[w])
    /\ report' = [report EXCEPT ![w] = "none"]
    /\ state' = [state EXCEPT ![w] = "idle"]
    /\ jobId' = [jobId EXCEPT ![w] = None]
    /\ UNCHANGED <<nextId, now, rowLock, countVars>>

\* External: the worker's process dies and is restarted; PostgreSQL rolls a
\* Fetch in progress back.
Crash(w) ==
    /\ crashes < MaxCrashes
    /\ state[w] # "idle"
    /\ crashes' = crashes + 1
    /\ rowLock' = [id \in JobIds |-> IF rowLock[id] = w THEN None ELSE rowLock[id]]
    /\ state' = [state EXCEPT ![w] = "idle"]
    /\ jobId' = [jobId EXCEPT ![w] = None]
    /\ report' = [report EXCEPT ![w] = "none"]
    /\ UNCHANGED <<rows, nextId, now, lostAcks, retries, completed>>
-----------------------------------------------------------------------------
(* Administration *)

\* Mutant: the status is not checked.
RetryDead_AnyStatus(id) ==
    /\ retries < MaxRetries
    /\ Exists(id) /\ rowLock[id] = None
    /\ retries' = retries + 1
    /\ rows' = [rows EXCEPT ![id].status = "pending", ![id].attempts = 0,
                            ![id].failedAt = NoTime, ![id].lockedBy = None]
    /\ UNCHANGED <<nextId, now, rowLock, clientVars, crashes, lostAcks, completed>>

\* UPDATE ... WHERE id = $1 AND status = 'dead'; otherwise an error.
RetryDead(id) ==
    /\ retries < MaxRetries
    /\ Exists(id) /\ rows[id].status = "dead"
    /\ retries' = retries + 1
    /\ rows' = [rows EXCEPT ![id].status = "pending", ![id].attempts = 0,
                            ![id].failedAt = NoTime, ![id].lockedBy = None]
    /\ UNCHANGED <<nextId, now, rowLock, clientVars, crashes, lostAcks, completed>>

\* Mutant: every finished job is deleted, dead ones too.
Expired_AnyFinished(t) ==
    {id \in JobIds : /\ Exists(id) /\ rows[id].status \in {"completed", "dead"}
                     /\ rows[id].createdAt < t}

\* DELETE ... WHERE status = 'completed' AND completed_at < t.
Expired(t) ==
    {id \in JobIds : Exists(id) /\ rows[id].status = "completed" /\ rows[id].completedAt < t}

Cleanup(t) ==
    /\ Expired(t) # {}
    /\ rows' = [id \in JobIds |-> IF id \in Expired(t) THEN None ELSE rows[id]]
    /\ UNCHANGED <<nextId, now, rowLock, clientVars, countVars, completed>>

\* Stats: SELECT queue, status, COUNT(*) ... GROUP BY, summed per status, and
\* per queue for pending and running.
Groups == {<<rows[id].queue, rows[id].status>> : id \in {x \in JobIds : Exists(x)}}
Count(g) == Cardinality({id \in JobIds : Exists(id) /\ <<rows[id].queue, rows[id].status>> = g})
Total(st) == MapThenSumSet(Count, {g \in Groups : g[2] = st})

\* Mutant: dead jobs are not aggregated.
Stats_NoDead ==
    [Pending |-> Total("pending"), Running |-> Total("running"),
     Completed |-> Total("completed"), Dead |-> 0,
     Queues |-> [q \in {g[1] : g \in Groups} |->
                   [Pending |-> Count(<<q, "pending">>), Running |-> Count(<<q, "running">>)]]]

Stats ==
    [Pending |-> Total("pending"), Running |-> Total("running"),
     Completed |-> Total("completed"), Dead |-> Total("dead"),
     Queues |-> [q \in {g[1] : g \in Groups} |->
                   [Pending |-> Count(<<q, "pending">>), Running |-> Count(<<q, "running">>)]]]

Tick ==
    /\ now < MaxTime
    /\ now' = now + 1
    /\ UNCHANGED <<rows, nextId, rowLock, clientVars, countVars, completed>>
-----------------------------------------------------------------------------
WorkerStep(w) ==
    \/ FetchSelect(w) \/ FetchReturns(w) \/ FetchAnswerLost(w)
    \/ Report(w) \/ ReportUnanswered(w) \/ ReportAgain(w)
    \/ Crash(w)

Next ==
    \/ \E q \in Queues, p \in Priorities : Enqueue(q, p)
    \/ \E w \in Workers : WorkerStep(w)
    \/ \E id \in JobIds : RetryDead(id)
    \/ \E t \in 1..(MaxTime + 1) : Cleanup(t)
    \/ Tick

Spec == Init /\ [][Next]_vars

\* Workers keep polling, executing and reporting.
Fairness ==
    \A w \in Workers : WF_vars(FetchSelect(w) \/ FetchReturns(w) \/ Report(w) \/ ReportAgain(w))

FairSpec == Spec /\ Fairness
-----------------------------------------------------------------------------
(* Properties *)

TypeOK ==
    /\ rows \in [JobIds -> Row \cup {None}]
    /\ nextId \in 1..(MaxJobs + 1)
    /\ now \in Times
    /\ rowLock \in [JobIds -> Workers \cup {None}]
    /\ state \in [Workers -> {"idle", "fetching", "executing", "retrying"}]
    /\ jobId \in [Workers -> JobIds \cup {None}]
    /\ report \in [Workers -> {"none", "complete", "fail", "dead"}]
    /\ crashes \in Nat /\ lostAcks \in Nat /\ retries \in Nat
    /\ completed \subseteq JobIds

\* A job is never tried more than max_attempts times between two RetryDead, and
\* never waits for an attempt it has no budget for, whatever reports arrive
\* late, twice or for a job another worker has since fetched.
AttemptBudget ==
    \A id \in JobIds : Exists(id) =>
        /\ rows[id].attempts <= MaxAttempts
        /\ rows[id].status = "pending" => rows[id].attempts < MaxAttempts

\* locked_by names a worker exactly while the row is running.
LockedWhileRunning ==
    \A id \in JobIds : Exists(id) =>
        (rows[id].status = "running" <=> rows[id].lockedBy # None)

\* Concurrent-worker safety: unless a report was repeated, a job is executed by
\* one worker at a time, and that worker owns its running row, although workers
\* crash and fetch concurrently.
SingleRunner ==
    lostAcks = 0 =>
        \A w \in Workers : state[w] = "executing" =>
            /\ Exists(jobId[w])
            /\ rows[jobId[w]].status = "running"
            /\ rows[jobId[w]].lockedBy = w

\* No job leaves the table before some worker completed it.
JobsKept ==
    \A id \in JobIds : id < nextId /\ ~Exists(id) => id \in completed

\* Stats accounts for every row: no status and no queue is missed.
StatsComplete ==
    LET s == Stats
        all == {id \in JobIds : Exists(id)}
    IN  /\ s.Pending + s.Running + s.Completed + s.Dead = Cardinality(all)
        /\ s.Pending = MapThenSumSet(LAMBDA q : s.Queues[q].Pending, DOMAIN s.Queues)
        /\ s.Running = MapThenSumSet(LAMBDA q : s.Queues[q].Running, DOMAIN s.Queues)

\* What the rows and the workers amount to.
Jobs ==
    [id \in JobIds |->
        IF Exists(id)
        THEN [phase |-> rows[id].status, owner |-> rows[id].lockedBy, tries |-> rows[id].attempts]
        ELSE [phase |-> IF id < nextId THEN "removed" ELSE "new", owner |-> None, tries |-> 0]]

Doing == [w \in Workers |-> IF state[w] = "executing" THEN jobId[w] ELSE None]

\* The backend is a job table: although Fetch selects and updates in two moments,
\* workers crash in between and administrators interfere, every job is given to
\* one worker and counted, settled by that worker alone while reports are
\* answered, and neither removed nor revived early.
Table == INSTANCE JobTable WITH job <- Jobs, doing <- Doing, sure <- (lostAcks = 0)
ImplementsJobTable == Table!Spec

\* Every job is completed or declared dead in the end, however often it fails,
\* its reports are repeated or (finitely many) jobs of higher priority overtake
\* it.  A crash excepts: nothing returns the running row of a lost worker.
JobsSettle ==
    \A id \in JobIds :
        Exists(id) ~> (~Exists(id) \/ rows[id].status \in {"completed", "dead"} \/ crashes > 0)

\* job/backend.go:49, "pending -> running -> completed | dead": what one worker
\* completed neither another worker nor an administrator brings back to life.
\* A repeated report excepts, since reports name the row by its id alone.
CompletedIsFinal ==
    [][lostAcks = 0 => \A id \in JobIds :
          Exists(id) /\ rows[id].status = "completed" =>
             rows'[id] = None \/ rows'[id].status = "completed"]_vars
=============================================================================
