------------------------------ MODULE JobQueue ------------------------------
(* The in-memory job system: Enqueuer (job/enqueuer.go) and Worker            *)
(* (job/worker.go).  Every job is handed to Enqueue by one goroutine of its   *)
(* own (an HTTP handler or a cron tick); Concurrency worker goroutines take   *)
(* envelopes from the channel and execute them; one more goroutine starts and *)
(* shuts down the pool.  A select with several ready cases takes any of them. *)
(* External: the Go channel, which serves blocked senders first come first    *)
(* served, the job's own Execute, and the contexts of the callers.            *)
EXTENDS Naturals, Sequences, FiniteSets, SequencesExt

CONSTANTS
    Jobs,           \* jobs handed to Enqueue
    Persistent,     \* those enqueued WithPersist()
    Cancellable,    \* those whose Enqueue context may be cancelled
    HasBackend,     \* WithBackend was given
    Concurrency,    \* WorkerConfig.Concurrency as configured, maybe 0
    QueueSize,      \* capacity of memQueue; 0: senders meet a worker
    Panics,         \* jobs whose Execute may panic
    MaxShutdowns,   \* bound on calls of Shutdown
    NoJob

ASSUME QueueAssumption ==
    /\ Persistent \subseteq Jobs /\ Cancellable \subseteq Jobs /\ Panics \subseteq Jobs
    /\ HasBackend \in BOOLEAN
    /\ Concurrency \in Nat /\ QueueSize \in Nat /\ MaxShutdowns \in Nat
    /\ NoJob \notin Jobs

VARIABLES
    call,       \* [job]: where its Enqueue call is
    memQueue,   \* the channel's buffer
    sendq,      \* blocked senders, in order of arrival
    worker,     \* [worker]: "new", "select", "execute", "exited"
    env,        \* [worker]: the envelope it executes
    stopped,    \* stopCh is closed
    ctxDone,    \* the context given to Start has ended (interrupt signal)
    shutdown,   \* the last Shutdown: "none", "waiting", "nil", "error"
    shutdowns,  \* calls of Shutdown so far
    crashed,    \* a goroutine panicked: the process is gone
    started,    \* history: jobs a worker began to execute, in order
    finished    \* history: jobs whose Execute returned

queueVars  == <<memQueue, sendq>>
history    == <<started, finished>>
poolVars   == <<stopped, ctxDone, shutdown, shutdowns>>
vars == <<call, queueVars, worker, env, poolVars, crashed, history>>

\* NewWorker: a concurrency of zero or less means one worker.
Workers == 1..(IF Concurrency = 0 THEN 1 ELSE Concurrency)

Init ==
    /\ call = [j \in Jobs |-> "new"]
    /\ memQueue = <<>> /\ sendq = <<>>
    /\ worker = [w \in Workers |-> "new"]
    /\ env = [w \in Workers |-> NoJob]
    /\ stopped = FALSE /\ ctxDone = FALSE
    /\ shutdown = "none" /\ shutdowns = 0
    /\ crashed = FALSE
    /\ started = <<>> /\ finished = {}
-----------------------------------------------------------------------------
(* Enqueuer *)

\* Enqueue, the persistent branch: no backend is an error, otherwise the row is
\* written by the backend (PgBackend).
EnqueuePersistent(j) ==
    /\ ~crashed /\ call[j] = "new" /\ j \in Persistent
    /\ call' = [call EXCEPT ![j] = IF HasBackend THEN "stored" ELSE "error"]
    /\ UNCHANGED <<queueVars, worker, env, poolVars, crashed, history>>

\* Enqueue, the in-memory branch: the send succeeds at once when the buffer has
\* room, and otherwise blocks.
Enqueue(j) ==
    /\ ~crashed /\ call[j] = "new" /\ j \notin Persistent
    /\ \/ /\ Len(memQueue) < QueueSize
          /\ memQueue' = Append(memQueue, j)
          /\ call' = [call EXCEPT ![j] = "nil"]
          /\ UNCHANGED sendq
       \/ /\ Len(memQueue) = QueueSize
          /\ sendq' = Append(sendq, j)
          /\ call' = [call EXCEPT ![j] = "blocked"]
          /\ UNCHANGED memQueue
    /\ UNCHANGED <<worker, env, poolVars, crashed, history>>

\* Mutant: the caller is told of the cancellation, the envelope stays.
EnqueueCancelled_StillSends(j) ==
    /\ ~crashed /\ call[j] = "blocked" /\ j \in Cancellable \ Persistent
    /\ call' = [call EXCEPT ![j] = "error"]
    /\ UNCHANGED <<queueVars, worker, env, poolVars, crashed, history>>

\* The ctx.Done() case of the select, before or while the send blocks: the
\* sender leaves the channel.
EnqueueCancelled(j) ==
    /\ ~crashed /\ j \in Cancellable \ Persistent
    /\ \/ call[j] = "new" /\ UNCHANGED sendq
       \/ /\ call[j] = "blocked"
          /\ \E n \in DOMAIN sendq : sendq[n] = j /\ sendq' = RemoveAt(sendq, n)
    /\ call' = [call EXCEPT ![j] = "error"]
    /\ UNCHANGED <<memQueue, worker, env, poolVars, crashed, history>>
-----------------------------------------------------------------------------
(* Worker *)

\* Start launches the goroutines and returns.
Start ==
    /\ ~crashed /\ \A w \in Workers : worker[w] = "new"
    /\ worker' = [w \in Workers |-> "select"]
    /\ UNCHANGED <<call, queueVars, env, poolVars, crashed, history>>

\* case env := <-queue: take the oldest envelope; the first blocked sender, if
\* any, takes its place (or hands its envelope over when there is no buffer).
Receive(w) ==
    LET all == memQueue \o sendq IN
    /\ ~crashed /\ worker[w] = "select" /\ all # <<>>
    /\ memQueue' = SubSeq(all, 2, Min({Len(all), QueueSize + 1}))
    /\ sendq' = IF sendq = <<>> THEN <<>> ELSE Tail(sendq)
    /\ call' = IF sendq = <<>> THEN call ELSE [call EXCEPT ![Head(sendq)] = "nil"]
    /\ worker' = [worker EXCEPT ![w] = "execute"]
    /\ env' = [env EXCEPT ![w] = Head(all)]
    /\ started' = Append(started, Head(all))
    /\ UNCHANGED <<poolVars, crashed, finished>>

\* Mutant: run returns when a job ends instead of taking the next one.
ExecuteReturns_EndsWorker(w) ==
    /\ ~crashed /\ worker[w] = "execute"
    /\ worker' = [worker EXCEPT ![w] = "exited"]
    /\ finished' = finished \cup {env[w]}
    /\ env' = [env EXCEPT ![w] = NoJob]
    /\ UNCHANGED <<call, queueVars, poolVars, crashed, started>>

\* execute returns: an error of the job is only logged.
ExecuteReturns(w) ==
    /\ ~crashed /\ worker[w] = "execute"
    /\ worker' = [worker EXCEPT ![w] = "select"]
    /\ finished' = finished \cup {env[w]}
    /\ env' = [env EXCEPT ![w] = NoJob]
    /\ UNCHANGED <<call, queueVars, poolVars, crashed, started>>

\* execute has no recover: a panic of the job ends the process.
ExecutePanics(w) ==
    /\ ~crashed /\ worker[w] = "execute" /\ env[w] \in Panics
    /\ crashed' = TRUE
    /\ UNCHANGED <<call, queueVars, worker, env, poolVars, history>>

\* Mutant: the select has no stopCh case.
Exit_OnlyContext(w) ==
    /\ ~crashed /\ worker[w] = "select" /\ ctxDone
    /\ worker' = [worker EXCEPT ![w] = "exited"]
    /\ UNCHANGED <<call, queueVars, env, poolVars, crashed, history>>

\* case <-w.stopCh, case <-ctx.Done(): the goroutine returns.
Exit(w) ==
    /\ ~crashed /\ worker[w] = "select" /\ (stopped \/ ctxDone)
    /\ worker' = [worker EXCEPT ![w] = "exited"]
    /\ UNCHANGED <<call, queueVars, env, poolVars, crashed, history>>

\* The process receives an interrupt: the context given to Start ends.
Interrupt ==
    /\ ~crashed /\ ~ctxDone
    /\ ctxDone' = TRUE
    /\ UNCHANGED <<call, queueVars, worker, env, stopped, shutdown, shutdowns,
                   crashed, history>>

\* Shutdown closes stopCh; closing it a second time panics.  It is called after
\* Start (cmd/example/main.go:181, 211).
Shutdown ==
    /\ ~crashed /\ \A w \in Workers : worker[w] # "new"
    /\ shutdown # "waiting" /\ shutdowns < MaxShutdowns
    /\ shutdowns' = shutdowns + 1
    /\ \/ ~stopped /\ stopped' = TRUE /\ shutdown' = "waiting" /\ UNCHANGED crashed
       \/ stopped /\ crashed' = TRUE /\ UNCHANGED <<stopped, shutdown>>
    /\ UNCHANGED <<call, queueVars, worker, env, ctxDone, history>>

\* Mutant: Start forgot wg.Add, so there is nothing to wait for.
ShutdownReturns_NoWait ==
    /\ ~crashed /\ shutdown = "waiting"
    /\ shutdown' = "nil"
    /\ UNCHANGED <<call, queueVars, worker, env, stopped, ctxDone, shutdowns,
                   crashed, history>>

\* The WaitGroup counts the goroutines Start launched.
ShutdownReturns ==
    /\ ~crashed /\ shutdown = "waiting"
    /\ \A w \in Workers : worker[w] = "exited"
    /\ shutdown' = "nil"
    /\ UNCHANGED <<call, queueVars, worker, env, stopped, ctxDone, shutdowns,
                   crashed, history>>

\* The context given to Shutdown ends first.
ShutdownTimeout ==
    /\ ~crashed /\ shutdown = "waiting"
    /\ shutdown' = "error"
    /\ UNCHANGED <<call, queueVars, worker, env, stopped, ctxDone, shutdowns,
                   crashed, history>>
-----------------------------------------------------------------------------
Next ==
    \/ \E j \in Jobs : EnqueuePersistent(j) \/ Enqueue(j) \/ EnqueueCancelled(j)
    \/ \E w \in Workers : Receive(w) \/ ExecuteReturns(w) \/ ExecutePanics(w) \/ Exit(w)
    \/ Start \/ Interrupt
    \/ Shutdown \/ ShutdownReturns \/ ShutdownTimeout

Spec == Init /\ [][Next]_vars

\* The pool is started, Go runs its goroutines, and every job's Execute returns.
\* The context given to Shutdown need not end.
Fairness ==
    /\ WF_vars(Start)
    /\ \A w \in Workers : WF_vars(Receive(w) \/ Exit(w)) /\ WF_vars(ExecuteReturns(w))
    /\ WF_vars(ShutdownReturns)

FairSpec == Spec /\ Fairness
-----------------------------------------------------------------------------
(* Properties *)

\* What Enqueue told its caller is what happens to the job: a job it accepted
\* is queued once or was started once, a job it refused is neither, and a
\* blocked job waits only while the buffer is full.
EnqueueAnswers ==
    \A j \in Jobs :
        LET places == {n \in DOMAIN started : started[n] = j}
            queued == {n \in DOMAIN memQueue : memQueue[n] = j}
        IN  /\ Cardinality(places) + Cardinality(queued) = IF call[j] = "nil" THEN 1 ELSE 0
            /\ call[j] = "blocked" <=> \E n \in DOMAIN sendq : sendq[n] = j
            /\ call[j] = "blocked" => Len(memQueue) = QueueSize

\* After Shutdown returned nil no job is executing and none starts any more.
QuietAfterShutdown ==
    [][shutdown = "nil" => /\ \A w \in Workers : worker[w] # "execute"
                           /\ started' = started]_vars

\* As long as the pool is not stopped, every accepted job is executed, whatever
\* the order in which callers block, give up and workers become free.
JobsExecuted ==
    \A j \in Jobs : call[j] = "nil" ~> (j \in finished \/ stopped \/ ctxDone \/ crashed)

\* Shutdown returns although its context never ends: every worker notices the
\* closed stopCh between two jobs.
ShutdownEnds == shutdown = "waiting" ~> (shutdown \in {"nil", "error"} \/ crashed)
=============================================================================
