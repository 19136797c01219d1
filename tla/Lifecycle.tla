----------------------------- MODULE Lifecycle ------------------------------
(* The life of a process: App.Start and App.Shutdown (app.go) and the main    *)
(* function that orders them with the workers, the scheduler, the HTTP        *)
(* server, the leader elector and the database (cmd/example/main.go).         *)
(*                                                                            *)
(* The modules are 1..N in the order of Register.  Main, the server's         *)
(* goroutine, the requests and the workers run concurrently; one shutdown     *)
(* context bounds all the waiting.                                            *)
(* External: the hooks of the modules, net/http.Server, the signal.           *)
(* Abstracted: what the scheduler waits for (see Scheduler; its Shutdown      *)
(* returns at some time here), what the workers run (see JobQueue), the       *)
(* elector's Close (see PgLeader).                                            *)
EXTENDS Naturals, Sequences, FiniteSets, SequencesExt

CONSTANTS
    N,                  \* number of modules
    Starters, Stoppers, \* those that implement OnStart, OnShutdown
    Clients,            \* each may send a request
    UseDb               \* DATABASE_URL is set: database, backend and elector

ASSUME LifecycleAssumption ==
    /\ N \in Nat /\ Starters \subseteq 1..N /\ Stoppers \subseteq 1..N
    /\ UseDb \in BOOLEAN

VARIABLES
    main,       \* what main does: "start", "serve", then the component it shuts
                \* down; "done" or "exited" when the process is gone
    next,       \* the module whose hook the loop of App.Start or Shutdown is at
    started,    \* modules whose Start returned nil
    stops,      \* modules whose Shutdown was called, in order
    failed,     \* those of them whose Shutdown failed
    appErr,     \* firstErr of App.Shutdown; 0: nil
    interrupted,\* the context of Start and of the workers has ended
    expired,    \* the shutdown context has ended
    server,     \* "off", "starting", "listening", "closed"
    request,    \* [client]: its request, "none", "active", "done"
    workers,    \* "off", "running", "exited"
    working,    \* a worker executes a job
    database    \* "open", "closed"

appVars == <<next, started, stops, failed, appErr>>
processVars == <<main, appVars, interrupted, expired, server, request, workers, working, database>>

Alive    == main \notin {"done", "exited"}
Stopping == Alive /\ main \notin {"start", "serve"}
Active   == {r \in Clients : request[r] = "active"}

ProcessInit ==
    /\ main = "start" /\ next = 1
    /\ started = {} /\ stops = <<>> /\ failed = {} /\ appErr = 0
    /\ interrupted = FALSE /\ expired = FALSE
    /\ server = "off"
    /\ request = [r \in Clients |-> "none"]
    /\ workers = "off" /\ working = FALSE
    /\ database = IF UseDb THEN "open" ELSE "closed"
-----------------------------------------------------------------------------
(* App.Start *)

\* The loop of App.Start: a failing hook makes main exit, without any Shutdown.
ModuleStarts ==
    /\ main = "start" /\ next <= N
    /\ \/ /\ started' = started \cup ({next} \cap Starters)
          /\ next' = next + 1
          /\ UNCHANGED main
       \/ /\ next \in Starters
          /\ main' = "exited"
          /\ UNCHANGED <<next, started>>
    /\ UNCHANGED <<stops, failed, appErr, interrupted, expired, server, request,
                   workers, working, database>>

\* App.Start has returned nil: the workers start, then the server's goroutine.
Serve ==
    /\ main = "start" /\ next > N
    /\ main' = "serve"
    /\ workers' = "running" /\ server' = "starting"
    /\ UNCHANGED <<appVars, interrupted, expired, request, working, database>>
-----------------------------------------------------------------------------
(* Shutdown *)

\* <-ctx.Done(): the scheduler's Shutdown is called first.
ShutdownBegins ==
    /\ main = "serve" /\ interrupted
    /\ main' = "scheduler"
    /\ UNCHANGED <<appVars, interrupted, expired, server, request, workers, working, database>>

SchedulerStopped ==
    /\ main = "scheduler"
    /\ main' = "worker"
    /\ UNCHANGED <<appVars, interrupted, expired, server, request, workers, working, database>>

\* Mutant: Worker.Shutdown closes stopCh and does not wait.
WorkerStopped_NoWait ==
    /\ main = "worker"
    /\ main' = "app" /\ next' = 1
    /\ UNCHANGED <<started, stops, failed, appErr, interrupted, expired, server, request,
                   workers, working, database>>

\* Worker.Shutdown returns when the workers have exited, or with ctx.Err().
WorkerStopped ==
    /\ main = "worker"
    /\ workers = "exited" \/ expired
    /\ main' = "app" /\ next' = 1
    /\ UNCHANGED <<started, stops, failed, appErr, interrupted, expired, server, request,
                   workers, working, database>>

\* Mutant: App.Shutdown returns at the first error.
ModuleStops_ReturnsEarly ==
    /\ main = "app" /\ next <= N
    /\ \/ /\ next \notin Stoppers
          /\ next' = next + 1
          /\ UNCHANGED <<stops, failed, appErr>>
       \/ /\ next \in Stoppers
          /\ stops' = Append(stops, next)
          /\ \/ next' = next + 1 /\ UNCHANGED <<failed, appErr>>
             \/ next' = N + 1 /\ failed' = failed \cup {next} /\ appErr' = next
    /\ UNCHANGED <<main, started, interrupted, expired, server, request, workers, working,
                   database>>

\* The loop of App.Shutdown: every hook is called, the first error is kept.
ModuleStops ==
    /\ main = "app" /\ next <= N
    /\ next' = next + 1
    /\ \/ /\ next \notin Stoppers
          /\ UNCHANGED <<stops, failed, appErr>>
       \/ /\ next \in Stoppers
          /\ stops' = Append(stops, next)
          /\ \/ UNCHANGED <<failed, appErr>>
             \/ /\ failed' = failed \cup {next}
                /\ appErr' = IF appErr = 0 THEN next ELSE appErr
    /\ UNCHANGED <<main, started, interrupted, expired, server, request, workers, working,
                   database>>

\* srv.Shutdown closes the listener ...
ServerCloses ==
    /\ main = "app" /\ next > N
    /\ main' = "server" /\ server' = "closed"
    /\ UNCHANGED <<appVars, interrupted, expired, request, workers, working, database>>

\* Mutant: srv.Shutdown is given a context that never ends.
ServerStopped_NoDeadline ==
    /\ main = "server"
    /\ Active = {}
    /\ main' = IF UseDb THEN "leader" ELSE "done"
    /\ UNCHANGED <<appVars, interrupted, expired, server, request, workers, working, database>>

\* ... and waits for the active requests, or for the context.
ServerStopped ==
    /\ main = "server"
    /\ Active = {} \/ expired
    /\ main' = IF UseDb THEN "leader" ELSE "done"
    /\ UNCHANGED <<appVars, interrupted, expired, server, request, workers, working, database>>

\* PgLeaderElector.Close, when it returns.
LeaderClosed ==
    /\ main = "leader"
    /\ main' = "database"
    /\ UNCHANGED <<appVars, interrupted, expired, server, request, workers, working, database>>

\* database.Close, and then main returns.
DatabaseClosed ==
    /\ main = "database"
    /\ database' = "closed"
    /\ main' = "returns"
    /\ UNCHANGED <<appVars, interrupted, expired, server, request, workers, working>>

MainReturns ==
    /\ main = "returns"
    /\ main' = "done"
    /\ UNCHANGED <<appVars, interrupted, expired, server, request, workers, working, database>>

Main ==
    \/ ModuleStarts \/ Serve \/ ShutdownBegins \/ SchedulerStopped \/ WorkerStopped
    \/ ModuleStops \/ ServerCloses \/ ServerStopped
    \/ LeaderClosed \/ DatabaseClosed \/ MainReturns
-----------------------------------------------------------------------------
(* The environment and the other goroutines *)

\* External: the interrupt signal.
Interrupt ==
    /\ Alive /\ ~interrupted
    /\ interrupted' = TRUE
    /\ UNCHANGED <<main, appVars, expired, server, request, workers, working, database>>

\* The shutdown context's deadline.
Expire ==
    /\ Stopping /\ ~expired
    /\ expired' = TRUE
    /\ UNCHANGED <<main, appVars, interrupted, server, request, workers, working, database>>

\* ListenAndServe listens, or fails and the process exits.
Listen ==
    /\ Alive /\ server = "starting"
    /\ \/ server' = "listening" /\ UNCHANGED main
       \/ main' = "exited" /\ UNCHANGED server
    /\ UNCHANGED <<appVars, interrupted, expired, request, workers, working, database>>

\* External: a request arrives, and its handler returns.
Arrive(r) ==
    /\ Alive /\ server = "listening" /\ request[r] = "none"
    /\ request' = [request EXCEPT ![r] = "active"]
    /\ UNCHANGED <<main, appVars, interrupted, expired, server, workers, working, database>>

Answer(r) ==
    /\ Alive /\ request[r] = "active"
    /\ request' = [request EXCEPT ![r] = "done"]
    /\ UNCHANGED <<main, appVars, interrupted, expired, server, workers, working, database>>

\* The workers: a ready queue may win the select even after the stop.
JobBegins ==
    /\ Alive /\ workers = "running" /\ ~working
    /\ working' = TRUE
    /\ UNCHANGED <<main, appVars, interrupted, expired, server, request, workers, database>>

JobEnds ==
    /\ Alive /\ working
    /\ working' = FALSE
    /\ UNCHANGED <<main, appVars, interrupted, expired, server, request, workers, database>>

WorkersExit ==
    /\ Alive /\ workers = "running" /\ ~working
    /\ interrupted
    /\ workers' = "exited"
    /\ UNCHANGED <<main, appVars, interrupted, expired, server, request, working, database>>

ProcessNext ==
    \/ Main \/ Interrupt \/ Expire \/ Listen
    \/ \E r \in Clients : Arrive(r) \/ Answer(r)
    \/ JobBegins \/ JobEnds \/ WorkersExit

ProcessSpec == ProcessInit /\ [][ProcessNext]_processVars

\* Main runs on, hooks return and the deadline comes, which also ends the
\* elector's Close (PgLeader).  Nothing is assumed of the requests and the jobs.
FairSpec == ProcessSpec /\ WF_processVars(Main) /\ WF_processVars(Expire)
-----------------------------------------------------------------------------
(* Properties *)

\* Requests are served and jobs run only when every OnStart hook of the modules
\* has succeeded, although a hook may fail at any place of App.Start's loop;
\* App.Shutdown calls every OnShutdown hook once, although hooks before it
\* failed, and reports the failure of the first one it called that failed.
HooksCalled ==
    /\ server # "off" \/ working => Starters \subseteq started
    /\ server = "closed" =>
          /\ ToSet(stops) = Stoppers
          /\ \A m, n \in DOMAIN stops : stops[m] = stops[n] => m = n
          /\ failed = {} => appErr = 0
          /\ failed # {} =>
                \E n \in DOMAIN stops :
                    /\ stops[n] = appErr /\ appErr \in failed
                    /\ \A m \in DOMAIN stops : m < n => stops[m] \notin failed

\* The database is closed under no request and no job, unless the deadline of
\* the shutdown came before they ended.
DatabaseClosedLast ==
    UseDb /\ database = "closed" /\ ~expired => Active = {} /\ ~working

\* After an interrupt the process ends, although a request or a job may never
\* end: one deadline bounds every wait of the shutdown.
ProcessEnds == interrupted ~> ~Alive
=============================================================================
