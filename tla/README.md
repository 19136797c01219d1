# Broth in TLA+

TLA+ models of [Broth](../src/README.md), a Go web framework: what its
concurrent and stateful parts do, model-checked with TLC on small instances, and
proved with TLAPS for all instances where that is in reach. Every definition that
models code is listed in `PROJECT.json` ("map") with the lines it stands for.

## 1. The system

| Part | State | Operations | Interacts with |
|---|---|---|---|
| Leader elector, `schedule/pg_leader.go` | map key -> connection, reference count; advisory locks of PostgreSQL sessions | `TryAcquire`, `Release`, `Close` | connection pool, PostgreSQL, scheduler ticks |
| Scheduler, `schedule/schedule.go` | cron entries, `stopCh`, `wg` | `Start`, the tick closure, `Shutdown` | elector, enqueuer, robfig/cron |
| Job queue, `job/enqueuer.go`, `job/worker.go` | channel, worker goroutines, `stopCh` | `Enqueue`, `Start`, `run`, `execute`, `Shutdown` | HTTP handlers, scheduler, backend |
| Persistent jobs, `job/pg_backend.go` | rows of `broth_jobs` | `Enqueue`, `Fetch`, `Complete`, `Fail`, `Dead`, `RetryDead`, `Stats`, `Cleanup` | worker processes that share the table |
| Transactions, `db/tx.go` | transaction in the context, savepoints, `globalSpID` | `RunInTx`, nested by savepoints | database/sql, PostgreSQL |
| Rate limiter, `middleware/rate_limit.go` | map IP -> bucket, `lastSeen` | `getLimiter`, `Allow`, eviction | concurrent requests |
| Sessions and CSRF, `middleware/session.go`, `middleware/csrf.go`, `session/` | the cookie; nothing on the server | load, `Set`, `Destroy`, `SetMaxAge`, save at the first write | browser, handlers |
| HTTP chain, `router/`, `middleware/`, `auth/` | the exchange: context, session, user, headers, status; tokens at the clients | every middleware on the way in and out, `RequireAuth`, `RequireRole`, token issue and validation | handlers, net/http, sessions |
| Rendering, `render/render.go` | map page -> template | `HTML`, `JSON`, `loadTemplate` | concurrent requests, template files |
| Accounts, `modules/account/` | user repository | login, registration, logout, profile, the JSON API | sessions, chain, renderer |
| Lifecycle, `app.go`, `cmd/example/main.go` | modules, order of start and stop | `Start`, `Shutdown`, main | all of the above |

Forms, context keys, configuration, the logging wrapper, migrations, the database
handle, admin, the query builder and the test helpers keep no state between steps
and have no concurrency of their own; they are listed in `PROJECT.json` as not
modelled, with the reason.

What is hard here, and where (`PROJECT.json`, "hazards", has the full list):

* steps with a lock released between them: lookup and store in the elector,
  `getLimiter` and `Allow` in the rate limiter, check and create in accounts,
  lookup and store of a template;
* state in two places that may disagree: the elector's map and PostgreSQL's
  locks, a worker's idea of its job and the row, the copies of a session in
  overlapping responses, the roles in a token and those of its user, the status
  that was sent and the one in the log;
* decisions taken in one place and relied on in another: the request context that
  CSRF, Auth, CORS and the routes share, the session that must be in the headers
  before anybody's first byte;
* faults: lost sessions, failing queries, crashed workers, lost answers and
  repeated reports, expired contexts, panicking functions;
* waiting: full queues, an exhausted connection pool, shutdown with deadlines.

## 2. Modules

| Module | Models | Composes / refines |
|---|---|---|
| `PgLeader` (`MCPgLeader`, `PgLeaderProofs`) | the elector, pools and session locks of several instances | |
| `Scheduler` (`MCScheduler`, `SchedulerProofs`) | ticks, cron, `Start`, `Shutdown` | `L == INSTANCE PgLeader`: every tick is a caller |
| `JobQueue` (`MCJobQueue`, `JobQueueProofs`) | channel and workers | |
| `PgBackend` (`MCPgBackend`, `PgBackendProofs`) | the table `broth_jobs` and its clients | refines `JobTable` |
| `TxMgr` (`TxMgrProofs`) | nested `RunInTx` on one connection | refines `NestedTx` |
| `RateLimiter` (`ServerProofs`) | map, eviction, buckets | refines `TokenBuckets` |
| `WebSession` (`MCWebSession`, `WebSessionProofs`) | sessions, CSRF, accounts, seen from one browser with tabs | |
| `RequestChain` (`MCRequestChain`, `RequestChainProofs`) | an exchange from the router to the account module's handlers, the renderer and back | |
| `Lifecycle` (`ServerProofs`) | `App.Start`, `App.Shutdown`, main | |

`NestedTx` says what nested transactions promise: a call that succeeds hands its
writes to its caller, one that fails leaves none, the outermost one commits.
`TokenBuckets` has one bucket per IP for ever: eviction must be invisible.
`JobTable` has jobs instead of rows: each is given to one worker, counted, and settled by
that worker's report, in one step each; its one weakness is the code's own, that a
report which was not answered may be repeated on whatever the job has become.

How code becomes steps. A critical section, a SQL statement, a channel operation
or the passage to a hook is one action; between two of them everything else may
happen. Error paths are disjuncts or actions of their own (`DialFails`,
`LockQueryFails`, `EnqueueFails`, ...). A Go `select` with several ready cases
takes any. `PgLeader` splits `TryAcquire` at the mutex, at `db.Conn`, at the query
and at the store; `Close` at the swap of the map, at every unlock query (which
leaves its row open) and at every `conn.Close`. `PgBackend.Fetch` takes its row
lock in one step and commits the update in another, because `SKIP LOCKED` is about
what happens in between; a worker may crash, lose the answer to a statement that
was committed, and repeat a report. `TxMgr` keeps a history variable `due`, the
writes each open call answers for, which is also the refinement mapping.
`WebSession` keeps the browser's cookie, the forms in its tabs and the responses
under way; encoding drops `maxAge` and the flags, and decoding turns numbers into
float64.

In `RequestChain` a middleware is an operator on the exchange and a step of it. `Pass`
enters the chain from the outermost middleware inwards, as `Router.Handler` nests the
handlers, until one of them answers or `Dispatch` reaches the mux; `Unwind` returns
through the ones that were entered from the innermost outwards, which is what follows
`next.ServeHTTP` in Session, Logger and Recovery, and what a panic skips. A write
passes the writers in their order: the sessionWriter saves the session first, the
statusWriter notes the first status, net/http sends the headers as they are then.
Roles, tokens and files change between any two of these steps; handlers, the three
steps of `loadTemplate` and the two of an API login are actions of their own. Auth stands
after Session, where `docs/SECURITY_DESIGN.md` puts it: main's chain leaves it out, and
without it nobody is ever authenticated. A route behind `RequireRole` and a
handler that writes, changes the session, returns and panics in any order stand
for the handlers of applications.

The specification of `Lifecycle` is called `ProcessSpec`, with `ProcessInit` and `ProcessNext`,
so that `ServerProofs` can extend it together with `RateLimiter`.

Definitions named `X_Something` are plausible bugs of `X`, kept to show
that the properties notice them; no specification uses them.

## 3. Properties and runs

Each run is `tlc -config <cfg> <module>`; `PROJECT.json` lists them all.

| Run | Bounds | Shows |
|---|---|---|
| `PgLeader_faults` | 2 instances, 3 callers, pools of 2, one lost session, one failed query, one `Close` per instance | `DedicatedConn`, `MutualExclusion`, `ReleasedWhenQuiet` |
| `Scheduler_elect` | 2 instances, one persistent definition, one fire time, one lost session, one failed query, interrupt, `Shutdown` and `Close` | `OneEnqueuer`, `LeadershipGivenUp`, `QuietAfterShutdown` |
| `Scheduler_single` | 1 instance, a persistent definition of period 2 and an in-memory one of period 1, pool of 2, queue of 1, 1 worker, `Shutdown`, `Close` | `TicksDontOverlap`, `QuietAfterShutdown`, `ShutdownEnds` |
| `JobQueue_jobs` | 4 jobs, buffer of 1, 2 workers, cancelled callers, a panic, 2 calls of `Shutdown` | `EnqueueAnswers`, `QuietAfterShutdown`, `JobsExecuted`, `ShutdownEnds` |
| `PgBackend_jobs` | 2 workers, 2 queues, 2 priorities, 2 jobs, 2 attempts; crash, lost answer, retry | `SingleRunner`, `AttemptBudget`, `LockedWhileRunning`, `JobsKept`, `StatsComplete`, `CompletedIsFinal`, `JobsSettle`, `ImplementsJobTable` |
| `TxMgr_nested` | 3 writes, depth 3, 4 savepoints, 2 failing statements, deadlines of nested calls | `ImplementsNestedTx`, `LogMatchesCalls` |
| `RateLimiter_buckets` | 2 IPs, 2 requests, eviction after 3 units | `ImplementsTokenBuckets`, `OneBucket` |
| `WebSession_tabs` | 2 overlapping tabs, 2 users, IDs up to the last exact one, 2 tokens, expiry, restarts | `SessionUserProved`, `LogoutFinal`, `CredentialsWork`, `TokenKept` |
| `Lifecycle_process` | 3 modules, 2 requests, a job | `HooksCalled`, `DatabaseClosedLast`, `ProcessEnds` |
| `RequestChain_requests` | every combination of route, method, headers, `Authorization`, `Origin` and cookie; 2 requests at a time for a page edited once; one at a time while roles change, 2 tokens, token life 1, time 2 | `StatusLogged`, `SessionDelivered`, `SessionUserChecked`, `RolesBounded`, `PageAsFiles`, `HardenedResponses` |
| `Scheduler_once` | 2 instances, one fire time | violation of `FiredOnce` |
| `TxMgr_deadline` | 2 writes, depth 2 | violation of `FailedLeavesNoTrace` |

Why the bounds are enough to be interesting: two instances and two goroutines in
one of them are what a race on a lock or on a map entry takes; a pool smaller than
the number of callers makes calls wait; two attempts are the smallest budget with
a retry and an end; one fault of each kind can fall between any two steps; three
levels of savepoints have one between an outer and an inner one, and four names let
savepoints of failed calls stay behind; with two units of rate per eviction period
a bucket is drained, refilled and evicted within the clock's bound. In
`RequestChain` each behaviour has one family of requests (`Traffic`): single requests
with all combinations of headers, handlers that do anything, pages with and without
`Reload`, logins and roles. Requests of different families share no state. Two
exchanges at a time are what a race on the template cache takes; exchanges share
nothing else they write but the set of tokens, which stay in circulation, so one at a
time is enough where roles and the clock change between its steps. With one unit each
for the token's life and for a slow login, two units of time see a token outlive its
role and expire.

`Scheduler_single` has as few connections as still let every tick end. A tick of a
persistent definition leads with one connection and its INSERT needs a second, for
which it waits without a deadline; meanwhile an in-memory tick holds the other one
and waits for room in the queue. If the pool has no more connections than there are
persistent definitions, their ticks can take all of it and wait for each other for
ever, in the model as in the code; the first part of `ShutdownEnds` therefore assumes
one more (`SpareConnection`). A tick that does not end keeps `Shutdown`, which may come
at any time, from returning, so the property speaks of every tick too. In the model
nothing but the ticks uses the pool; a process whose requests use it needs as many
more. `ShutdownEnds` is checked without lost sessions and failing queries.

The rate limiter's `ASSUME` is the configuration's arithmetic: an idle bucket is full again
before it may be evicted (the default: 100 tokens per second, 10 minutes), and no
goroutine sleeps that long between `getLimiter` and `Allow`.

Two runs show a disagreement between the code and what is written about it, one
finding each in `PROJECT.json`. `Scheduler_once`: leadership lasts for one enqueue,
so two instances enqueue one fire time one after the other (`README.md:330`).
`TxMgr_deadline`: `ROLLBACK TO` is sent with the nested call's context; when that
has ended, the writes of the failed call stay and are committed with the call
around it (`docs/DATA_ACCESS_DESIGN.md:718`).

Other disagreements appear in the models, most of them as the conditions of a property:

| Where | What the code does | Written |
|---|---|---|
| `pg_leader.go:47` | after a lost session the map still answers true while another instance may hold the lock (`losses = 0` in `MutualExclusion`, `OneEnqueuer`) | `pg_leader.go:43-44` |
| `pg_leader.go:78` | a store after a lost session overwrites a newer entry, whose lock is not released (`losses = 0` in `ReleasedWhenQuiet`) | `pg_leader.go:84` |
| `pg_leader.go:126` | `Close` never reads its row, so `conn.Close` waits until the context ends (`CloseCtxDone`, the fairness of `CloseLeader` in `ShutdownEnds`) | `pg_leader.go:116` |
| `schedule.go:122` | cron is started after a `Shutdown` that came first (`early` in `QuietAfterShutdown`, `OneEnqueuer`) | `schedule.go:196` |
| `schedule.go:181` | `Overlap: false` skips enqueues, not executions (`TicksDontOverlap` is about ticks) | `README.md:317` |
| `schedule.go:139` | a tick's context is `context.Background()`, which the stop of the scheduler does not cancel: when the leaders of persistent definitions hold the whole pool, their ticks wait for ever and `Shutdown` returns only with its deadline (`SpareConnection` in `ShutdownEnds`) | `docs/CONCURRENCY_DESIGN.md:2522` |
| `worker.go:72` | jobs in the channel are dropped at shutdown (`stopped` in `JobsExecuted`) | `docs/CONCURRENCY_DESIGN.md:2348` |
| `worker.go:89` | a panic of a job ends the process (`crashed`) | `docs/CONCURRENCY_DESIGN.md:383` |
| `pg_backend.go:73` | nothing fetches a running row again whose worker is gone (`crashes` in `JobsSettle`) | `docs/CONCURRENCY_DESIGN.md:1254` |
| `pg_backend.go:142` | a repeated report revives a completed job (`lostAcks` in `CompletedIsFinal`, `SingleRunner`) | `job/backend.go:49` |
| `pg_backend.go:136` | a failed job can be fetched at once, there is no backoff | `docs/CONCURRENCY_DESIGN.md:1248` |
| `middleware/session.go:195` | a response under way during a logout brings the session back (`ended`) | `session/session.go:78-79` |
| `session/cookie_store.go:97` | `maxAge` is not encoded: the next save of a remembered session gives its cookie the default age | `session/session.go:85-86` |
| `middleware/session.go:74` | what a handler sets after its first write is not saved (`lateSession` in `SessionDelivered`) | `middleware/session.go:30-32` |
| `middleware/session.go:72` | a panic before the first write drops what the exchange did to the session (`panicked`) | `middleware/session.go:30-32` |
| `middleware/session.go:186` | a session that cannot be encoded is not saved and nobody hears of it (`"bad"`) | the comment there: "the logger middleware should catch issues" |
| `middleware/logger.go:20` | a request that panics is not logged (`panicked` in `StatusLogged`) | `middleware/logger.go:13` |
| `middleware/logger.go:42` | a status set after the first `Write` is logged but was not sent (`lateHeader`) | `middleware/logger.go:13` |
| `middleware/cors.go:48` | a browser's preflight has none of the headers of the API context, is taken for SSR and passed on to the mux, which answers 405 | `README.md:26` |
| `middleware/csrf.go:72` | `POST /account/logout` with an XHR header and no token is in the API context: CSRF passes it and the handler destroys the session (`SessionUserChecked` speaks of users whom Auth took from the session only) | agrees with `README.md:25` |
| `middleware/context_detect.go:90` | `ForceContext` runs after CSRF: `POST /account/api/login` without a JSON header is refused without a token | `README.md:25` |
| `cmd/example/main.go:91` | Auth is not in the chain, so `/account/profile` and `/account/api/me` refuse everybody, and `RequireAuth` redirects to `/login`, which is mounted as `/account/login` | `README.md:34` |
| `render/render.go:64` | a page whose template fails is answered with 200 and nothing or a part of it (`PageAsFiles`) | |
| `auth/token.go:54` | a role that was taken away works until the tokens issued with it expire (`RolesBounded`) | |
| `schedule.go:170` | after an interrupt a tick that waits for room in the queue keeps its connection, and others wait for one (`interrupted` in `ShutdownEnds`) | |
| `cmd/example/main.go:211` | requests served after the workers stopped enqueue jobs that never run (`stopped` in `JobsExecuted`) | `docs/CONCURRENCY_DESIGN.md:2346` |
| `modules/account/service.go:36` | two registrations of one email at a time both succeed (`raced` in `CredentialsWork`) | `modules/account/service.go:35` |
| `cmd/example/main.go:217` | the HTTP server is shut down after scheduler, workers and modules (`ServerCloses`) | `docs/CONCURRENCY_DESIGN.md:2346` |
| `app.go:69` | modules are shut down in the order of registration (`ModuleStops`; `HooksCalled` says nothing of the order) | `docs/MODULE_DESIGN.md:844` |

### Fairness

`Scheduler`: goroutines run on, queries return and cron fires; database/sql serves
waiting `db.Conn` calls in order and a channel its senders, hence strong fairness of
a tick's steps, `Dial` among them; workers run until the interrupt; main gives
`Close` a context with a timeout, hence weak fairness of `CloseLeader`. `PgLeader`
alone has no fairness: its calls are the scheduler's ticks. `JobQueue`: the pool is started, workers run on, jobs
return; nothing is assumed of contexts. `PgBackend`: workers go on polling, executing and
reporting. `Lifecycle`: main runs on, hooks return, the deadline comes, which also
ends the elector's `Close`; requests and jobs may never end. `RequestChain` states
safety only and assumes nothing: a handler may never return.

## 4. Proofs

Proved by TLAPS for every value of the constants, from the named assumptions of
the modules (their `ASSUME`s, which TLC evaluates in the runs):

* `PgLeaderProofs`: `TypeOK`, `DedicatedConn`, `MutualExclusion`, for any number of
  instances, callers, keys (colliding or not), connections and faults.
  `MutualExclusion` speaks of callers, whose claim rests on a map entry, whose
  claim rests on a PostgreSQL session. The inductive invariant follows that chain:
  PostgreSQL grants an id to one session (`OneHolder`); every connection has one
  owner among calls, entries, and what `Close` has taken over (`DedicatedConn`); owners
  of living sessions hold their lock (`LiveHolds`); without losses the reference
  count of an entry is the number of callers that lead (`RefCount`). The last part
  is where `Release` is needed to count down under the mutex: a caller cannot lose
  its entry to somebody else's `Release`. The proof has a lemma per kind of step and
  part of the invariant, and counts leaders with the theorems on finite sets.
  `ReleasedWhenQuiet` looks from the other side, from connections and locks to
  owners, and needs two more parts: a connection outside the pool is owned by a
  call or an entry, and a count that nobody answers for stems from an unlock query
  that failed (`Accounted`); an entry counts at least one leader (`Counted`).
* `PgBackendProofs`: `TypeOK`, `AttemptBudget`, `LockedWhileRunning`, `SingleRunner`,
  `JobsKept`, the action property `CompletedIsFinal` and the refinement
  `ImplementsJobTable`. `SingleRunner` is not
  inductive: the row that a `Fetch` is about to update must still be pending and
  locked by that fetch (`Fetching`), and reports are repeated only after an answer
  was lost (`Running`). A lemma about writing one good row carries all the
  statements of the backend; `CompletedIsFinal` follows because each of them, in a
  state of the invariant, writes a row that is not completed. For the refinement a
  step that writes one row is a step of one job (`OneJob`); what `JobTable` demands of it
  (the job is pending and has tries left when it is given, a report comes from its
  owner unless one was lost) is in the invariant, to which the refinement added that
  whatever is reported was once enqueued (`Reporting`).
* `SchedulerProofs`: `TicksDontOverlap`, `QuietAfterShutdown`, `OneEnqueuer` and
  `LeadershipGivenUp`. The module instantiates `PgLeaderProofs` with the ticks as
  callers, shows that every step of the scheduler is a step of the electors, leaves
  them alone or adds a failed query of the enqueuer (`ElectorStep`), and so inherits
  their whole invariant. What the scheduler adds: a tick leads exactly while it
  enqueues (`Calling`), cron's next fire time is always a tick that was not launched
  yet (`FireTimes`), the token of `SkipIfStillRunning` is away exactly while one tick
  runs (`Tokens`), and a cron that was stopped stays stopped unless `Shutdown` came
  before its start (`Stopped`). `OneEnqueuer` is then `MutualExclusion` read through
  `Calling`, and `LeadershipGivenUp` is `ReleasedWhenQuiet`.
* `JobQueueProofs`: `EnqueueAnswers`, `QuietAfterShutdown`. The line of jobs that were
  started, are buffered or are blocked is described by places: every job in it has one
  place, and the answer to its call follows from the border it stands before or behind
  (`Placed`); callers block only behind a full buffer (`Room`).
* `TxMgrProofs`: `LogMatchesCalls` and the refinement `ImplementsNestedTx`. Statements
  between savepoints are nested like the calls that made them (`Savepoints`,
  `Nesting`), and what lies above a call's savepoint is what the calls above it
  answer for (`Matches`); this is what makes `ROLLBACK TO` undo one call and no more,
  although the savepoints of failed calls stay behind.
* `ServerProofs`, on the rate limiter: `OneBucket` and the refinement `ImplementsTokenBuckets`: a
  bucket that is evicted was full, so the new one that replaces it makes no
  difference. Both rest on the arithmetic of the configuration in `ASSUME`.
* `WebSessionProofs`: `SessionUserProved`, `LogoutFinal`, `CredentialsWork` and the
  action property `TokenKept`. The cookie is the only state of a session, so the
  invariant has to follow its copies: in the browser, in requests being handled and
  in responses under way. Every copy that names a user was proved (`Proved`); a
  login that ended is in no copy that could still be delivered (`NotEnded`); emails
  in the repository are unique unless registrations raced (`Unique`); a request that
  no other one overlaps works on the cookie the browser still has (`Solo`).
  `ExactAssumption` says that user IDs, which the database counts up from 1, stay
  within the integers that JSON numbers hold exactly.
* `RequestChainProofs`: `StatusLogged`, `SessionDelivered`, `SessionUserChecked`, `RolesBounded`,
  `PageAsFiles` and `HardenedResponses`, for any set of requests, any number of exchanges
  at a time and any edits, roles, tokens and times. All six speak of the end of an
  exchange or of its handler, so the invariant says what an exchange knows at every
  place before. On the way in the depth of the chain tells it (`Inbound`): from the 4th
  middleware on the context is the one the request's headers give, from the 6th the
  session is the client's, from the 8th an unsafe request of a browser had its
  session's token. In a handler (`Handling`) nothing was written yet unless the
  application's own handler wrote; on the way out (`Outbound`) what was written stays as
  it was sent, and Session, Logger and Recovery add their part when the depth passes
  theirs. `SessionUserChecked` needs that a user named by a session was accepted in the
  browser's context, which `ForceContext` may have changed since: the invariant
  therefore speaks of the context the headers give. `HardenedResponses` needs the
  order of `Chain`: nothing answers before Auth, the 7th middleware. `PageAsFiles` needs the
  cache to hold only kinds the file had and that parse (`FilesInv`), and each exchange
  to note the files of its time (`PageInv`). `RolesBounded` follows the role from its
  user to the login under way, from there to the token, and to the request with that
  token: a token that grants the role expires at most `TTL + MaxStall` after the role was
  last there (`TokensInv`, `RoleInv`), because `Tick` waits for logins under way. A lemma
  for each writer (`Send`, `FirstWrite`, `Write`, `WriteHeader`, `Respond`) says what it
  keeps, one for each middleware and action that it keeps the parts of the invariant.
* `ServerProofs`, on the lifecycle: `HooksCalled`, `DatabaseClosedLast`. The loops of `App.Start` and
  `App.Shutdown` get their loop invariants (`StartLoop`, `StopLoop`: the hooks before
  the index were called), and main's waits are recorded until the database
  is closed (`Waited`).

Every inductive invariant was also checked with TLC on the module's own run
(`WebSession`'s without its typing conjuncts, which range over all natural numbers
and which TLC cannot enumerate). The assumptions are those of the modules: finite sets of callers,
instances and definitions where they are counted, bounds that are natural numbers,
values that are different from `None`, and the arithmetic named above.

Only model-checked:

* all liveness properties: fairness and `ENABLED` are out of the prover's reach;
* `PgBackend.StatsComplete`: it adds up groups with a fold, and what a fold computes
  for every set needs an induction the installed provers cannot instantiate.

## 5. Not modelled

Cron expressions and time zones; reflection over forms and which values are valid
(a choice of `Submit` and `APILogin`); session values other than the user, the
token, the expiry and one value of a handler; encryption of the cookie (decoding
accepts what encoding made); `Hijack` and `Push` of the sessionWriter; in `Auth` a UserFinder
that is missing or does not know the user (the request then has no user) and a missing
TokenService (every token is refused); `PUT`, `PATCH` and `DELETE`, which CSRF treats like
`POST` and no route uses; statuses below 200, `HEAD` and the mux's path redirects; layouts and components as files of their own (a
page's files are one file); the greeting and health handlers of the example; failure of
`BeginTx` and transaction options; goroutines that share one transaction, which
neither code nor documentation provides for; what jobs and hooks do. The repository has no worker that calls
`Fetch`: the clients of `PgBackend` are modelled from the interface.

## 6. Plan

Done: all components of section 2, and the safety and action properties of the passing
runs proved, `StatsComplete` excepted. What remains worth doing: an abstract lock service
that `PgLeader` refines while no session is lost, and `Scheduler` on top of it.
