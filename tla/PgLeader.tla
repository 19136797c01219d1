------------------------------ MODULE PgLeader ------------------------------
(* PgLeaderElector (schedule/pg_leader.go): leader election on PostgreSQL      *)
(* session advisory locks.  One elector per application instance; its methods *)
(* are called by concurrent goroutines (the scheduler's cron ticks), each of  *)
(* which calls Release once after a TryAcquire that returned true             *)
(* (schedule/schedule.go:142-168).                                            *)
(*                                                                            *)
(* A step of a method ends where the code unlocks e.mu or a database call     *)
(* returns.  External: database/sql (a pool of PoolSize connections per       *)
(* instance; an in-use connection belongs to one *sql.Conn) and PostgreSQL    *)
(* (advisory locks are counted per session and end with it).  Faults: a       *)
(* session may be lost at any time (SessionLost), and a query may be answered *)
(* by a server error that leaves the session alive and did nothing.           *)
EXTENDS Naturals, FiniteSets

CONSTANTS
    Instances,      \* application processes, one PgLeaderElector each
    Callers,        \* goroutines calling TryAcquire / Release
    InstanceOf,     \* the instance each caller runs in
    Keys,           \* lock keys, e.g. "schedule:daily-cleanup"
    HashKey,        \* FNV-1a: key -> advisory lock id; may collide
    PoolSize,       \* MaxOpenConns of each instance's pool
    MaxLosses,      \* bound on lost sessions
    MaxErrors,      \* bound on server error replies
    MaxCloses,      \* bound on calls of Close per instance
    None

ASSUME CallersAssumption == /\ InstanceOf \in [Callers -> Instances]
                            /\ IsFiniteSet(Callers)
ASSUME PoolAssumption == PoolSize \in Nat \ {0}
ASSUME BoundsAssumption == MaxLosses \in Nat /\ MaxErrors \in Nat /\ MaxCloses \in Nat

VARIABLES
    locks,      \* [instance][key]: the map of lockEntry, None when absent
    pc,         \* [caller]: where the caller is
    key,        \* [caller]: the key of its current call
    conn,       \* [caller]: the local conn / entry.conn of its current call
    sess,       \* [session]: "idle" in the pool, "used" by a *sql.Conn, "lost"
    held,       \* [session][id]: how often the session holds the advisory lock
    closing,    \* [instance]: <<conn, id>> Close has still to release
    closeAt,    \* [instance]: conn whose row Close left open, None otherwise
    ctxDone,    \* [instance]: the context given to Close has ended
    closes,     \* history: calls of Close on the instance
    losses,     \* history: lost sessions so far
    errors      \* history: server error replies so far

callerVars == <<pc, key, conn>>
closeVars  == <<closing, closeAt, ctxDone, closes>>
faultVars  == <<losses, errors>>
vars == <<locks, callerVars, sess, held, closeVars, faultVars>>

Sessions == Instances \X (1..PoolSize)
Ids      == {HashKey[k] : k \in Keys}
Entry    == [conn : Sessions, refCount : Nat]

ASSUME NoneAssumption == None \notin Sessions /\ None \notin Entry

\* The pool slots of the instance of caller p.
PoolOf(p) == {InstanceOf[p]} \X (1..PoolSize)

Init ==
    /\ locks = [i \in Instances |-> [k \in Keys |-> None]]
    /\ pc = [p \in Callers |-> "idle"]
    /\ key \in [Callers -> Keys]
    /\ conn = [p \in Callers |-> None]
    /\ sess = [s \in Sessions |-> "idle"]
    /\ held = [s \in Sessions |-> [id \in Ids |-> 0]]
    /\ closing = [i \in Instances |-> {}]
    /\ closeAt = [i \in Instances |-> None]
    /\ ctxDone = [i \in Instances |-> FALSE]
    /\ closes = [i \in Instances |-> 0]
    /\ losses = 0
    /\ errors = 0
-----------------------------------------------------------------------------
(* External: one query on a session in use. *)

\* PostgreSQL grants id to session s unless another session holds it.
Free(s, id) == \A t \in Sessions \ {s} : held[t][id] = 0

\* conn.Close gives the connection back; a lost one is replaced when next used.
CloseConn(s) == sess' = [sess EXCEPT ![s] = "idle"]

\* pg_advisory_unlock: one count less, false (ignored by the code) at zero.
AdvisoryUnlock(s, id) ==
    held' = [held EXCEPT ![s][id] = IF @ > 0 THEN @ - 1 ELSE 0]

\* The query on s fails: its session is gone, or the server answers an error.
QueryFails(s) ==
    \/ sess[s] = "lost" /\ UNCHANGED errors
    \/ sess[s] = "used" /\ errors < MaxErrors /\ errors' = errors + 1
-----------------------------------------------------------------------------
(* TryAcquire *)

\* Under e.mu: a key this elector already holds is granted re-entrantly.
TryAcquire(p, k) ==
    LET i == InstanceOf[p] IN
    /\ pc[p] = "idle"
    /\ key' = [key EXCEPT ![p] = k]
    /\ \/ /\ locks[i][k] # None
          /\ locks' = [locks EXCEPT ![i][k].refCount = @ + 1]
          /\ pc' = [pc EXCEPT ![p] = "leader"]
       \/ /\ locks[i][k] = None
          /\ pc' = [pc EXCEPT ![p] = "dial"]
          /\ UNCHANGED locks
    /\ UNCHANGED <<conn, sess, held, closeVars, faultVars>>

\* e.db.Conn(ctx): wait for a connection of the pool.
Dial(p) ==
    /\ pc[p] = "dial"
    /\ \E s \in PoolOf(p) :
          /\ sess[s] = "idle"
          /\ sess' = [sess EXCEPT ![s] = "used"]
          /\ conn' = [conn EXCEPT ![p] = s]
    /\ pc' = [pc EXCEPT ![p] = "query"]
    /\ UNCHANGED <<locks, key, held, closeVars, faultVars>>

\* e.db.Conn fails: the server cannot be reached (counted as a loss).
DialFails(p) ==
    /\ pc[p] = "dial"
    /\ losses < MaxLosses
    /\ losses' = losses + 1
    /\ pc' = [pc EXCEPT ![p] = "idle"]
    /\ UNCHANGED <<locks, key, conn, sess, held, closeVars, errors>>

\* Mutant: the connection is not returned when the lock was not acquired.
LockQuery_KeepsConn(p) ==
    LET s == conn[p]
        id == HashKey[key[p]]
    IN
    /\ pc[p] = "query"
    /\ sess[s] = "used"
    /\ \/ /\ Free(s, id)
          /\ held' = [held EXCEPT ![s][id] = @ + 1]
          /\ pc' = [pc EXCEPT ![p] = "store"]
          /\ UNCHANGED conn
       \/ /\ ~Free(s, id)
          /\ pc' = [pc EXCEPT ![p] = "idle"]
          /\ conn' = [conn EXCEPT ![p] = None]
          /\ UNCHANGED held
    /\ UNCHANGED <<locks, key, sess, closeVars, faultVars>>

\* SELECT pg_try_advisory_lock answers.
LockQuery(p) ==
    LET s == conn[p]
        id == HashKey[key[p]]
    IN
    /\ pc[p] = "query"
    /\ sess[s] = "used"
    /\ \/ /\ Free(s, id)
          /\ held' = [held EXCEPT ![s][id] = @ + 1]
          /\ pc' = [pc EXCEPT ![p] = "store"]
          /\ UNCHANGED <<conn, sess>>
       \/ /\ ~Free(s, id)
          /\ CloseConn(s)
          /\ pc' = [pc EXCEPT ![p] = "idle"]
          /\ conn' = [conn EXCEPT ![p] = None]
          /\ UNCHANGED held
    /\ UNCHANGED <<locks, key, closeVars, faultVars>>

\* Mutant: the error path of the lock query does not return.
LockQueryFails_FallsThrough(p) ==
    /\ pc[p] = "query"
    /\ QueryFails(conn[p])
    /\ CloseConn(conn[p])
    /\ pc' = [pc EXCEPT ![p] = "store"]
    /\ conn' = [conn EXCEPT ![p] = None]
    /\ UNCHANGED <<locks, key, held, closeVars, losses>>

LockQueryFails(p) ==
    /\ pc[p] = "query"
    /\ QueryFails(conn[p])
    /\ CloseConn(conn[p])
    /\ pc' = [pc EXCEPT ![p] = "idle"]
    /\ conn' = [conn EXCEPT ![p] = None]
    /\ UNCHANGED <<locks, key, held, closeVars, losses>>

\* Under e.mu again: remember the lock, overwriting what the map may hold.
Store(p) ==
    /\ pc[p] = "store"
    /\ locks' = [locks EXCEPT ![InstanceOf[p]][key[p]] =
                                [conn |-> conn[p], refCount |-> 1]]
    /\ pc' = [pc EXCEPT ![p] = "leader"]
    /\ conn' = [conn EXCEPT ![p] = None]
    /\ UNCHANGED <<key, sess, held, closeVars, faultVars>>
-----------------------------------------------------------------------------
(* Release *)

\* Mutant: the first Release unlocks whatever the reference count.
Release_IgnoresRefCount(p) ==
    LET i == InstanceOf[p]
        k == key[p]
    IN
    /\ pc[p] = "leader"
    /\ \/ /\ locks[i][k] = None
          /\ pc' = [pc EXCEPT ![p] = "idle"]
          /\ UNCHANGED <<locks, conn>>
       \/ /\ locks[i][k] # None
          /\ locks' = [locks EXCEPT ![i][k] = None]
          /\ conn' = [conn EXCEPT ![p] = locks[i][k].conn]
          /\ pc' = [pc EXCEPT ![p] = "unlock"]
    /\ UNCHANGED <<key, sess, held, closeVars, faultVars>>

\* Under e.mu: drop one reference; the last one takes the entry out of the map.
Release(p) ==
    LET i == InstanceOf[p]
        k == key[p]
    IN
    /\ pc[p] = "leader"
    /\ \/ /\ locks[i][k] = None
          /\ pc' = [pc EXCEPT ![p] = "idle"]
          /\ UNCHANGED <<locks, conn>>
       \/ /\ locks[i][k] # None
          /\ locks[i][k].refCount > 1
          /\ locks' = [locks EXCEPT ![i][k].refCount = @ - 1]
          /\ pc' = [pc EXCEPT ![p] = "idle"]
          /\ UNCHANGED conn
       \/ /\ locks[i][k] # None
          /\ locks[i][k].refCount <= 1
          /\ locks' = [locks EXCEPT ![i][k] = None]
          /\ conn' = [conn EXCEPT ![p] = locks[i][k].conn]
          /\ pc' = [pc EXCEPT ![p] = "unlock"]
    /\ UNCHANGED <<key, sess, held, closeVars, faultVars>>

\* SELECT pg_advisory_unlock, then entry.conn.Close whatever the answer.
Unlock(p) ==
    /\ pc[p] = "unlock"
    /\ \/ /\ sess[conn[p]] = "used"
          /\ AdvisoryUnlock(conn[p], HashKey[key[p]])
          /\ UNCHANGED errors
       \/ /\ QueryFails(conn[p])
          /\ UNCHANGED held
    /\ CloseConn(conn[p])
    /\ pc' = [pc EXCEPT ![p] = "idle"]
    /\ conn' = [conn EXCEPT ![p] = None]
    /\ UNCHANGED <<locks, key, closeVars, losses>>
-----------------------------------------------------------------------------
(* Close *)

\* Mutant: Close walks through the map and leaves it in place.
CloseSwap_KeepsMap(i) ==
    /\ closes[i] < MaxCloses
    /\ closing[i] = {} /\ closeAt[i] = None
    /\ closing' = [closing EXCEPT ![i] =
          {<<locks[i][k].conn, HashKey[k]>> : k \in {x \in Keys : locks[i][x] # None}}]
    /\ ctxDone' = [ctxDone EXCEPT ![i] = FALSE]
    /\ closes' = [closes EXCEPT ![i] = @ + 1]
    /\ UNCHANGED <<locks, callerVars, sess, held, closeAt, faultVars>>

\* Under e.mu: take over the whole map.
CloseSwap(i) ==
    /\ closes[i] < MaxCloses
    /\ closing[i] = {} /\ closeAt[i] = None
    /\ closing' = [closing EXCEPT ![i] =
          {<<locks[i][k].conn, HashKey[k]>> : k \in {x \in Keys : locks[i][x] # None}}]
    /\ locks' = [locks EXCEPT ![i] = [k \in Keys |-> None]]
    /\ ctxDone' = [ctxDone EXCEPT ![i] = FALSE]
    /\ closes' = [closes EXCEPT ![i] = @ + 1]
    /\ UNCHANGED <<callerVars, sess, held, closeAt, faultVars>>

\* One turn of the loop.  QueryRowContext(...).Err() leaves the row open, and
\* conn.Close waits for an open row (closeAt) until ctx ends; a query made
\* after ctx ended fails without reaching the server.
CloseUnlock(i) ==
    /\ closeAt[i] = None
    /\ \E e \in closing[i] :
          /\ closing' = [closing EXCEPT ![i] = @ \ {e}]
          /\ \/ /\ ~ctxDone[i] /\ sess[e[1]] = "used"
                /\ AdvisoryUnlock(e[1], e[2])
                /\ closeAt' = [closeAt EXCEPT ![i] = e[1]]
                /\ UNCHANGED <<sess, errors>>
             \/ /\ \/ ctxDone[i] /\ UNCHANGED errors
                   \/ ~ctxDone[i] /\ QueryFails(e[1])
                /\ CloseConn(e[1])
                /\ UNCHANGED <<held, closeAt>>
    /\ UNCHANGED <<locks, callerVars, ctxDone, closes, losses>>

\* The open row is closed when ctx ends; entry.conn.Close returns.
CloseReturnConn(i) ==
    /\ closeAt[i] # None
    /\ ctxDone[i]
    /\ CloseConn(closeAt[i])
    /\ closeAt' = [closeAt EXCEPT ![i] = None]
    /\ UNCHANGED <<locks, callerVars, held, closing, ctxDone, closes, faultVars>>

\* The timeout of the context given to Close.
CloseCtxDone(i) ==
    /\ closing[i] # {} \/ closeAt[i] # None
    /\ ~ctxDone[i]
    /\ ctxDone' = [ctxDone EXCEPT ![i] = TRUE]
    /\ UNCHANGED <<locks, callerVars, sess, held, closing, closeAt, closes, faultVars>>
-----------------------------------------------------------------------------
(* External: the session of s ends, PostgreSQL drops its locks; a *sql.Conn   *)
(* learns of it at its next query, the pool replaces an idle connection.      *)
SessionLost(s) ==
    /\ losses < MaxLosses
    /\ sess[s] # "lost"
    /\ losses' = losses + 1
    /\ held' = [held EXCEPT ![s] = [id \in Ids |-> 0]]
    /\ sess' = [sess EXCEPT ![s] = IF @ = "used" THEN "lost" ELSE "idle"]
    /\ UNCHANGED <<locks, callerVars, closeVars, errors>>
-----------------------------------------------------------------------------
CallerStep(p) ==
    \/ \E k \in Keys : TryAcquire(p, k)
    \/ Dial(p) \/ DialFails(p)
    \/ LockQuery(p) \/ LockQueryFails(p)
    \/ Store(p)
    \/ Release(p)
    \/ Unlock(p)

CloseStep(i) ==
    \/ CloseSwap(i)
    \/ CloseUnlock(i)
    \/ CloseReturnConn(i)
    \/ CloseCtxDone(i)

Next ==
    \/ \E p \in Callers : CallerStep(p)
    \/ \E i \in Instances : CloseStep(i)
    \/ \E s \in Sessions : SessionLost(s)

Spec == Init /\ [][Next]_vars
-----------------------------------------------------------------------------
(* Properties *)

\* Callers that own the connection in their local variable.
Owning == {p \in Callers : pc[p] \in {"query", "store", "unlock"}}

TypeOK ==
    /\ locks \in [Instances -> [Keys -> Entry \cup {None}]]
    /\ pc \in [Callers -> {"idle", "dial", "query", "store", "leader", "unlock"}]
    /\ key \in [Callers -> Keys]
    /\ conn \in [Callers -> Sessions \cup {None}]
    /\ sess \in [Sessions -> {"idle", "used", "lost"}]
    /\ held \in [Sessions -> [Ids -> Nat]]
    /\ closing \in [Instances -> SUBSET (Sessions \X Ids)]
    /\ closeAt \in [Instances -> Sessions \cup {None}]
    /\ ctxDone \in [Instances -> BOOLEAN]
    /\ closes \in [Instances -> Nat]
    /\ losses \in Nat
    /\ errors \in Nat

\* Connections of running calls have no other owner and are not in the pool.
CallConns ==
    /\ \A p \in Owning : conn[p] \in PoolOf(p) /\ sess[conn[p]] # "idle"
    /\ \A p, q \in Owning : conn[p] = conn[q] => p = q

\* Neither have those of map entries ...
EntryConns ==
    /\ \A i \in Instances, k \in Keys : locks[i][k] # None =>
          /\ locks[i][k].conn \in {i} \X (1..PoolSize)
          /\ sess[locks[i][k].conn] # "idle"
          /\ \A p \in Owning : conn[p] # locks[i][k].conn
    /\ \A i, j \in Instances, k, m \in Keys :
          locks[i][k] # None /\ locks[j][m] # None /\ locks[i][k].conn = locks[j][m].conn
          => i = j /\ k = m

\* ... those that Close took over ...
ClosingConns ==
    \A i \in Instances : \A e \in closing[i] :
       /\ e[1] \in {i} \X (1..PoolSize)
       /\ sess[e[1]] # "idle"
       /\ \A p \in Owning : conn[p] # e[1]
       /\ \A j \in Instances, k \in Keys : locks[j][k] # None => locks[j][k].conn # e[1]
       /\ \A f \in closing[i] : f[1] = e[1] => f = e

\* ... and the one whose row it left open.
RowConns ==
    \A i \in Instances : closeAt[i] # None =>
       /\ closeAt[i] \in {i} \X (1..PoolSize)
       /\ sess[closeAt[i]] # "idle"
       /\ \A p \in Owning : conn[p] # closeAt[i]
       /\ \A j \in Instances, k \in Keys : locks[j][k] # None => locks[j][k].conn # closeAt[i]
       /\ \A e \in closing[i] : e[1] # closeAt[i]

\* A session advisory lock is worth something only if its connection is
\* dedicated: every connection has at most one owner among the running calls,
\* the map entries and Close, and while it has one it is not in the pool, under
\* any interleaving and any fault, also when Close takes the map over between
\* the query and the store of a TryAcquire (pg_leader.go:65-79, 118-131).
DedicatedConn == CallConns /\ EntryConns /\ ClosingConns /\ RowConns

\* Leader election: while no session was lost, and neither elector was closed,
\* two calls that hold the same advisory lock id are re-entrant calls of one
\* instance for one key.  Concurrent Release and TryAcquire of the same key,
\* server errors and Close of other instances do not break it.
MutualExclusion ==
    losses = 0 =>
        \A p, q \in Callers :
            /\ pc[p] = "leader" /\ pc[q] = "leader"
            /\ HashKey[key[p]] = HashKey[key[q]]
            /\ closes[InstanceOf[p]] = 0 /\ closes[InstanceOf[q]] = 0
            => InstanceOf[p] = InstanceOf[q] /\ key[p] = key[q]

\* When every call of an instance has returned and was released, every
\* connection of its pool is back and no advisory lock is left behind, except
\* one count per unlock query the server refused.
ReleasedWhenQuiet ==
    \A i \in Instances :
        /\ losses = 0
        /\ \A p \in Callers : InstanceOf[p] = i => pc[p] = "idle"
        /\ closes[i] = 0
        => \A s \in {i} \X (1..PoolSize) :
              /\ sess[s] = "idle"
              /\ \A id \in Ids : held[s][id] <= errors
=============================================================================
