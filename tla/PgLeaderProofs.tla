--------------------------- MODULE PgLeaderProofs ---------------------------
(* Mutual exclusion of PgLeader for every number of instances, callers, keys  *)
(* (colliding or not), pool size and faults.                                  *)
EXTENDS PgLeader, FiniteSetTheorems, TLAPS

\* PostgreSQL grants an advisory lock id to one session at a time.
OneHolder ==
    \A s, t \in Sessions, id \in Ids : held[s][id] > 0 /\ held[t][id] > 0 => s = t

\* A call that was granted the lock, and a map entry, hold it as long as their
\* session lives.
LiveHolds ==
    /\ \A p \in Callers : pc[p] = "store" /\ sess[conn[p]] = "used"
          => held[conn[p]][HashKey[key[p]]] > 0
    /\ \A i \in Instances, k \in Keys :
          locks[i][k] # None /\ sess[locks[i][k].conn] = "used"
          => held[locks[i][k].conn][HashKey[k]] > 0

NoLoss == losses = 0 => \A s \in Sessions : sess[s] # "lost"

Leaders(i, k) == {p \in Callers : InstanceOf[p] = i /\ pc[p] = "leader" /\ key[p] = k}

\* Without losses, the reference count of an elector that was not closed is the
\* number of calls that lead.
RefCount ==
    losses = 0 =>
       \A i \in Instances, k \in Keys : closes[i] = 0 =>
          IF locks[i][k] = None THEN Leaders(i, k) = {}
                                ELSE locks[i][k].refCount = Cardinality(Leaders(i, k))

IInv == TypeOK /\ OneHolder /\ DedicatedConn /\ LiveHolds /\ NoLoss /\ RefCount
-----------------------------------------------------------------------------
\* The type invariant holds initially.
LEMMA InitType == Init => TypeOK
BY DEF Init, TypeOK, Entry

\* The ways the steps change the map, the lock counts and the pool keep types.
LEMMA RefCountType ==
    ASSUME TypeOK, NEW i \in Instances, NEW k \in Keys, locks[i][k] # None,
           NEW n \in Nat,
           locks' = [locks EXCEPT ![i][k].refCount = n]
    PROVE  locks' \in [Instances -> [Keys -> Entry \cup {None}]]
<1>1. locks[i][k] \in Entry
  BY DEF TypeOK
<1>2. [locks[i][k] EXCEPT !.refCount = n] \in Entry
  BY <1>1 DEF Entry
<1> QED
  BY <1>1, <1>2, Zenon DEF TypeOK

\* Writing one entry of the map keeps its type.
LEMMA EntryType ==
    ASSUME TypeOK, NEW i \in Instances, NEW k \in Keys, NEW e \in Entry \cup {None},
           locks' = [locks EXCEPT ![i][k] = e]
    PROVE  locks' \in [Instances -> [Keys -> Entry \cup {None}]]
BY Zenon DEF TypeOK

\* Changing one lock count keeps the type of the counts.
LEMMA HeldType ==
    ASSUME TypeOK, NEW s, NEW id, NEW n \in Nat,
           held' = [held EXCEPT ![s][id] = n]
    PROVE  held' \in [Sessions -> [Ids -> Nat]]
BY DEF TypeOK

\* pg_advisory_unlock changes one count, and never raises it.
LEMMA AdvisoryUnlockEffect ==
    ASSUME TypeOK, NEW s \in Sessions, NEW id \in Ids, AdvisoryUnlock(s, id)
    PROVE  /\ held' \in [Sessions -> [Ids -> Nat]]
           /\ \A t \in Sessions, j \in Ids : held'[t][j] > 0 => held[t][j] > 0
           /\ \A t \in Sessions, j \in Ids : t # s => held'[t][j] = held[t][j]
<1> DEFINE n == IF held[s][id] > 0 THEN held[s][id] - 1 ELSE 0
<1>1. n \in Nat /\ (n > 0 => held[s][id] > 0)
  BY DEF TypeOK
<1>2. held' = [held EXCEPT ![s][id] = n]
  BY DEF AdvisoryUnlock
<1> HIDE DEF n
<1>3. held' \in [Sessions -> [Ids -> Nat]]
  BY <1>1, <1>2, HeldType
<1> QED
  BY <1>1, <1>2, <1>3 DEF TypeOK

\* Every key has a lock id.
LEMMA KeyId == \A k \in Keys : HashKey[k] \in Ids
BY DEF Ids

\* Every step of a caller keeps the type invariant.
LEMMA CallerType ==
    ASSUME TypeOK, CallConns, NEW p \in Callers, CallerStep(p)
    PROVE  TypeOK'
<1> DEFINE i == InstanceOf[p]
<1>0. /\ i \in Instances /\ key[p] \in Keys /\ HashKey[key[p]] \in Ids
      /\ pc[p] \in {"query", "store", "unlock"} => conn[p] \in Sessions
  BY CallersAssumption, KeyId DEF TypeOK, CallConns, Owning, PoolOf, Sessions
<1>1. ASSUME NEW k \in Keys, TryAcquire(p, k) PROVE TypeOK'
  <2>1. CASE locks[i][k] # None
    <3>1. locks[i][k].refCount + 1 \in Nat
      BY <1>0, <2>1 DEF TypeOK, Entry
    <3>2. locks' \in [Instances -> [Keys -> Entry \cup {None}]]
      BY <1>0, <1>1, <2>1, <3>1, RefCountType DEF TryAcquire
    <3> QED
      BY <1>1, <2>1, <3>2 DEF TypeOK, TryAcquire, closeVars, faultVars
  <2>2. CASE locks[i][k] = None
    BY <1>1, <2>2 DEF TypeOK, TryAcquire, closeVars, faultVars
  <2> QED
    BY <2>1, <2>2
<1>2. CASE Dial(p)
  BY <1>0, <1>2 DEF Dial, PoolOf, Sessions, TypeOK, closeVars, faultVars
<1>3. CASE DialFails(p)
  BY <1>3 DEF DialFails, TypeOK, closeVars
<1>4. CASE LockQuery(p)
  <2>1. held' \in [Sessions -> [Ids -> Nat]]
    BY <1>0, <1>4 DEF LockQuery, TypeOK
  <2>2. sess' \in [Sessions -> {"idle", "used", "lost"}]
    BY <1>4 DEF LockQuery, CloseConn, TypeOK
  <2>3. /\ pc' \in [Callers -> {"idle", "dial", "query", "store", "leader", "unlock"}]
        /\ conn' \in [Callers -> Sessions \cup {None}]
    BY <1>4 DEF LockQuery, TypeOK
  <2> QED
    BY <1>4, <2>1, <2>2, <2>3 DEF LockQuery, TypeOK, closeVars, faultVars
<1>5. CASE LockQueryFails(p)
  <2>1. sess' \in [Sessions -> {"idle", "used", "lost"}]
    BY <1>5 DEF LockQueryFails, CloseConn, TypeOK
  <2>2. errors' \in Nat
    BY <1>5 DEF LockQueryFails, QueryFails, TypeOK
  <2> QED
    BY <1>5, <2>1, <2>2 DEF LockQueryFails, TypeOK, closeVars
<1>6. CASE Store(p)
  <2>1. [conn |-> conn[p], refCount |-> 1] \in Entry
    BY <1>0, <1>6 DEF Entry, Store
  <2>2. locks' \in [Instances -> [Keys -> Entry \cup {None}]]
    BY <1>0, <1>6, <2>1, EntryType DEF Store
  <2> QED
    BY <1>6, <2>2 DEF Store, TypeOK, closeVars, faultVars
<1>7. CASE Release(p)
  <2> DEFINE e == locks[i][key[p]]
  <2>1. e # None => e.conn \in Sessions /\ e.refCount \in Nat
    BY <1>0 DEF TypeOK, Entry
  <2>2. locks' \in [Instances -> [Keys -> Entry \cup {None}]]
    <3>1. CASE e # None /\ e.refCount > 1
      <4>1. e.refCount - 1 \in Nat
        BY <2>1, <3>1
      <4>2. locks' = [locks EXCEPT ![i][key[p]].refCount = e.refCount - 1]
        BY <1>7, <2>1, <3>1 DEF Release
      <4> QED
        BY <1>0, <3>1, <4>1, <4>2, RefCountType
    <3>2. CASE e # None /\ e.refCount <= 1
      <4>1. locks' = [locks EXCEPT ![i][key[p]] = None]
        BY <1>7, <2>1, <3>2 DEF Release
      <4> QED
        BY <1>0, <4>1, EntryType
    <3>3. CASE e = None
      BY <1>7, <3>3 DEF Release, TypeOK
    <3> QED
      BY <2>1, <3>1, <3>2, <3>3
  <2>3. /\ pc' \in [Callers -> {"idle", "dial", "query", "store", "leader", "unlock"}]
        /\ conn' \in [Callers -> Sessions \cup {None}]
    BY <1>7, <2>1 DEF Release, TypeOK
  <2> QED
    BY <1>7, <2>2, <2>3 DEF Release, TypeOK, closeVars, faultVars
<1>8. CASE Unlock(p)
  <2>1. held' \in [Sessions -> [Ids -> Nat]]
    BY <1>0, <1>8, AdvisoryUnlockEffect DEF Unlock, TypeOK
  <2>2. sess' \in [Sessions -> {"idle", "used", "lost"}]
    BY <1>8 DEF Unlock, CloseConn, TypeOK
  <2>3. errors' \in Nat
    BY <1>8 DEF Unlock, QueryFails, TypeOK
  <2> QED
    BY <1>8, <2>1, <2>2, <2>3 DEF Unlock, TypeOK, closeVars
<1> QED
  BY <1>1, <1>2, <1>3, <1>4, <1>5, <1>6, <1>7, <1>8 DEF CallerStep

\* Every step of Close keeps the type invariant.
LEMMA CloseType ==
    ASSUME TypeOK, ClosingConns, NEW i \in Instances, CloseStep(i)
    PROVE  TypeOK'
<1>1. CASE CloseSwap(i)
  <2>1. \A k \in Keys : locks[i][k] # None =>
           <<locks[i][k].conn, HashKey[k]>> \in Sessions \X Ids
    BY KeyId DEF TypeOK, Entry
  <2> DEFINE taken == {<<locks[i][k].conn, HashKey[k]>> : k \in {x \in Keys : locks[i][x] # None}}
  <2>2. closing' \in [Instances -> SUBSET (Sessions \X Ids)]
    <3>1. taken \in SUBSET (Sessions \X Ids)
      BY <2>1
    <3>2. closing' = [closing EXCEPT ![i] = taken]
      BY <1>1 DEF CloseSwap
    <3> HIDE DEF taken
    <3> QED
      BY <3>1, <3>2 DEF TypeOK
  <2>3. locks' \in [Instances -> [Keys -> Entry \cup {None}]]
    BY <1>1 DEF CloseSwap, TypeOK
  <2> QED
    BY <1>1, <2>2, <2>3 DEF CloseSwap, TypeOK, callerVars, faultVars
<1>2. CASE CloseUnlock(i)
  <2>1. PICK e \in closing[i] :
           /\ closing' = [closing EXCEPT ![i] = @ \ {e}]
           /\ \/ /\ ~ctxDone[i] /\ sess[e[1]] = "used"
                 /\ AdvisoryUnlock(e[1], e[2])
                 /\ closeAt' = [closeAt EXCEPT ![i] = e[1]]
                 /\ UNCHANGED <<sess, errors>>
              \/ /\ \/ ctxDone[i] /\ UNCHANGED errors
                    \/ ~ctxDone[i] /\ QueryFails(e[1])
                 /\ CloseConn(e[1])
                 /\ UNCHANGED <<held, closeAt>>
    BY <1>2 DEF CloseUnlock
  <2>2. e[1] \in Sessions /\ e[2] \in Ids
    BY DEF TypeOK
  <2>3. held' \in [Sessions -> [Ids -> Nat]]
    BY <2>1, <2>2, AdvisoryUnlockEffect DEF TypeOK
  <2>4. sess' \in [Sessions -> {"idle", "used", "lost"}]
    BY <2>1 DEF CloseConn, TypeOK
  <2>5. errors' \in Nat
    BY <2>1 DEF QueryFails, TypeOK
  <2>6. /\ closing' \in [Instances -> SUBSET (Sessions \X Ids)]
        /\ closeAt' \in [Instances -> Sessions \cup {None}]
    BY <2>1, <2>2 DEF TypeOK
  <2> QED
    BY <1>2, <2>3, <2>4, <2>5, <2>6 DEF CloseUnlock, TypeOK, callerVars
<1>3. CASE CloseReturnConn(i)
  BY <1>3 DEF CloseReturnConn, CloseConn, TypeOK, callerVars, faultVars
<1>4. CASE CloseCtxDone(i)
  BY <1>4 DEF CloseCtxDone, TypeOK, callerVars, faultVars
<1> QED
  BY <1>1, <1>2, <1>3, <1>4 DEF CloseStep

\* So does the loss of a session.
LEMMA LostType ==
    ASSUME TypeOK, NEW s \in Sessions, SessionLost(s)
    PROVE  TypeOK'
BY DEF SessionLost, TypeOK, callerVars, closeVars
-----------------------------------------------------------------------------
\* One session per advisory lock id, whatever the step.
LEMMA OneHolderStep ==
    ASSUME TypeOK, CallConns, OneHolder, [Next]_vars
    PROVE  OneHolder'
<1>0. ASSUME NEW s \in Sessions, NEW id \in Ids, AdvisoryUnlock(s, id)
      PROVE  OneHolder'
  BY <1>0, AdvisoryUnlockEffect DEF OneHolder
<1>1. ASSUME NEW p \in Callers, CallerStep(p)
      PROVE  OneHolder'
  <2>0. /\ key[p] \in Keys /\ HashKey[key[p]] \in Ids
        /\ pc[p] \in {"query", "store", "unlock"} => conn[p] \in Sessions
    BY CallersAssumption, KeyId DEF TypeOK, CallConns, Owning, PoolOf, Sessions
  <2>1. CASE LockQuery(p)
    <3>1. CASE UNCHANGED held
      BY <3>1 DEF OneHolder
    <3>2. CASE ~UNCHANGED held
      <4> DEFINE s == conn[p]
                 id == HashKey[key[p]]
      <4>1. s \in Sessions /\ id \in Ids /\ Free(s, id) /\ held' = [held EXCEPT ![s][id] = @ + 1]
        BY <2>0, <2>1, <3>2 DEF LockQuery
      <4>2. \A t \in Sessions, j \in Ids : held'[t][j] > 0 => held[t][j] > 0 \/ (t = s /\ j = id)
        BY <4>1 DEF TypeOK
      <4>3. \A t \in Sessions \ {s} : ~(held[t][id] > 0)
        BY <4>1 DEF Free
      <4> QED
        BY <4>2, <4>3 DEF OneHolder
    <3> QED
      BY <3>1, <3>2
  <2>2. CASE Unlock(p)
    BY <1>0, <2>0, <2>2 DEF Unlock, OneHolder
  <2>3. CASE UNCHANGED held
    BY <2>3 DEF OneHolder
  <2> QED
    BY <1>1, <2>1, <2>2, <2>3
    DEF CallerStep, TryAcquire, Dial, DialFails, LockQueryFails, Store, Release
<1>2. ASSUME NEW i \in Instances, CloseStep(i)
      PROVE  OneHolder'
  <2>1. CASE CloseUnlock(i)
    <3>1. \A e \in closing[i] : e[1] \in Sessions /\ e[2] \in Ids
      BY DEF TypeOK
    <3> QED
      BY <1>0, <2>1, <3>1 DEF CloseUnlock, OneHolder
  <2>2. CASE UNCHANGED held
    BY <2>2 DEF OneHolder
  <2> QED
    BY <1>2, <2>1, <2>2 DEF CloseStep, CloseSwap, CloseReturnConn, CloseCtxDone
<1>3. ASSUME NEW s \in Sessions, SessionLost(s)
      PROVE  OneHolder'
  BY <1>3 DEF SessionLost, OneHolder, TypeOK
<1>4. CASE UNCHANGED vars
  BY <1>4 DEF vars, OneHolder
<1> QED
  BY <1>1, <1>2, <1>3, <1>4 DEF Next
-----------------------------------------------------------------------------
\* A step that adds no owner and returns to the pool only connections without
\* an owner keeps connections dedicated.
LEMMA DedicatedFrame ==
    ASSUME DedicatedConn, Owning' \subseteq Owning,
           \A p \in Owning' : conn'[p] = conn[p],
           \A j \in Instances, m \in Keys : locks'[j][m] # None =>
              locks[j][m] # None /\ locks'[j][m].conn = locks[j][m].conn,
           \A j \in Instances : closing'[j] \subseteq closing[j],
           \A j \in Instances : closeAt'[j] # None => closeAt'[j] = closeAt[j],
           \A p \in Owning' : sess'[conn[p]] # "idle",
           \A j \in Instances, m \in Keys :
              locks'[j][m] # None => sess'[locks[j][m].conn] # "idle",
           \A j \in Instances : \A e \in closing'[j] : sess'[e[1]] # "idle",
           \A j \in Instances : closeAt'[j] # None => sess'[closeAt[j]] # "idle"
    PROVE  DedicatedConn'
<1>1. CallConns'
  BY DEF DedicatedConn, CallConns, PoolOf
<1>2. EntryConns'
  BY DEF DedicatedConn, EntryConns
<1>3. ClosingConns'
  BY DEF DedicatedConn, ClosingConns
<1>4. RowConns'
  BY DEF DedicatedConn, RowConns
<1> QED
  BY <1>1, <1>2, <1>3, <1>4 DEF DedicatedConn

\* Connections stay dedicated: the steps of a caller.
LEMMA CallerDedicated ==
    ASSUME TypeOK, DedicatedConn, NEW p \in Callers, CallerStep(p)
    PROVE  DedicatedConn'
<1> DEFINE i == InstanceOf[p]
<1>0. /\ i \in Instances /\ key[p] \in Keys
      /\ pc[p] \in {"query", "store", "unlock"} => conn[p] \in Sessions /\ p \in Owning
  BY CallersAssumption DEF TypeOK, DedicatedConn, CallConns, Owning, PoolOf, Sessions
\* The connection of a call that ends goes back to the pool.
<1>a. ASSUME p \in Owning,
             pc' = [pc EXCEPT ![p] = "idle"], conn' = [conn EXCEPT ![p] = None],
             CloseConn(conn[p]), UNCHANGED <<locks, closing, closeAt>>
      PROVE  DedicatedConn'
  <2>1. Owning' \subseteq Owning \ {p} /\ \A q \in Owning' : conn'[q] = conn[q]
    BY <1>a DEF Owning, TypeOK
  <2>2. \A t \in Sessions : t # conn[p] => sess'[t] = sess[t]
    BY <1>a DEF CloseConn, TypeOK
  <2>3. \A q \in Owning' : conn[q] \in Sessions /\ conn[q] # conn[p] /\ sess[conn[q]] # "idle"
    BY <1>a, <2>1, CallersAssumption DEF DedicatedConn, CallConns, PoolOf, Sessions, Owning
  <2>4. \A j \in Instances, m \in Keys : locks'[j][m] # None =>
           /\ locks'[j][m] = locks[j][m] /\ locks[j][m].conn \in Sessions
           /\ locks[j][m].conn # conn[p] /\ sess[locks[j][m].conn] # "idle"
    BY <1>a DEF DedicatedConn, EntryConns, Sessions
  <2>5. \A j \in Instances : \A e \in closing'[j] :
           e[1] \in Sessions /\ e[1] # conn[p] /\ sess[e[1]] # "idle"
    BY <1>a DEF DedicatedConn, ClosingConns, Sessions
  <2>6. \A j \in Instances : closeAt'[j] # None =>
           closeAt[j] \in Sessions /\ closeAt[j] # conn[p] /\ sess[closeAt[j]] # "idle"
    BY <1>a DEF DedicatedConn, RowConns, Sessions
  <2> QED
    BY <1>a, <2>1, <2>2, <2>3, <2>4, <2>5, <2>6, DedicatedFrame
\* A step that changes neither connections nor owners.
<1>b. ASSUME Owning' = Owning, UNCHANGED <<conn, sess, closing, closeAt>>,
             \A j \in Instances, m \in Keys : locks'[j][m] # None =>
                locks[j][m] # None /\ locks'[j][m].conn = locks[j][m].conn
      PROVE  DedicatedConn'
  BY <1>b, DedicatedFrame DEF DedicatedConn, CallConns, EntryConns, ClosingConns, RowConns
<1>1. ASSUME NEW k \in Keys, TryAcquire(p, k) PROVE DedicatedConn'
  <2>1. Owning' = Owning
    BY <1>1 DEF TryAcquire, Owning, TypeOK
  <2>2. \A j \in Instances, m \in Keys : locks'[j][m] # None =>
           locks[j][m] # None /\ locks'[j][m].conn = locks[j][m].conn
    <3>1. CASE locks[i][k] = None
      BY <1>1, <3>1 DEF TryAcquire
    <3>2. CASE locks[i][k] # None
      <4>1. locks' = [locks EXCEPT ![i][k].refCount = @ + 1]
        BY <1>1, <3>2 DEF TryAcquire
      <4>2. locks[i][k] \in Entry
        BY <1>0, <3>2 DEF TypeOK
      <4>3. locks'[i][k].conn = locks[i][k].conn
        BY <1>0, <4>1, <4>2 DEF TypeOK, Entry
      <4>4. \A j \in Instances, m \in Keys : j # i \/ m # k => locks'[j][m] = locks[j][m]
        BY <1>0, <4>1 DEF TypeOK
      <4> QED
        BY <3>2, <4>3, <4>4
    <3> QED
      BY <3>1, <3>2
  <2> QED
    BY <1>1, <1>b, <2>1, <2>2 DEF TryAcquire, closeVars
<1>3. CASE DialFails(p)
  <2>1. Owning' = Owning
    BY <1>3 DEF DialFails, Owning, TypeOK
  <2> QED
    BY <1>3, <1>b, <2>1 DEF DialFails, closeVars
<1>5. CASE LockQueryFails(p)
  BY <1>0, <1>a, <1>5 DEF LockQueryFails, closeVars
<1>8. CASE Unlock(p)
  BY <1>0, <1>a, <1>8 DEF Unlock, closeVars
<1>4. CASE LockQuery(p)
  <2>1. CASE pc'[p] = "store"
    <3>1. Owning' = Owning
      BY <1>4, <2>1 DEF LockQuery, Owning, TypeOK
    <3> QED
      BY <1>4, <1>b, <2>1, <3>1 DEF LockQuery, closeVars, TypeOK
  <2>2. CASE pc'[p] # "store"
    BY <1>0, <1>a, <1>4, <2>2 DEF LockQuery, closeVars, TypeOK
  <2> QED
    BY <2>1, <2>2
<1>2. CASE Dial(p)
  <2>1. PICK s \in PoolOf(p) : /\ sess[s] = "idle"
                               /\ sess' = [sess EXCEPT ![s] = "used"]
                               /\ conn' = [conn EXCEPT ![p] = s]
    BY <1>2 DEF Dial
  <2>2. s \in Sessions
    BY <1>0 DEF PoolOf, Sessions
  <2>3. Owning' = Owning \cup {p} /\ p \notin Owning /\ conn'[p] = s
    BY <1>2, <2>1 DEF Dial, Owning, TypeOK
  <2>4. \A q \in Owning : conn'[q] = conn[q]
    BY <2>1, <2>3 DEF TypeOK, Owning
  <2>5. \A t : sess'[t] = "idle" => sess[t] = "idle" \/ t \notin Sessions
    BY <2>1 DEF TypeOK
  <2>6. sess'[s] = "used"
    BY <2>1, <2>2 DEF TypeOK
  <2>7. UNCHANGED <<locks, closing, closeAt>>
    BY <1>2 DEF Dial, closeVars
  <2>8. /\ \A q \in Owning : conn[q] \in Sessions /\ conn[q] # s
        /\ \A j \in Instances, k \in Keys : locks[j][k] # None =>
              locks[j][k].conn \in Sessions /\ locks[j][k].conn # s
        /\ \A j \in Instances : \A e \in closing[j] : e[1] \in Sessions /\ e[1] # s
        /\ \A j \in Instances : closeAt[j] # None => closeAt[j] \in Sessions /\ closeAt[j] # s
    BY <2>1, CallersAssumption
    DEF DedicatedConn, CallConns, EntryConns, ClosingConns, RowConns, PoolOf, Sessions, Owning
  <2>9. CallConns'
    BY <2>1, <2>3, <2>4, <2>5, <2>6, <2>8 DEF DedicatedConn, CallConns, PoolOf
  <2>10. EntryConns'
    BY <2>3, <2>4, <2>5, <2>7, <2>8 DEF DedicatedConn, EntryConns
  <2>11. ClosingConns'
    BY <2>3, <2>4, <2>5, <2>7, <2>8 DEF DedicatedConn, ClosingConns
  <2>12. RowConns'
    BY <2>3, <2>4, <2>5, <2>7, <2>8 DEF DedicatedConn, RowConns
  <2> QED
    BY <2>9, <2>10, <2>11, <2>12 DEF DedicatedConn
<1>6. CASE Store(p)
  <2>1. Owning' = Owning \ {p} /\ p \in Owning
    BY <1>0, <1>6 DEF Store, Owning, TypeOK
  <2>2. \A q \in Owning' : conn'[q] = conn[q] /\ conn[q] # conn[p]
    BY <1>6, <2>1 DEF Store, Owning, TypeOK, DedicatedConn, CallConns
  <2>3. /\ locks'[i][key[p]] # None => locks'[i][key[p]].conn = conn[p]
        /\ \A j \in Instances, m \in Keys :
              j # i \/ m # key[p] => locks'[j][m] = locks[j][m]
    BY <1>0, <1>6 DEF Store, TypeOK
  <2>4. UNCHANGED <<sess, closing, closeAt>>
    BY <1>6 DEF Store, closeVars
  <2>5. conn[p] \in {i} \X (1..PoolSize) /\ sess[conn[p]] # "idle"
    BY <2>1 DEF DedicatedConn, CallConns, PoolOf
  <2>6. CallConns'
    BY <2>1, <2>2, <2>4 DEF DedicatedConn, CallConns, PoolOf
  <2>7. EntryConns'
    <3>1. ASSUME NEW j \in Instances, NEW m \in Keys, locks'[j][m] # None
          PROVE  /\ locks'[j][m].conn \in {j} \X (1..PoolSize)
                 /\ sess'[locks'[j][m].conn] # "idle"
                 /\ \A q \in Owning' : conn'[q] # locks'[j][m].conn
      <4>1. CASE j = i /\ m = key[p]
        BY <2>2, <2>3, <2>4, <2>5, <3>1, <4>1
      <4>2. CASE j # i \/ m # key[p]
        BY <2>1, <2>2, <2>3, <2>4, <3>1, <4>2 DEF DedicatedConn, EntryConns
      <4> QED
        BY <4>1, <4>2
    <3>2. \A j \in Instances, m \in Keys : (j # i \/ m # key[p]) /\ locks'[j][m] # None
             => locks'[j][m].conn = locks[j][m].conn /\ locks[j][m].conn # conn[p] /\ locks[j][m] # None
      BY <2>1, <2>3 DEF DedicatedConn, EntryConns
    <3>3. \A j, n \in Instances, m, l \in Keys :
             /\ locks'[j][m] # None /\ locks'[n][l] # None
             /\ locks'[j][m].conn = locks'[n][l].conn
             => j = n /\ m = l
      BY <1>0, <2>3, <3>2 DEF DedicatedConn, EntryConns
    <3> QED
      BY <3>1, <3>3 DEF EntryConns
  <2>8. ClosingConns'
    BY <1>0, <2>1, <2>2, <2>3, <2>4 DEF DedicatedConn, ClosingConns
  <2>9. RowConns'
    BY <1>0, <2>1, <2>2, <2>3, <2>4 DEF DedicatedConn, RowConns
  <2> QED
    BY <2>6, <2>7, <2>8, <2>9 DEF DedicatedConn
<1>7. CASE Release(p)
  <2> DEFINE k == key[p]
  <2>a. pc[p] = "leader" /\ p \notin Owning /\ UNCHANGED <<sess, closing, closeAt>>
    BY <1>7 DEF Release, Owning, closeVars
  <2>1. CASE locks[i][k] = None
    <3>1. Owning' = Owning
      BY <1>7, <2>1 DEF Release, Owning, TypeOK
    <3> QED
      BY <1>b, <1>7, <2>a, <2>1, <3>1 DEF Release
  <2>2. CASE locks[i][k] # None /\ locks[i][k].refCount > 1
    <3>0. locks[i][k] \in Entry
      BY <1>0, <2>2 DEF TypeOK
    <3>1. /\ locks' = [locks EXCEPT ![i][k].refCount = @ - 1]
          /\ pc' = [pc EXCEPT ![p] = "idle"]
          /\ UNCHANGED conn
      BY <1>7, <2>2, <3>0 DEF Release, Entry
    <3>2. Owning' = Owning
      BY <2>a, <3>1 DEF Owning, TypeOK
    <3>3. locks'[i][k].conn = locks[i][k].conn
      BY <1>0, <3>0, <3>1 DEF TypeOK, Entry
    <3>4. \A j \in Instances, m \in Keys : j # i \/ m # k => locks'[j][m] = locks[j][m]
      BY <1>0, <3>1 DEF TypeOK
    <3> QED
      BY <1>b, <2>a, <2>2, <3>1, <3>2, <3>3, <3>4
  <2>3. CASE locks[i][k] # None /\ locks[i][k].refCount <= 1
    <3>0. locks[i][k] \in Entry
      BY <1>0, <2>3 DEF TypeOK
    <3>1. /\ locks' = [locks EXCEPT ![i][k] = None]
          /\ conn' = [conn EXCEPT ![p] = locks[i][k].conn]
          /\ pc' = [pc EXCEPT ![p] = "unlock"]
      BY <1>7, <2>3, <3>0 DEF Release, Entry
    <3>2. Owning' = Owning \cup {p} /\ conn'[p] = locks[i][k].conn
      BY <2>a, <3>1 DEF Owning, TypeOK
    <3>3. \A q \in Owning : conn'[q] = conn[q]
      BY <2>a, <3>1 DEF Owning, TypeOK
    <3>4. \A j \in Instances, m \in Keys : locks'[j][m] # None =>
             locks'[j][m] = locks[j][m] /\ (j # i \/ m # k)
      BY <1>0, <3>1 DEF TypeOK
    <3>5. CallConns'
      BY <1>0, <2>a, <2>3, <3>2, <3>3 DEF DedicatedConn, CallConns, EntryConns, PoolOf
    <3>6. EntryConns'
      BY <1>0, <2>a, <2>3, <3>2, <3>3, <3>4 DEF DedicatedConn, EntryConns
    <3>7. ClosingConns'
      BY <1>0, <2>a, <2>3, <3>2, <3>3, <3>4 DEF DedicatedConn, ClosingConns
    <3>8. RowConns'
      BY <1>0, <2>a, <2>3, <3>2, <3>3, <3>4 DEF DedicatedConn, RowConns
    <3> QED
      BY <3>5, <3>6, <3>7, <3>8 DEF DedicatedConn
  <2>4. locks[i][k] # None => locks[i][k].refCount \in Nat
    BY <1>0 DEF TypeOK, Entry
  <2> QED
    BY <2>1, <2>2, <2>3, <2>4
<1> QED
  BY <1>1, <1>2, <1>3, <1>4, <1>5, <1>6, <1>7, <1>8 DEF CallerStep

\* Connections stay dedicated: the steps of Close.
LEMMA CloseDedicated ==
    ASSUME TypeOK, DedicatedConn, NEW i \in Instances, CloseStep(i)
    PROVE  DedicatedConn'
<1>u. Owning' = Owning /\ conn' = conn
  BY DEF CloseStep, CloseSwap, CloseUnlock, CloseReturnConn, CloseCtxDone, callerVars, Owning
\* A connection Close is done with goes back to the pool.
<1>a. ASSUME NEW s \in Sessions, CloseConn(s), UNCHANGED locks,
             \A p \in Owning : conn[p] # s,
             \A j \in Instances, k \in Keys : locks[j][k] # None => locks[j][k].conn # s,
             \A j \in Instances : \A e \in closing'[j] : e \in closing[j] /\ e[1] # s,
             \A j \in Instances : closeAt'[j] # None => closeAt'[j] = closeAt[j] /\ closeAt[j] # s
      PROVE  DedicatedConn'
  <2>1. \A t \in Sessions : t # s => sess'[t] = sess[t]
    BY <1>a DEF CloseConn, TypeOK
  <2>2. \A q \in Owning : conn[q] \in Sessions /\ sess[conn[q]] # "idle"
    BY CallersAssumption DEF DedicatedConn, CallConns, PoolOf, Sessions, Owning
  <2>3. \A j \in Instances, m \in Keys : locks[j][m] # None =>
           locks[j][m].conn \in Sessions /\ sess[locks[j][m].conn] # "idle"
    BY DEF DedicatedConn, EntryConns, Sessions
  <2>4. \A j \in Instances : \A e \in closing[j] : e[1] \in Sessions /\ sess[e[1]] # "idle"
    BY DEF DedicatedConn, ClosingConns, Sessions
  <2>5. \A j \in Instances : closeAt[j] # None =>
           closeAt[j] \in Sessions /\ sess[closeAt[j]] # "idle"
    BY DEF DedicatedConn, RowConns, Sessions
  <2> QED
    BY <1>a, <1>u, <2>1, <2>2, <2>3, <2>4, <2>5, DedicatedFrame
<1>1. CASE CloseSwap(i)
  <2>1. \A j \in Instances, k \in Keys : locks'[j][k] # None =>
           j # i /\ locks'[j][k] = locks[j][k]
    BY <1>1 DEF CloseSwap, TypeOK
  <2>2. \A e \in closing'[i] : \E k \in Keys : locks[i][k] # None /\ e = <<locks[i][k].conn, HashKey[k]>>
    BY <1>1 DEF CloseSwap, TypeOK
  <2>3. \A j \in Instances : j # i => closing'[j] = closing[j]
    BY <1>1 DEF CloseSwap, TypeOK
  <2>4. UNCHANGED <<sess, closeAt>> /\ closeAt[i] = None
    BY <1>1 DEF CloseSwap
  <2>5. CallConns'
    BY <1>u, <2>4 DEF DedicatedConn, CallConns, PoolOf
  <2>6. EntryConns'
    BY <1>u, <2>1, <2>4 DEF DedicatedConn, EntryConns
  <2>7. ClosingConns'
    <3>1. ASSUME NEW j \in Instances, NEW e \in closing'[j]
          PROVE  /\ e[1] \in {j} \X (1..PoolSize)
                 /\ sess'[e[1]] # "idle"
                 /\ \A p \in Owning' : conn'[p] # e[1]
                 /\ \A n \in Instances, k \in Keys : locks'[n][k] # None => locks'[n][k].conn # e[1]
                 /\ \A f \in closing'[j] : f[1] = e[1] => f = e
      <4>1. CASE j = i
        <5>1. PICK k \in Keys : locks[i][k] # None /\ e = <<locks[i][k].conn, HashKey[k]>>
          BY <2>2, <3>1, <4>1
        <5>2. \A f \in closing'[j] : f[1] = e[1] => f = e
          BY <2>2, <4>1, <5>1 DEF DedicatedConn, EntryConns
        <5> QED
          BY <1>u, <2>1, <2>4, <4>1, <5>1, <5>2 DEF DedicatedConn, EntryConns
      <4>2. CASE j # i
        BY <1>u, <2>1, <2>3, <2>4, <3>1, <4>2 DEF DedicatedConn, ClosingConns
      <4> QED
        BY <4>1, <4>2
    <3> QED
      BY <3>1 DEF ClosingConns
  <2>8. RowConns'
    BY <1>u, <2>1, <2>3, <2>4 DEF DedicatedConn, RowConns
  <2> QED
    BY <2>5, <2>6, <2>7, <2>8 DEF DedicatedConn
<1>2. CASE CloseUnlock(i)
  <2>1. PICK e \in closing[i] :
           /\ closing' = [closing EXCEPT ![i] = @ \ {e}]
           /\ \/ /\ closeAt' = [closeAt EXCEPT ![i] = e[1]]
                 /\ UNCHANGED sess
              \/ /\ CloseConn(e[1])
                 /\ UNCHANGED closeAt
    BY <1>2 DEF CloseUnlock
  <2>2. closeAt[i] = None /\ UNCHANGED locks
    BY <1>2 DEF CloseUnlock
  <2>3. \A j \in Instances : \A f \in closing'[j] : f \in closing[j] /\ (j = i => f # e)
    BY <2>1 DEF TypeOK
  <2>4. \A j \in Instances : \A f \in closing'[j] : f[1] # e[1]
    <3>1. \A f \in closing'[i] : f[1] # e[1]
      BY <2>3 DEF DedicatedConn, ClosingConns
    <3>2. ASSUME NEW j \in Instances, j # i, NEW f \in closing'[j] PROVE f[1] # e[1]
      BY <2>3, <3>2 DEF DedicatedConn, ClosingConns
    <3> QED
      BY <3>1, <3>2
  <2>5. \A j \in Instances : closeAt[j] # None => closeAt[j] # e[1]
    BY <2>2 DEF DedicatedConn, ClosingConns, RowConns
  <2>6. e[1] \in Sessions
    BY DEF TypeOK
  <2>7. CASE CloseConn(e[1]) /\ UNCHANGED closeAt
    BY <1>a, <2>2, <2>3, <2>4, <2>5, <2>6, <2>7 DEF DedicatedConn, ClosingConns
  <2>8. CASE closeAt' = [closeAt EXCEPT ![i] = e[1]] /\ UNCHANGED sess
    <3>1. closeAt'[i] = e[1] /\ \A j \in Instances : j # i => closeAt'[j] = closeAt[j]
      BY <2>8 DEF TypeOK
    <3>2. CallConns'
      BY <1>u, <2>8 DEF DedicatedConn, CallConns, PoolOf
    <3>3. EntryConns'
      BY <1>u, <2>2, <2>8 DEF DedicatedConn, EntryConns
    <3>4. ClosingConns'
      BY <1>u, <2>2, <2>3, <2>8 DEF DedicatedConn, ClosingConns
    <3>5. RowConns'
      BY <1>u, <2>2, <2>3, <2>4, <2>8, <3>1 DEF DedicatedConn, RowConns, ClosingConns
    <3> QED
      BY <3>2, <3>3, <3>4, <3>5 DEF DedicatedConn
  <2> QED
    BY <2>1, <2>7, <2>8
<1>3. CASE CloseReturnConn(i)
  <2>1. closeAt[i] \in Sessions /\ CloseConn(closeAt[i]) /\ UNCHANGED <<locks, closing>>
    BY <1>3 DEF CloseReturnConn, TypeOK
  <2>2. \A j \in Instances : closeAt'[j] # None => j # i /\ closeAt'[j] = closeAt[j]
    BY <1>3 DEF CloseReturnConn, TypeOK
  <2>3. closeAt[i] # None
    BY <1>3 DEF CloseReturnConn
  <2>4. \A j \in Instances : j # i /\ closeAt[j] # None => closeAt[j] # closeAt[i]
    BY <2>3 DEF DedicatedConn, RowConns
  <2>5. \A j \in Instances : \A e \in closing[j] : e[1] # closeAt[i]
    BY <2>3 DEF DedicatedConn, RowConns, ClosingConns
  <2> QED
    BY <1>a, <2>1, <2>2, <2>3, <2>4, <2>5 DEF DedicatedConn, RowConns
<1>4. CASE CloseCtxDone(i)
  BY <1>4, <1>u, DedicatedFrame
  DEF CloseCtxDone, DedicatedConn, CallConns, EntryConns, ClosingConns, RowConns
<1> QED
  BY <1>1, <1>2, <1>3, <1>4 DEF CloseStep

\* Connections stay dedicated when a session is lost.
LEMMA LostDedicated ==
    ASSUME TypeOK, DedicatedConn, NEW s \in Sessions, SessionLost(s)
    PROVE  DedicatedConn'
<1>1. \A t : sess'[t] = "idle" => sess[t] = "idle" \/ t \notin Sessions
  BY DEF SessionLost, TypeOK
<1>2. Owning' = Owning /\ UNCHANGED <<conn, locks, closing, closeAt>>
  BY DEF SessionLost, Owning, callerVars, closeVars
<1>3. /\ \A q \in Owning : conn[q] \in Sessions
      /\ \A j \in Instances, k \in Keys : locks[j][k] # None => locks[j][k].conn \in Sessions
      /\ \A j \in Instances : \A e \in closing[j] : e[1] \in Sessions
      /\ \A j \in Instances : closeAt[j] # None => closeAt[j] \in Sessions
  BY CallersAssumption
  DEF DedicatedConn, CallConns, EntryConns, ClosingConns, RowConns, PoolOf, Sessions, Owning
<1> QED
  BY <1>1, <1>2, <1>3, DedicatedFrame
  DEF DedicatedConn, CallConns, EntryConns, ClosingConns, RowConns
-----------------------------------------------------------------------------
\* A step that gives up no lock of a live owner keeps LiveHolds.
LEMMA LiveHoldsFrame ==
    ASSUME LiveHolds,
           \A p \in Callers : pc'[p] = "store" =>
              /\ pc[p] = "store" /\ conn'[p] = conn[p] /\ key'[p] = key[p]
              /\ sess'[conn[p]] = "used" => sess[conn[p]] = "used"
              /\ sess'[conn[p]] = "used" /\ held[conn[p]][HashKey[key[p]]] > 0
                 => held'[conn[p]][HashKey[key[p]]] > 0,
           \A j \in Instances, m \in Keys : locks'[j][m] # None =>
              /\ locks[j][m] # None /\ locks'[j][m].conn = locks[j][m].conn
              /\ sess'[locks[j][m].conn] = "used" => sess[locks[j][m].conn] = "used"
              /\ sess'[locks[j][m].conn] = "used" /\ held[locks[j][m].conn][HashKey[m]] > 0
                 => held'[locks[j][m].conn][HashKey[m]] > 0
    PROVE  LiveHolds'
BY DEF LiveHolds

\* What a step does to the map, seen entry by entry.
LEMMA TryAcquireLocks ==
    ASSUME TypeOK, NEW p \in Callers, NEW k \in Keys, TryAcquire(p, k)
    PROVE  \A j \in Instances, m \in Keys :
              /\ locks'[j][m] # None => locks[j][m] # None /\ locks'[j][m].conn = locks[j][m].conn
              /\ locks'[j][m] = None => locks[j][m] = None
              /\ j # InstanceOf[p] \/ m # k => locks'[j][m] = locks[j][m]
              /\ locks[InstanceOf[p]][k] # None =>
                    locks'[InstanceOf[p]][k].refCount = locks[InstanceOf[p]][k].refCount + 1
<1>0. InstanceOf[p] \in Instances
  BY CallersAssumption
<1>1. CASE locks[InstanceOf[p]][k] = None
  BY <1>1 DEF TryAcquire
<1>2. CASE locks[InstanceOf[p]][k] # None
  <2>1. locks' = [locks EXCEPT ![InstanceOf[p]][k].refCount = @ + 1]
    BY <1>2 DEF TryAcquire
  <2>2. locks[InstanceOf[p]][k] \in Entry
    BY <1>0, <1>2 DEF TypeOK
  <2>3. \A j \in Instances, m \in Keys : j # InstanceOf[p] \/ m # k => locks'[j][m] = locks[j][m]
    BY <1>0, <2>1 DEF TypeOK
  <2>4. locks'[InstanceOf[p]][k] =
           [locks[InstanceOf[p]][k] EXCEPT !.refCount = locks[InstanceOf[p]][k].refCount + 1]
    BY <1>0, <2>1 DEF TypeOK
  <2>5. /\ locks'[InstanceOf[p]][k].conn = locks[InstanceOf[p]][k].conn
        /\ locks'[InstanceOf[p]][k].refCount = locks[InstanceOf[p]][k].refCount + 1
        /\ locks'[InstanceOf[p]][k] \in Entry
    BY <2>2, <2>4 DEF Entry
  <2> QED
    BY <1>2, <2>3, <2>5, NoneAssumption
<1> QED
  BY <1>1, <1>2

\* What Release does to the map: one count down, or the entry gone.
LEMMA ReleaseLocks ==
    ASSUME TypeOK, NEW p \in Callers, Release(p)
    PROVE  LET i == InstanceOf[p]
               k == key[p]
           IN
           /\ \A j \in Instances, m \in Keys :
                 /\ locks'[j][m] # None =>
                       locks[j][m] # None /\ locks'[j][m].conn = locks[j][m].conn
                 /\ j # i \/ m # k => locks'[j][m] = locks[j][m]
           /\ locks'[i][k] # None => locks'[i][k].refCount = locks[i][k].refCount - 1
           /\ locks'[i][k] = None => locks[i][k] = None \/ locks[i][k].refCount <= 1
<1> DEFINE i == InstanceOf[p]
           k == key[p]
<1>0. i \in Instances /\ k \in Keys
  BY CallersAssumption DEF TypeOK
<1>1. CASE locks[i][k] = None
  BY <1>1 DEF Release
<1>2. CASE locks[i][k] # None
  <2>0. locks[i][k] \in Entry /\ locks[i][k].refCount \in Nat
    BY <1>0, <1>2 DEF TypeOK, Entry
  <2>1. CASE locks[i][k].refCount > 1
    <3>1. locks' = [locks EXCEPT ![i][k].refCount = @ - 1]
      BY <1>2, <2>0, <2>1 DEF Release
    <3>2. \A j \in Instances, m \in Keys : j # i \/ m # k => locks'[j][m] = locks[j][m]
      BY <1>0, <3>1 DEF TypeOK
    <3>3. locks'[i][k] = [locks[i][k] EXCEPT !.refCount = locks[i][k].refCount - 1]
      BY <1>0, <3>1 DEF TypeOK
    <3>4. locks[i][k].refCount - 1 \in Nat
      BY <2>0, <2>1
    <3>5. /\ locks'[i][k].conn = locks[i][k].conn
          /\ locks'[i][k].refCount = locks[i][k].refCount - 1
          /\ locks'[i][k] \in Entry
      BY <2>0, <3>3, <3>4 DEF Entry
    <3> QED
      BY <1>2, <3>2, <3>5, NoneAssumption
  <2>2. CASE locks[i][k].refCount <= 1
    <3>1. locks' = [locks EXCEPT ![i][k] = None]
      BY <1>2, <2>0, <2>2 DEF Release
    <3>2. /\ \A j \in Instances, m \in Keys : j # i \/ m # k => locks'[j][m] = locks[j][m]
          /\ locks'[i][k] = None
      BY <1>0, <3>1 DEF TypeOK
    <3> QED
      BY <2>2, <3>2
  <2> QED
    BY <2>0, <2>1, <2>2
<1> QED
  BY <1>1, <1>2

\* Owners of connections own real sessions that are not in the pool.
LEMMA OwnedSessions ==
    ASSUME TypeOK, DedicatedConn
    PROVE  /\ \A q \in Callers : pc[q] \in {"query", "store", "unlock"} =>
                 q \in Owning /\ conn[q] \in Sessions /\ sess[conn[q]] # "idle"
           /\ \A j \in Instances, m \in Keys : locks[j][m] # None =>
                 locks[j][m].conn \in Sessions /\ sess[locks[j][m].conn] # "idle"
BY CallersAssumption DEF DedicatedConn, CallConns, EntryConns, PoolOf, Sessions, Owning

\* A live owner keeps its advisory lock: the steps of a caller.
LEMMA CallerLive ==
    ASSUME TypeOK, DedicatedConn, LiveHolds, NEW p \in Callers, CallerStep(p)
    PROVE  LiveHolds'
<1> DEFINE i == InstanceOf[p]
<1>0. i \in Instances /\ key[p] \in Keys /\ HashKey[key[p]] \in Ids
  BY CallersAssumption, KeyId DEF TypeOK
<1>1. ASSUME NEW k \in Keys, TryAcquire(p, k) PROVE LiveHolds'
  <2>1. \A q \in Callers : pc'[q] = "store" => pc[q] = "store" /\ key'[q] = key[q]
    BY <1>1 DEF TryAcquire, TypeOK
  <2> QED
    <3>1. \A j \in Instances, m \in Keys : locks'[j][m] # None =>
             locks[j][m] # None /\ locks'[j][m].conn = locks[j][m].conn
      BY <1>1, TryAcquireLocks
    <3>2. UNCHANGED <<conn, sess, held>>
      BY <1>1 DEF TryAcquire
    <3> QED
      BY <2>1, <3>1, <3>2, LiveHoldsFrame
<1>2. CASE Dial(p)
  <2>1. \A q \in Callers : pc'[q] = "store" => pc[q] = "store" /\ conn'[q] = conn[q]
    BY <1>2 DEF Dial, TypeOK
  <2>2. \A t \in Sessions : sess[t] # "idle" => sess'[t] = sess[t]
    BY <1>2 DEF Dial, TypeOK
  <2>3. UNCHANGED <<locks, key, held>>
    BY <1>2 DEF Dial
  <2> QED
    BY <2>1, <2>2, <2>3, OwnedSessions, LiveHoldsFrame
<1>3. CASE DialFails(p)
  <2>1. \A q \in Callers : pc'[q] = "store" => pc[q] = "store"
    BY <1>3 DEF DialFails, TypeOK
  <2> QED
    BY <1>3, <2>1, LiveHoldsFrame DEF DialFails
<1>a. ASSUME pc'[p] = "idle", CloseConn(conn[p]), UNCHANGED <<locks, key>>,
             \A q \in Callers : q # p => pc'[q] = pc[q] /\ conn'[q] = conn[q],
             \A t \in Sessions, id \in Ids : t # conn[p] => held'[t][id] = held[t][id],
             pc[p] \in {"query", "unlock"}
      PROVE  LiveHolds'
  <2>1. \A t \in Sessions : sess'[t] = IF t = conn[p] THEN "idle" ELSE sess[t]
    BY <1>a DEF CloseConn, TypeOK
  <2>2. \A q \in Callers : pc'[q] = "store" =>
           /\ q # p /\ pc[q] = "store" /\ conn[q] \in Sessions /\ conn[q] # conn[p]
           /\ HashKey[key[q]] \in Ids
    BY <1>a, OwnedSessions, KeyId DEF DedicatedConn, CallConns, TypeOK
  <2>3. \A j \in Instances, m \in Keys : locks[j][m] # None =>
           locks[j][m].conn \in Sessions /\ locks[j][m].conn # conn[p] /\ HashKey[m] \in Ids
    BY <1>a, OwnedSessions, KeyId DEF DedicatedConn, EntryConns
  <2> QED
    BY <1>a, <2>1, <2>2, <2>3, LiveHoldsFrame
<1>5. CASE LockQueryFails(p)
  BY <1>5, <1>a DEF LockQueryFails, TypeOK
<1>8. CASE Unlock(p)
  <2>1. conn[p] \in Sessions
    BY <1>8, OwnedSessions DEF Unlock
  <2>2. \A t \in Sessions, id \in Ids : t # conn[p] => held'[t][id] = held[t][id]
    BY <1>0, <1>8, <2>1, AdvisoryUnlockEffect DEF Unlock
  <2> QED
    BY <1>8, <1>a, <2>2 DEF Unlock, TypeOK
<1>4. CASE LockQuery(p)
  <2> DEFINE s == conn[p]
             id == HashKey[key[p]]
  <2>0. s \in Sessions
    BY <1>4, OwnedSessions DEF LockQuery
  <2>1. CASE ~Free(s, id)
    BY <1>4, <1>a, <2>1 DEF LockQuery, TypeOK
  <2>2. CASE Free(s, id)
    <3>1. /\ held' = [held EXCEPT ![s][id] = @ + 1]
          /\ pc' = [pc EXCEPT ![p] = "store"]
          /\ UNCHANGED <<conn, sess, locks, key>>
      BY <1>4, <2>2 DEF LockQuery
    <3>2. \A t \in Sessions, j \in Ids : held[t][j] > 0 => held'[t][j] > 0
      BY <1>0, <2>0, <3>1 DEF TypeOK
    <3>3. held'[s][id] > 0
      BY <1>0, <2>0, <3>1 DEF TypeOK
    <3>4. \A q \in Callers : pc'[q] = "store" => q = p \/
             (pc[q] = "store" /\ conn[q] \in Sessions /\ HashKey[key[q]] \in Ids)
      BY <3>1, OwnedSessions, KeyId DEF TypeOK
    <3>5. \A j \in Instances, m \in Keys : locks[j][m] # None =>
             locks[j][m].conn \in Sessions /\ HashKey[m] \in Ids
      BY OwnedSessions, KeyId
    <3> QED
      BY <3>1, <3>2, <3>3, <3>4, <3>5 DEF LiveHolds
  <2> QED
    BY <2>1, <2>2
<1>6. CASE Store(p)
  <2>1. /\ locks'[i][key[p]] = [conn |-> conn[p], refCount |-> 1]
        /\ \A j \in Instances, m \in Keys :
              j # i \/ m # key[p] => locks'[j][m] = locks[j][m]
    BY <1>0, <1>6 DEF Store, TypeOK
  <2>2. \A q \in Callers : pc'[q] = "store" => pc[q] = "store" /\ conn'[q] = conn[q]
    BY <1>6 DEF Store, TypeOK
  <2>3. pc[p] = "store" /\ UNCHANGED <<key, sess, held>>
    BY <1>6 DEF Store
  <2> QED
    BY <2>1, <2>2, <2>3 DEF LiveHolds
<1>7. CASE Release(p)
  <2>1. \A q \in Callers : pc'[q] = "store" => pc[q] = "store" /\ conn'[q] = conn[q]
    BY <1>7 DEF Release, TypeOK
  <2>2. UNCHANGED <<key, sess, held>>
    BY <1>7 DEF Release
  <2> QED
    BY <1>7, <2>1, <2>2, ReleaseLocks, LiveHoldsFrame
<1> QED
  BY <1>1, <1>2, <1>3, <1>4, <1>5, <1>6, <1>7, <1>8 DEF CallerStep

\* A live owner keeps its advisory lock: Close and lost sessions.
LEMMA CloseLive ==
    ASSUME TypeOK, DedicatedConn, LiveHolds, NEW i \in Instances, CloseStep(i)
    PROVE  LiveHolds'
<1>u. UNCHANGED <<pc, key, conn>>
  BY DEF CloseStep, CloseSwap, CloseUnlock, CloseReturnConn, CloseCtxDone, callerVars
<1>o. /\ \A q \in Callers : pc[q] = "store" => conn[q] \in Sessions /\ HashKey[key[q]] \in Ids
      /\ \A j \in Instances, m \in Keys : locks[j][m] # None =>
            locks[j][m].conn \in Sessions /\ HashKey[m] \in Ids
  BY OwnedSessions, KeyId DEF TypeOK
<1>1. CASE CloseSwap(i)
  <2>1. \A j \in Instances, k \in Keys : locks'[j][k] # None => locks'[j][k] = locks[j][k]
    BY <1>1 DEF CloseSwap, TypeOK
  <2> QED
    BY <1>1, <1>u, <2>1, LiveHoldsFrame DEF CloseSwap
<1>2. CASE CloseUnlock(i)
  <2>1. PICK e \in closing[i] :
           \/ AdvisoryUnlock(e[1], e[2]) /\ UNCHANGED sess
           \/ CloseConn(e[1]) /\ UNCHANGED held
    BY <1>2 DEF CloseUnlock
  <2>2. e[1] \in Sessions /\ e[2] \in Ids
    BY DEF TypeOK
  <2>3. /\ \A t \in Sessions, id \in Ids : t # e[1] => held'[t][id] = held[t][id]
        /\ \A t \in Sessions : t # e[1] => sess'[t] = sess[t]
    BY <2>1, <2>2, AdvisoryUnlockEffect DEF CloseConn, TypeOK
  <2>4. /\ \A q \in Callers : pc[q] = "store" => conn[q] # e[1]
        /\ \A j \in Instances, m \in Keys : locks[j][m] # None => locks[j][m].conn # e[1]
    BY DEF DedicatedConn, ClosingConns, Owning
  <2>5. UNCHANGED locks
    BY <1>2 DEF CloseUnlock
  <2> QED
    BY <1>u, <1>o, <2>3, <2>4, <2>5, LiveHoldsFrame
<1>3. CASE CloseReturnConn(i)
  <2>1. \A t \in Sessions : sess'[t] = "used" => sess[t] = "used"
    BY <1>3 DEF CloseReturnConn, CloseConn, TypeOK
  <2> QED
    BY <1>3, <1>u, <1>o, <2>1, LiveHoldsFrame DEF CloseReturnConn
<1>4. CASE CloseCtxDone(i)
  BY <1>4, <1>u, LiveHoldsFrame DEF CloseCtxDone
<1> QED
  BY <1>1, <1>2, <1>3, <1>4 DEF CloseStep

\* A lost session holds nothing that a live owner needs.
LEMMA LostLive ==
    ASSUME TypeOK, DedicatedConn, LiveHolds, NEW s \in Sessions, SessionLost(s)
    PROVE  LiveHolds'
<1>1. /\ sess'[s] # "used"
      /\ \A t \in Sessions : t # s => sess'[t] = sess[t] /\ held'[t] = held[t]
  BY DEF SessionLost, TypeOK
<1>2. UNCHANGED <<pc, key, conn, locks>>
  BY DEF SessionLost, callerVars
<1> QED
  BY <1>1, <1>2, OwnedSessions, LiveHoldsFrame

\* Sessions are lost only by steps that count a loss.
LEMMA NoLossStep ==
    ASSUME TypeOK, NoLoss, [Next]_vars
    PROVE  NoLoss' /\ (losses' = 0 => losses = 0)
<1>1. CASE \E s \in Sessions : SessionLost(s)
  BY <1>1 DEF SessionLost, NoLoss, TypeOK
<1>2. CASE \E p \in Callers : DialFails(p)
  BY <1>2 DEF DialFails, NoLoss, TypeOK
<1>3. CASE UNCHANGED losses /\ \A s \in Sessions : sess'[s] = "lost" => sess[s] = "lost"
  BY <1>3 DEF NoLoss
<1>4. ASSUME NEW p \in Callers, CallerStep(p), ~DialFails(p)
      PROVE  UNCHANGED losses /\ \A s \in Sessions : sess'[s] = "lost" => sess[s] = "lost"
  BY <1>4
  DEF CallerStep, TryAcquire, Dial, LockQuery, LockQueryFails, Store, Release, Unlock,
      CloseConn, faultVars, TypeOK
<1>5. ASSUME NEW i \in Instances, CloseStep(i)
      PROVE  UNCHANGED losses /\ \A s \in Sessions : sess'[s] = "lost" => sess[s] = "lost"
  BY <1>5
  DEF CloseStep, CloseSwap, CloseUnlock, CloseReturnConn, CloseCtxDone, CloseConn,
      faultVars, TypeOK
<1>6. CASE UNCHANGED vars
  BY <1>6 DEF vars, faultVars, NoLoss
<1> QED
  BY <1>1, <1>2, <1>3, <1>4, <1>5, <1>6 DEF Next
-----------------------------------------------------------------------------
\* Counting leaders.
LEMMA LeadersFinite == \A i, k : IsFiniteSet(Leaders(i, k)) /\ Cardinality(Leaders(i, k)) \in Nat
BY CallersAssumption, FS_Subset, FS_CardinalityType DEF Leaders

\* A step that keeps the leaders and the map keeps the reference counts.
LEMMA RefCountFrame ==
    ASSUME RefCount, losses' = 0 => losses = 0,
           \A j \in Instances, m \in Keys : closes'[j] = 0 =>
              closes[j] = 0 /\ locks'[j][m] = locks[j][m] /\ Leaders(j, m)' = Leaders(j, m)
    PROVE  RefCount'
BY DEF RefCount

\* Without losses, an entry of the map and a call about to store the same key
\* would both hold the advisory lock.
LEMMA StoreIsFresh ==
    ASSUME TypeOK, OneHolder, DedicatedConn, LiveHolds, NoLoss, losses = 0,
           NEW p \in Callers, pc[p] = "store"
    PROVE  locks[InstanceOf[p]][key[p]] = None
<1> DEFINE i == InstanceOf[p]
           k == key[p]
<1>0. i \in Instances /\ k \in Keys /\ HashKey[k] \in Ids
  BY CallersAssumption, KeyId DEF TypeOK
<1>1. SUFFICES ASSUME locks[i][k] # None PROVE FALSE
  OBVIOUS
<1>2. p \in Owning /\ conn[p] \in Sessions /\ sess[conn[p]] = "used"
  BY OwnedSessions DEF NoLoss, TypeOK
<1>3. locks[i][k].conn \in Sessions /\ sess[locks[i][k].conn] = "used"
  BY <1>0, <1>1, OwnedSessions DEF NoLoss, TypeOK
<1>4. conn[p] # locks[i][k].conn
  BY <1>0, <1>1, <1>2 DEF DedicatedConn, EntryConns
<1>5. held[conn[p]][HashKey[k]] > 0 /\ held[locks[i][k].conn][HashKey[k]] > 0
  BY <1>0, <1>1, <1>2, <1>3 DEF LiveHolds
<1> QED
  BY <1>0, <1>2, <1>3, <1>4, <1>5 DEF OneHolder

\* Reference counts count leaders: the steps of a caller.
LEMMA CallerRefCount ==
    ASSUME TypeOK, OneHolder, DedicatedConn, LiveHolds, NoLoss, RefCount,
           losses' = 0 => losses = 0, NEW p \in Callers, CallerStep(p)
    PROVE  RefCount'
<1> DEFINE i == InstanceOf[p]
<1>0. i \in Instances /\ key[p] \in Keys
  BY CallersAssumption DEF TypeOK
<1>a. ASSUME UNCHANGED <<locks, closes, key>>, pc[p] # "leader", pc'[p] # "leader",
             \A q \in Callers : q # p => pc'[q] = pc[q]
      PROVE  RefCount'
  <2>1. \A j \in Instances, m \in Keys : Leaders(j, m)' = Leaders(j, m)
    BY <1>a DEF Leaders
  <2> QED
    BY <1>a, <2>1, RefCountFrame
<1>1. ASSUME NEW k \in Keys, TryAcquire(p, k) PROVE RefCount'
  <2>0. /\ pc[p] = "idle" /\ UNCHANGED closes /\ key'[p] = k
        /\ \A q \in Callers : q # p => pc'[q] = pc[q] /\ key'[q] = key[q]
    BY <1>1 DEF TryAcquire, closeVars, TypeOK
  <2>1. \A j \in Instances, m \in Keys : j # i \/ m # k =>
           Leaders(j, m)' = Leaders(j, m) /\ locks'[j][m] = locks[j][m]
    BY <1>1, <2>0, TryAcquireLocks DEF Leaders
  <2>2. CASE locks[i][k] = None
    <3>1. UNCHANGED locks /\ pc'[p] = "dial"
      BY <1>1, <2>2 DEF TryAcquire, TypeOK
    <3>2. Leaders(i, k)' = Leaders(i, k)
      BY <2>0, <3>1 DEF Leaders
    <3> QED
      BY <2>0, <2>1, <3>1, <3>2, RefCountFrame
  <2>3. CASE locks[i][k] # None
    <3>1. pc'[p] = "leader"
      BY <1>1, <2>3 DEF TryAcquire, TypeOK
    <3>2. Leaders(i, k)' = Leaders(i, k) \cup {p} /\ p \notin Leaders(i, k)
      BY <2>0, <3>1 DEF Leaders
    <3>3. Cardinality(Leaders(i, k)') = Cardinality(Leaders(i, k)) + 1
      BY <3>2, LeadersFinite, FS_AddElement
    <3>4. locks'[i][k] # None /\ locks'[i][k].refCount = locks[i][k].refCount + 1
      BY <1>0, <1>1, <2>3, TryAcquireLocks
    <3>5. ASSUME losses' = 0, NEW j \in Instances, NEW m \in Keys, closes'[j] = 0
          PROVE  IF locks'[j][m] = None THEN Leaders(j, m)' = {}
                 ELSE locks'[j][m].refCount = Cardinality(Leaders(j, m)')
      BY <2>0, <2>1, <2>3, <3>3, <3>4, <3>5 DEF RefCount
    <3> QED
      BY <3>5 DEF RefCount
  <2> QED
    BY <2>2, <2>3
<1>2. CASE Dial(p)
  BY <1>2, <1>a DEF Dial, closeVars, TypeOK
<1>3. CASE DialFails(p)
  BY <1>3, <1>a DEF DialFails, closeVars, TypeOK
<1>4. CASE LockQuery(p)
  BY <1>4, <1>a DEF LockQuery, closeVars, TypeOK
<1>5. CASE LockQueryFails(p)
  BY <1>5, <1>a DEF LockQueryFails, closeVars, TypeOK
<1>8. CASE Unlock(p)
  BY <1>8, <1>a DEF Unlock, closeVars, TypeOK
<1>6. CASE Store(p)
  <2> DEFINE k == key[p]
  <2>0. /\ pc[p] = "store" /\ UNCHANGED <<closes, key>> /\ pc'[p] = "leader"
        /\ \A q \in Callers : q # p => pc'[q] = pc[q]
    BY <1>6 DEF Store, closeVars, TypeOK
  <2>1. /\ locks'[i][k] = [conn |-> conn[p], refCount |-> 1]
        /\ \A j \in Instances, m \in Keys : j # i \/ m # k => locks'[j][m] = locks[j][m]
    BY <1>0, <1>6 DEF Store, TypeOK
  <2>2. \A j \in Instances, m \in Keys : j # i \/ m # k => Leaders(j, m)' = Leaders(j, m)
    BY <2>0 DEF Leaders
  <2>3. Leaders(i, k)' = Leaders(i, k) \cup {p}
    BY <2>0 DEF Leaders
  <2>4. ASSUME losses' = 0, NEW j \in Instances, NEW m \in Keys, closes'[j] = 0
        PROVE  IF locks'[j][m] = None THEN Leaders(j, m)' = {}
               ELSE locks'[j][m].refCount = Cardinality(Leaders(j, m)')
    <3>1. CASE j = i /\ m = k
      <4>1. locks[i][k] = None
        BY <2>0, <2>4, StoreIsFresh
      <4>2. Leaders(i, k) = {}
        BY <1>0, <2>0, <2>4, <3>1, <4>1 DEF RefCount
      <4>3. Cardinality(Leaders(i, k)') = 1
        BY <2>3, <4>2, FS_Singleton
      <4>4. locks'[i][k].refCount = 1 /\ locks'[i][k] # None
        <5>1. conn[p] \in Sessions
          BY <2>0, OwnedSessions
        <5>2. locks'[i][k] \in Entry
          BY <2>1, <5>1 DEF Entry
        <5> QED
          BY <2>1, <5>2, NoneAssumption
      <4> QED
        BY <2>0, <3>1, <4>3, <4>4
    <3>2. CASE j # i \/ m # k
      BY <2>0, <2>1, <2>2, <2>4, <3>2 DEF RefCount
    <3> QED
      BY <3>1, <3>2
  <2> QED
    BY <2>4 DEF RefCount
<1>7. CASE Release(p)
  <2> DEFINE k == key[p]
  <2>0. /\ pc[p] = "leader" /\ UNCHANGED <<closes, key>> /\ pc'[p] # "leader"
        /\ \A q \in Callers : q # p => pc'[q] = pc[q]
    BY <1>7 DEF Release, closeVars, TypeOK
  <2>1. \A j \in Instances, m \in Keys : j # i \/ m # k =>
           Leaders(j, m)' = Leaders(j, m) /\ locks'[j][m] = locks[j][m]
    BY <1>7, <2>0, ReleaseLocks DEF Leaders
  <2>2. p \in Leaders(i, k) /\ Leaders(i, k)' = Leaders(i, k) \ {p}
    BY <2>0 DEF Leaders
  <2>3. Cardinality(Leaders(i, k)') = Cardinality(Leaders(i, k)) - 1
    BY <2>2, LeadersFinite, FS_RemoveElement
  <2>4. ASSUME losses' = 0, NEW j \in Instances, NEW m \in Keys, closes'[j] = 0
        PROVE  IF locks'[j][m] = None THEN Leaders(j, m)' = {}
               ELSE locks'[j][m].refCount = Cardinality(Leaders(j, m)')
    <3>1. CASE j = i /\ m = k
      <4>1. locks[i][k] # None /\ locks[i][k].refCount = Cardinality(Leaders(i, k))
        BY <1>0, <2>0, <2>2, <2>4, <3>1 DEF RefCount
      <4>2. CASE locks'[i][k] # None
        <5>1. locks'[i][k].refCount = Cardinality(Leaders(i, k)')
          BY <1>7, <2>3, <4>1, <4>2, ReleaseLocks
        <5> QED
          BY <2>0, <3>1, <4>2, <5>1
      <4>3. CASE locks'[i][k] = None
        <5>1. locks[i][k].refCount <= 1
          BY <1>7, <4>1, <4>3, ReleaseLocks
        <5>2. IsFiniteSet(Leaders(i, k)') /\ Cardinality(Leaders(i, k)') \in Nat
          BY <2>2, LeadersFinite, FS_Subset, FS_CardinalityType
        <5>3. Cardinality(Leaders(i, k)') = 0
          BY <2>3, <4>1, <5>1, <5>2, LeadersFinite
        <5>4. Leaders(i, k)' = {}
          BY <5>2, <5>3, FS_EmptySet
        <5> QED
          BY <2>0, <3>1, <4>3, <5>4
      <4> QED
        BY <4>2, <4>3
    <3>2. CASE j # i \/ m # k
      BY <2>0, <2>1, <2>4, <3>2 DEF RefCount
    <3> QED
      BY <3>1, <3>2
  <2> QED
    BY <2>4 DEF RefCount
<1> QED
  BY <1>1, <1>2, <1>3, <1>4, <1>5, <1>6, <1>7, <1>8 DEF CallerStep

\* Close, lost sessions and stuttering: a closed elector is not counted.
LEMMA OtherRefCount ==
    ASSUME TypeOK, RefCount, losses' = 0 => losses = 0, UNCHANGED <<pc, key>>,
           \A j \in Instances, m \in Keys : closes'[j] = 0 =>
              closes[j] = 0 /\ locks'[j][m] = locks[j][m]
    PROVE  RefCount'
BY RefCountFrame DEF Leaders

\* The steps of Close keep the reference counts.
LEMMA CloseRefCount ==
    ASSUME TypeOK, RefCount, losses' = 0 => losses = 0, NEW i \in Instances, CloseStep(i)
    PROVE  RefCount'
<1>1. CASE CloseSwap(i)
  <2>1. \A j \in Instances, m \in Keys : closes'[j] = 0 =>
           closes[j] = 0 /\ locks'[j][m] = locks[j][m]
    BY <1>1 DEF CloseSwap, TypeOK
  <2> QED
    BY <1>1, <2>1, OtherRefCount DEF CloseSwap, callerVars
<1>2. CASE ~CloseSwap(i)
  BY <1>2, OtherRefCount
  DEF CloseStep, CloseUnlock, CloseReturnConn, CloseCtxDone, callerVars
<1> QED
  BY <1>1, <1>2
-----------------------------------------------------------------------------
\* The inductive invariant holds initially ...
LEMMA InitIInv == Init => IInv
<1> SUFFICES ASSUME Init PROVE IInv
  OBVIOUS
<1>1. Owning = {} /\ \A i, k : Leaders(i, k) = {}
  BY DEF Init, Owning, Leaders
<1>2. TypeOK
  BY InitType
<1>3. OneHolder /\ NoLoss
  BY DEF Init, OneHolder, NoLoss
<1>4. DedicatedConn
  BY <1>1 DEF Init, DedicatedConn, CallConns, EntryConns, ClosingConns, RowConns
<1>5. LiveHolds /\ RefCount
  BY <1>1 DEF Init, LiveHolds, RefCount
<1> QED
  BY <1>2, <1>3, <1>4, <1>5 DEF IInv

\* ... and is preserved by every step.
LEMMA NextIInv == IInv /\ [Next]_vars => IInv'
<1> SUFFICES ASSUME IInv, [Next]_vars PROVE IInv'
  OBVIOUS
<1> USE DEF IInv
<1>0. OneHolder' /\ NoLoss' /\ (losses' = 0 => losses = 0)
  BY OneHolderStep, NoLossStep DEF DedicatedConn
<1>1. ASSUME NEW p \in Callers, CallerStep(p) PROVE IInv'
  BY <1>0, <1>1, CallerType, CallerDedicated, CallerLive, CallerRefCount DEF DedicatedConn
<1>2. ASSUME NEW i \in Instances, CloseStep(i) PROVE IInv'
  BY <1>0, <1>2, CloseType, CloseDedicated, CloseLive, CloseRefCount DEF DedicatedConn
<1>3. ASSUME NEW s \in Sessions, SessionLost(s) PROVE IInv'
  <2>1. RefCount'
    BY <1>0, <1>3, OtherRefCount DEF SessionLost, callerVars, closeVars
  <2> QED
    BY <1>0, <1>3, <2>1, LostType, LostDedicated, LostLive
<1>4. CASE UNCHANGED vars
  <2>1. UNCHANGED <<locks, pc, key, conn, sess, held, closing, closeAt, ctxDone, closes,
                    losses, errors>>
    BY <1>4 DEF vars, callerVars, closeVars, faultVars
  <2>2. TypeOK'
    BY <2>1 DEF TypeOK
  <2>3. DedicatedConn'
    BY <2>1 DEF DedicatedConn, CallConns, EntryConns, ClosingConns, RowConns, Owning, PoolOf
  <2>4. LiveHolds'
    BY <2>1 DEF LiveHolds
  <2>5. RefCount'
    BY <1>0, <2>1, OtherRefCount
  <2> QED
    BY <1>0, <2>2, <2>3, <2>4, <2>5
<1> QED
  BY <1>1, <1>2, <1>3, <1>4 DEF Next

\* The inductive invariant holds in every state of every behaviour.
LEMMA Invariance == Spec => []IInv
BY InitIInv, NextIInv, PTL DEF Spec

\* Every variable keeps its type: schedule/pg_leader.go never stores an entry
\* without a connection or a negative count, whatever fails and whoever calls.
THEOREM PgLeaderTypeCorrect == Spec => []TypeOK
<1>1. IInv => TypeOK
  BY DEF IInv
<1> QED
  BY <1>1, Invariance, PTL

\* The connection of a lock is dedicated to one owner (pg_leader.go:57-58): a
\* call, an entry of the map or a Close, for every interleaving of TryAcquire,
\* Release and Close and every fault.
THEOREM PgLeaderDedicatedConn == Spec => []DedicatedConn
<1>1. IInv => DedicatedConn
  BY DEF IInv
<1> QED
  BY <1>1, Invariance, PTL

\* Calls that lead hold the lock of their key, and one session holds it.
LEMMA LeadersExclude == IInv => MutualExclusion
<1> SUFFICES ASSUME IInv, losses = 0, NEW p \in Callers, NEW q \in Callers,
                    pc[p] = "leader", pc[q] = "leader",
                    HashKey[key[p]] = HashKey[key[q]],
                    closes[InstanceOf[p]] = 0, closes[InstanceOf[q]] = 0
             PROVE  InstanceOf[p] = InstanceOf[q] /\ key[p] = key[q]
  BY DEF MutualExclusion
<1>1. \A r \in Callers : pc[r] = "leader" /\ closes[InstanceOf[r]] = 0 =>
         LET e == locks[InstanceOf[r]][key[r]] IN
         /\ InstanceOf[r] \in Instances /\ key[r] \in Keys /\ HashKey[key[r]] \in Ids
         /\ e # None
         /\ e.conn \in Sessions
         /\ held[e.conn][HashKey[key[r]]] > 0
  <2> SUFFICES ASSUME NEW r \in Callers, pc[r] = "leader", closes[InstanceOf[r]] = 0
               PROVE  LET e == locks[InstanceOf[r]][key[r]] IN
                      /\ InstanceOf[r] \in Instances /\ key[r] \in Keys
                      /\ HashKey[key[r]] \in Ids
                      /\ e # None
                      /\ e.conn \in Sessions
                      /\ held[e.conn][HashKey[key[r]]] > 0
    OBVIOUS
  <2>1. InstanceOf[r] \in Instances /\ key[r] \in Keys /\ HashKey[key[r]] \in Ids
    BY CallersAssumption, KeyId DEF IInv, TypeOK
  <2>2. r \in Leaders(InstanceOf[r], key[r])
    BY DEF Leaders
  <2>3. locks[InstanceOf[r]][key[r]] # None
    BY <2>1, <2>2 DEF IInv, RefCount
  <2>4. /\ locks[InstanceOf[r]][key[r]].conn \in Sessions
        /\ sess[locks[InstanceOf[r]][key[r]].conn] = "used"
    BY <2>1, <2>3, OwnedSessions DEF IInv, NoLoss, TypeOK
  <2> QED
    BY <2>1, <2>3, <2>4 DEF IInv, LiveHolds
<1>2. locks[InstanceOf[p]][key[p]].conn = locks[InstanceOf[q]][key[q]].conn
  BY <1>1 DEF IInv, OneHolder
<1> QED
  BY <1>1, <1>2 DEF IInv, DedicatedConn, EntryConns

\* Mutual exclusion of leaders as long as no session is lost and the electors
\* were not closed.
THEOREM PgLeaderMutualExclusion == Spec => []MutualExclusion
BY LeadersExclude, Invariance, PTL
-----------------------------------------------------------------------------
(* What is left behind when the calls have returned. *)

\* An entry of the map counts callers that lead, whatever was lost or closed.
Counted ==
    \A i \in Instances, k \in Keys : locks[i][k] # None =>
        /\ locks[i][k].refCount >= 1
        /\ locks[i][k].refCount <= Cardinality(Leaders(i, k))

\* Close owns nothing before it was called.
NotClosing == \A i \in Instances : closes[i] = 0 => closing[i] = {} /\ closeAt[i] = None

\* A running call or the map answers for the connection s ...
Owned(s) ==
    \/ \E p \in Owning : conn[p] = s
    \/ \E k \in Keys : locks[s[1]][k] # None /\ locks[s[1]][k].conn = s

\* ... and for a count of the lock id on it.
Granted(s, id) ==
    \/ \E p \in Owning : pc[p] # "query" /\ conn[p] = s /\ HashKey[key[p]] = id
    \/ \E k \in Keys : /\ locks[s[1]][k] # None /\ locks[s[1]][k].conn = s
                       /\ HashKey[k] = id

\* Connections outside the pool have an owner, and counts without one come from
\* unlock queries that failed.
Account(s) ==
    /\ sess[s] # "idle" => Owned(s)
    /\ \A id \in Ids : held[s][id] <= errors + 1 /\ (~Granted(s, id) => held[s][id] <= errors)

Accounted == losses = 0 => \A s \in Sessions : closes[s[1]] = 0 => Account(s)

\* The steps of a caller keep the counts of the map.
LEMMA CallerCounted ==
    ASSUME TypeOK, DedicatedConn, Counted, NEW p \in Callers, CallerStep(p)
    PROVE  Counted'
<1> DEFINE i == InstanceOf[p]
<1>0. i \in Instances /\ key[p] \in Keys
  BY CallersAssumption DEF TypeOK
<1>a. ASSUME UNCHANGED <<locks, key>>, pc[p] # "leader", pc'[p] # "leader",
             \A q \in Callers : q # p => pc'[q] = pc[q]
      PROVE  Counted'
  <2>1. \A j \in Instances, m \in Keys : Leaders(j, m)' = Leaders(j, m)
    BY <1>a DEF Leaders
  <2> QED
    BY <1>a, <2>1 DEF Counted
<1>1. ASSUME NEW k \in Keys, TryAcquire(p, k) PROVE Counted'
  <2>0. /\ pc[p] = "idle" /\ key'[p] = k
        /\ \A q \in Callers : q # p => pc'[q] = pc[q] /\ key'[q] = key[q]
    BY <1>1 DEF TryAcquire, TypeOK
  <2>1. \A j \in Instances, m \in Keys : j # i \/ m # k =>
           Leaders(j, m)' = Leaders(j, m) /\ locks'[j][m] = locks[j][m]
    BY <1>1, <2>0, TryAcquireLocks DEF Leaders
  <2>2. CASE locks[i][k] = None
    <3>1. UNCHANGED locks
      BY <1>1, <2>2 DEF TryAcquire
    <3> QED
      BY <2>1, <2>2, <3>1 DEF Counted
  <2>3. CASE locks[i][k] # None
    <3>1. pc'[p] = "leader"
      BY <1>1, <2>3 DEF TryAcquire, TypeOK
    <3>2. Leaders(i, k)' = Leaders(i, k) \cup {p} /\ p \notin Leaders(i, k)
      BY <2>0, <3>1 DEF Leaders
    <3>3. Cardinality(Leaders(i, k)') = Cardinality(Leaders(i, k)) + 1
      BY <3>2, LeadersFinite, FS_AddElement
    <3>4. /\ locks'[i][k].refCount = locks[i][k].refCount + 1
          /\ locks[i][k].refCount \in Nat /\ locks[i][k].refCount >= 1
          /\ locks[i][k].refCount <= Cardinality(Leaders(i, k))
      BY <1>0, <1>1, <2>3, TryAcquireLocks DEF Counted, TypeOK, Entry
    <3>5. /\ locks'[i][k].refCount >= 1
          /\ locks'[i][k].refCount <= Cardinality(Leaders(i, k)')
      BY <3>3, <3>4, LeadersFinite
    <3> QED
      BY <2>1, <3>5 DEF Counted
  <2> QED
    BY <2>2, <2>3
<1>2. CASE Dial(p)
  BY <1>2, <1>a DEF Dial, TypeOK
<1>3. CASE DialFails(p)
  BY <1>3, <1>a DEF DialFails, TypeOK
<1>4. CASE LockQuery(p)
  BY <1>4, <1>a DEF LockQuery, TypeOK
<1>5. CASE LockQueryFails(p)
  BY <1>5, <1>a DEF LockQueryFails, TypeOK
<1>6. CASE Store(p)
  <2> DEFINE k == key[p]
  <2>0. /\ pc[p] = "store" /\ UNCHANGED key /\ pc'[p] = "leader"
        /\ \A q \in Callers : q # p => pc'[q] = pc[q]
    BY <1>6 DEF Store, TypeOK
  <2>1. /\ locks'[i][k] = [conn |-> conn[p], refCount |-> 1]
        /\ \A j \in Instances, m \in Keys : j # i \/ m # k => locks'[j][m] = locks[j][m]
    BY <1>0, <1>6 DEF Store, TypeOK
  <2>2. \A j \in Instances, m \in Keys : j # i \/ m # k => Leaders(j, m)' = Leaders(j, m)
    BY <2>0 DEF Leaders
  <2>3. p \in Leaders(i, k)' /\ Leaders(i, k)' = Leaders(i, k) \cup {p}
    BY <2>0 DEF Leaders
  <2>4. Cardinality(Leaders(i, k)') >= 1
    <3> DEFINE S == Leaders(i, k)'
    <3>1. IsFiniteSet(S) /\ S # {}
      BY <2>3, LeadersFinite, FS_AddElement
    <3> HIDE DEF S
    <3>2. Cardinality(S) \in Nat /\ Cardinality(S) # 0
      BY <3>1, FS_CardinalityType, FS_EmptySet
    <3> QED
      BY <3>2 DEF S
  <2>5. locks'[i][k].refCount = 1
    BY <2>1
  <2>6. ASSUME NEW j \in Instances, NEW m \in Keys, locks'[j][m] # None
        PROVE  locks'[j][m].refCount >= 1 /\ locks'[j][m].refCount <= Cardinality(Leaders(j, m)')
    <3>1. CASE j = i /\ m = k
      BY <2>0, <2>4, <2>5, <2>6, <3>1
    <3>2. CASE j # i \/ m # k
      BY <2>1, <2>2, <2>6, <3>2 DEF Counted
    <3> QED
      BY <3>1, <3>2
  <2> QED
    BY <2>6 DEF Counted
<1>7. CASE Release(p)
  <2> DEFINE k == key[p]
  <2>0. /\ pc[p] = "leader" /\ UNCHANGED key /\ pc'[p] # "leader"
        /\ \A q \in Callers : q # p => pc'[q] = pc[q]
    BY <1>7 DEF Release, TypeOK
  <2>1. \A j \in Instances, m \in Keys : j # i \/ m # k =>
           Leaders(j, m)' = Leaders(j, m) /\ locks'[j][m] = locks[j][m]
    BY <1>7, <2>0, ReleaseLocks DEF Leaders
  <2>2. p \in Leaders(i, k) /\ Leaders(i, k)' = Leaders(i, k) \ {p}
    BY <2>0 DEF Leaders
  <2>3. Cardinality(Leaders(i, k)') = Cardinality(Leaders(i, k)) - 1
    BY <2>2, LeadersFinite, FS_RemoveElement
  <2>4. locks'[i][k] # None => /\ locks[i][k] # None /\ locks[i][k].refCount > 1
                               /\ locks'[i][k].refCount = locks[i][k].refCount - 1
    <3>1. CASE locks[i][k] = None
      BY <1>7, <3>1 DEF Release
    <3>2. CASE locks[i][k] # None /\ locks[i][k].refCount <= 1
      <4>1. locks[i][k].refCount \in Nat
        BY <1>0, <3>2 DEF TypeOK, Entry
      <4>2. locks' = [locks EXCEPT ![i][k] = None]
        BY <1>7, <3>2, <4>1 DEF Release
      <4> QED
        BY <1>0, <4>2 DEF TypeOK
    <3>3. CASE locks[i][k] # None /\ ~(locks[i][k].refCount <= 1)
      <4>1. locks[i][k].refCount \in Nat
        BY <1>0, <3>3 DEF TypeOK, Entry
      <4>2. locks[i][k].refCount > 1
        BY <3>3, <4>1
      <4> QED
        BY <1>7, <3>3, <4>2, ReleaseLocks
    <3> QED
      BY <3>1, <3>2, <3>3
  <2>5. locks'[i][k] # None => /\ locks'[i][k].refCount >= 1
                               /\ locks'[i][k].refCount <= Cardinality(Leaders(i, k)')
    <3> SUFFICES ASSUME locks'[i][k] # None
                 PROVE  /\ locks'[i][k].refCount >= 1
                        /\ locks'[i][k].refCount <= Cardinality(Leaders(i, k)')
      OBVIOUS
    <3>1. locks[i][k].refCount \in Nat /\ locks[i][k].refCount <= Cardinality(Leaders(i, k))
      BY <1>0, <2>4 DEF Counted, TypeOK, Entry
    <3> QED
      BY <2>3, <2>4, <3>1, LeadersFinite
  <2>6. ASSUME NEW j \in Instances, NEW m \in Keys, locks'[j][m] # None
        PROVE  locks'[j][m].refCount >= 1 /\ locks'[j][m].refCount <= Cardinality(Leaders(j, m)')
    <3>1. CASE j = i /\ m = k
      BY <2>0, <2>5, <2>6, <3>1
    <3>2. CASE j # i \/ m # k
      BY <2>1, <2>6, <3>2 DEF Counted
    <3> QED
      BY <3>1, <3>2
  <2> QED
    BY <2>6 DEF Counted
<1>8. CASE Unlock(p)
  BY <1>8, <1>a DEF Unlock, TypeOK
<1> QED
  BY <1>1, <1>2, <1>3, <1>4, <1>5, <1>6, <1>7, <1>8 DEF CallerStep

\* So does every step, and Close owns nothing before it was called.
LEMMA CountedStep ==
    ASSUME TypeOK, DedicatedConn, Counted, NotClosing, [Next]_vars
    PROVE  Counted' /\ NotClosing'
<1>a. ASSUME UNCHANGED <<pc, key>>,
             \A j \in Instances, m \in Keys : locks'[j][m] # None => locks'[j][m] = locks[j][m]
      PROVE  Counted'
  BY <1>a DEF Counted, Leaders
<1>1. ASSUME NEW p \in Callers, CallerStep(p) PROVE Counted' /\ NotClosing'
  <2>1. UNCHANGED <<closes, closing, closeAt>>
    BY <1>1 DEF CallerStep, TryAcquire, Dial, DialFails, LockQuery, LockQueryFails, Store,
                Release, Unlock, closeVars
  <2> QED
    BY <1>1, <2>1, CallerCounted DEF NotClosing
<1>2. ASSUME NEW i \in Instances, CloseStep(i) PROVE Counted' /\ NotClosing'
  <2>1. UNCHANGED <<pc, key>>
    BY <1>2 DEF CloseStep, CloseSwap, CloseUnlock, CloseReturnConn, CloseCtxDone, callerVars
  <2>2. \A j \in Instances, m \in Keys : locks'[j][m] # None => locks'[j][m] = locks[j][m]
    <3>1. CASE locks' = [locks EXCEPT ![i] = [k \in Keys |-> None]]
      BY <3>1 DEF TypeOK
    <3>2. CASE locks' = locks
      BY <3>2
    <3> QED
      BY <1>2, <3>1, <3>2
      DEF CloseStep, CloseSwap, CloseUnlock, CloseReturnConn, CloseCtxDone
  <2>3. CASE CloseSwap(i)
    <3>1. /\ closes'[i] # 0
          /\ \A j \in Instances : j # i =>
                closes'[j] = closes[j] /\ closing'[j] = closing[j] /\ closeAt'[j] = closeAt[j]
      BY <2>3 DEF CloseSwap, TypeOK
    <3> QED
      BY <1>a, <2>1, <2>2, <3>1 DEF NotClosing
  <2>4. CASE ~CloseSwap(i)
    <3>1. closes[i] # 0 /\ closes' = closes
      BY <1>2, <2>4
      DEF CloseStep, CloseUnlock, CloseReturnConn, CloseCtxDone, NotClosing, faultVars
    <3>2. \A j \in Instances : j # i => closing'[j] = closing[j] /\ closeAt'[j] = closeAt[j]
      BY <1>2, <2>4 DEF CloseStep, CloseUnlock, CloseReturnConn, CloseCtxDone, TypeOK
    <3> QED
      BY <1>a, <2>1, <2>2, <3>1, <3>2 DEF NotClosing
  <2> QED
    BY <2>3, <2>4
<1>3. ASSUME NEW s \in Sessions, SessionLost(s) PROVE Counted' /\ NotClosing'
  BY <1>3, <1>a DEF SessionLost, callerVars, closeVars, NotClosing
<1>4. CASE UNCHANGED vars
  BY <1>4, <1>a DEF vars, callerVars, closeVars, NotClosing
<1> QED
  BY <1>1, <1>2, <1>3, <1>4 DEF Next

\* A step that concerns the connection c keeps the account of every other one.
LEMMA AccountFrame ==
    ASSUME TypeOK, TypeOK', Accounted, NEW c,
           losses' = 0 => losses = 0, errors <= errors',
           \A j \in Instances : closes'[j] = 0 => closes[j] = 0,
           \A q \in Owning : conn[q] # c =>
              q \in Owning' /\ pc'[q] = pc[q] /\ conn'[q] = conn[q] /\ key'[q] = key[q],
           \A j \in Instances, m \in Keys :
              closes'[j] = 0 /\ locks[j][m] # None /\ locks[j][m].conn # c =>
                 locks'[j][m] # None /\ locks'[j][m].conn = locks[j][m].conn,
           \A s \in Sessions : s # c => sess'[s] = sess[s] /\ held'[s] = held[s],
           losses' = 0 /\ c \in Sessions /\ closes'[c[1]] = 0 => Account(c)'
    PROVE  Accounted'
<1> SUFFICES ASSUME losses' = 0, NEW s \in Sessions, closes'[s[1]] = 0
             PROVE  Account(s)'
  BY DEF Accounted
<1>1. CASE s = c
  BY <1>1 DEF Account, Owned, Granted
<1>2. CASE s # c
  <2>1. s[1] \in Instances /\ Account(s) /\ sess'[s] = sess[s] /\ held'[s] = held[s]
    BY <1>2 DEF Accounted, Sessions
  <2>2. Owned(s) => Owned(s)'
    BY <1>2, <2>1 DEF Owned
  <2>3. \A id \in Ids : Granted(s, id) => Granted(s, id)'
    BY <1>2, <2>1 DEF Granted
  <2>4. /\ errors \in Nat /\ errors' \in Nat /\ \A id \in Ids : held[s][id] \in Nat
    BY DEF TypeOK
  <2>5. ASSUME NEW id \in Ids
        PROVE  held'[s][id] <= errors' + 1 /\ (~Granted(s, id)' => held'[s][id] <= errors')
    <3>1. held[s][id] <= errors + 1 /\ (~Granted(s, id) => held[s][id] <= errors)
      BY <2>1 DEF Account
    <3>2. held[s][id] <= errors' + 1 /\ (held[s][id] <= errors => held[s][id] <= errors')
      BY <2>4, <3>1
    <3> QED
      BY <2>1, <2>3, <3>1, <3>2
  <2>6. sess'[s] # "idle" => Owned(s)'
    BY <2>1, <2>2 DEF Account
  <2> QED
    BY <2>5, <2>6 DEF Account
<1> QED
  BY <1>1, <1>2

\* The connection of a running call: what it answers for is that call's.
LEMMA CallAccount ==
    ASSUME TypeOK, DedicatedConn, NEW p \in Owning
    PROVE  /\ conn[p] \in Sessions /\ p \in Callers /\ conn[p][1] = InstanceOf[p]
           /\ \A id \in Ids : Granted(conn[p], id) => pc[p] # "query" /\ id = HashKey[key[p]]
<1>1. /\ p \in Callers /\ conn[p] \in PoolOf(p) /\ InstanceOf[p] \in Instances
      /\ \A q \in Owning : conn[q] = conn[p] => q = p
  BY CallersAssumption DEF DedicatedConn, CallConns, Owning
<1>2. conn[p] \in Sessions /\ conn[p][1] = InstanceOf[p]
  BY <1>1 DEF PoolOf, Sessions
<1>3. \A k \in Keys : locks[conn[p][1]][k] # None => locks[conn[p][1]][k].conn # conn[p]
  BY <1>1, <1>2 DEF DedicatedConn, EntryConns
<1> QED
  BY <1>1, <1>2, <1>3 DEF Granted

\* The steps of a caller keep the accounts.
LEMMA CallerAccounted ==
    ASSUME IInv, IInv', Accounted, losses = 0, losses' = 0, NEW p \in Callers, CallerStep(p)
    PROVE  Accounted'
<1> DEFINE i == InstanceOf[p]
<1>c. PICK c, id : c = conn[p] /\ id = HashKey[key[p]]
  OBVIOUS
<1>0. /\ i \in Instances /\ key[p] \in Keys /\ id \in Ids
      /\ TypeOK /\ TypeOK' /\ DedicatedConn /\ DedicatedConn'
      /\ errors \in Nat /\ errors' \in Nat /\ \A s \in Sessions, x \in Ids : held[s][x] \in Nat
  BY <1>c, CallersAssumption, KeyId DEF IInv, TypeOK
<1>1. ASSUME NEW k \in Keys, TryAcquire(p, k) PROVE Accounted'
  <2>1. /\ pc[p] = "idle" /\ UNCHANGED <<conn, sess, held, closes, errors>>
        /\ \A q \in Callers : q # p => pc'[q] = pc[q] /\ key'[q] = key[q]
    BY <1>0, <1>1 DEF TryAcquire, closeVars, faultVars, TypeOK
  <2>2. \A q \in Owning : q \in Owning' /\ pc'[q] = pc[q] /\ key'[q] = key[q]
    BY <2>1 DEF Owning
  <2>3. \A j \in Instances, m \in Keys : locks[j][m] # None =>
           locks'[j][m] # None /\ locks'[j][m].conn = locks[j][m].conn
    BY <1>0, <1>1, TryAcquireLocks
  <2> QED
    BY <1>0, <2>1, <2>2, <2>3, NoneAssumption, AccountFrame
<1>2. CASE Dial(p)
  <2>1. PICK s \in PoolOf(p) : /\ sess[s] = "idle" /\ sess' = [sess EXCEPT ![s] = "used"]
                               /\ conn' = [conn EXCEPT ![p] = s]
    BY <1>2 DEF Dial
  <2>2. /\ pc[p] = "dial" /\ pc'[p] = "query" /\ conn'[p] = s
        /\ UNCHANGED <<locks, key, held, closes, errors>>
        /\ \A q \in Callers : q # p => pc'[q] = pc[q] /\ conn'[q] = conn[q]
    BY <1>0, <1>2, <2>1 DEF Dial, closeVars, faultVars, TypeOK
  <2>3. /\ s \in Sessions /\ \A t \in Sessions : t # s => sess'[t] = sess[t]
    BY <1>0, <2>1 DEF PoolOf, Sessions, TypeOK
  <2>4. \A q \in Owning : q \in Owning' /\ pc'[q] = pc[q] /\ conn'[q] = conn[q]
    BY <2>2 DEF Owning
  <2>5. closes'[s[1]] = 0 => Account(s)'
    <3> SUFFICES ASSUME closes'[s[1]] = 0 PROVE Account(s)'
      OBVIOUS
    <3>1. p \in Owning'
      BY <2>2 DEF Owning
    <3>2. Owned(s)'
      BY <2>2, <3>1 DEF Owned
    <3>3. Account(s)
      BY <2>2, <2>3 DEF Accounted
    <3>4. \A x \in Ids : ~Granted(s, x)
      <4>1. \A q \in Owning : conn[q] # s
        BY <1>0, <2>1 DEF DedicatedConn, CallConns
      <4>2. s[1] \in Instances
        BY <2>3 DEF Sessions
      <4>3. \A k \in Keys : locks[s[1]][k] # None => locks[s[1]][k].conn # s
        BY <1>0, <2>1, <4>2 DEF DedicatedConn, EntryConns
      <4> QED
        BY <4>1, <4>3 DEF Granted
    <3>5. \A x \in Ids : held'[s][x] <= errors' /\ held'[s][x] <= errors' + 1
      BY <1>0, <2>2, <2>3, <3>3, <3>4 DEF Account
    <3> QED
      BY <3>2, <3>5 DEF Account
  <2> QED
    BY <1>0, <2>2, <2>3, <2>4, <2>5, AccountFrame
<1>3. CASE DialFails(p)
  BY <1>0, <1>3 DEF DialFails
\* A call gives its connection back.
<1>a. ASSUME p \in Owning, CloseConn(c), pc'[p] = "idle", UNCHANGED <<locks, key, closes>>,
             \A q \in Callers : q # p => pc'[q] = pc[q] /\ conn'[q] = conn[q],
             \A t \in Sessions : t # c => held'[t] = held[t],
             errors <= errors',
             closes[c[1]] = 0 => \A x \in Ids : held'[c][x] <= errors'
      PROVE  Accounted'
  <2>1. c \in Sessions /\ \A t \in Sessions : sess'[t] = IF t = c THEN "idle" ELSE sess[t]
    BY <1>0, <1>a, <1>c, CallAccount DEF CloseConn, TypeOK
  <2>2. \A q \in Owning : conn[q] # c => q \in Owning' /\ pc'[q] = pc[q] /\ conn'[q] = conn[q]
    BY <1>a, <1>c DEF Owning
  <2>3. closes'[c[1]] = 0 => Account(c)'
    <3> SUFFICES ASSUME closes'[c[1]] = 0 PROVE Account(c)'
      OBVIOUS
    <3>1. \A x \in Ids : held'[c][x] <= errors' /\ held'[c][x] \in Nat
      BY <1>0, <1>a, <2>1 DEF TypeOK
    <3>2. \A x \in Ids : held'[c][x] <= errors' + 1
      BY <1>0, <3>1
    <3> QED
      BY <2>1, <3>1, <3>2 DEF Account
  <2> QED
    BY <1>0, <1>a, <2>1, <2>2, <2>3, AccountFrame
\* What the account of p's connection says before its step.
<1>b. ASSUME p \in Owning, closes[c[1]] = 0
      PROVE  /\ \A x \in Ids : (pc[p] = "query" \/ x # id) => held[c][x] <= errors
             /\ held[c][id] <= errors + 1
  <2>1. c \in Sessions /\ \A x \in Ids : Granted(c, x) => pc[p] # "query" /\ x = id
    BY <1>0, <1>b, <1>c, CallAccount
  <2> QED
    BY <1>0, <1>b, <2>1 DEF Accounted, Account
<1>4. CASE LockQuery(p)
  <2>1. p \in Owning /\ pc[p] = "query" /\ UNCHANGED <<locks, key, closes, errors>>
    BY <1>4 DEF LockQuery, Owning, closeVars, faultVars
  <2>2. CASE ~Free(c, id)
    <3>1. /\ CloseConn(c) /\ pc'[p] = "idle" /\ UNCHANGED held
          /\ \A q \in Callers : q # p => pc'[q] = pc[q] /\ conn'[q] = conn[q]
      BY <1>0, <1>4, <1>c, <2>2 DEF LockQuery, TypeOK
    <3>2. closes[c[1]] = 0 => \A x \in Ids : held'[c][x] <= errors'
      BY <1>b, <2>1, <3>1
    <3> QED
      BY <1>0, <1>a, <2>1, <3>1, <3>2
  <2>3. CASE Free(c, id)
    <3>1. /\ held' = [held EXCEPT ![c][id] = @ + 1] /\ pc'[p] = "store" /\ UNCHANGED <<conn, sess>>
          /\ \A q \in Callers : q # p => pc'[q] = pc[q]
      BY <1>0, <1>4, <1>c, <2>3 DEF LockQuery, TypeOK
    <3>2. c \in Sessions
      BY <1>0, <1>c, <2>1, CallAccount
    <3>3. /\ \A t \in Sessions : t # c => held'[t] = held[t]
          /\ \A x \in Ids : held'[c][x] = IF x = id THEN held[c][x] + 1 ELSE held[c][x]
      BY <1>0, <3>1, <3>2 DEF TypeOK
    <3>4. p \in Owning' /\ \A q \in Owning : conn[q] # c => q \in Owning' /\ pc'[q] = pc[q]
      BY <1>c, <3>1 DEF Owning
    <3>5. closes'[c[1]] = 0 => Account(c)'
      <4> SUFFICES ASSUME closes'[c[1]] = 0 PROVE Account(c)'
        OBVIOUS
      <4>1. Owned(c)'
        BY <1>c, <3>1, <3>4 DEF Owned
      <4>2. Granted(c, id)'
        BY <1>c, <2>1, <3>1, <3>4 DEF Granted
      <4>3. \A x \in Ids : held[c][x] <= errors
        BY <1>b, <2>1
      <4>4. \A x \in Ids : held'[c][x] <= errors' + 1 /\ (x # id => held'[c][x] <= errors')
        BY <1>0, <2>1, <3>2, <3>3, <4>3
      <4>5. \A x \in Ids : ~Granted(c, x)' => x # id
        BY <4>2
      <4> QED
        BY <4>1, <4>4, <4>5 DEF Account
    <3> QED
      BY <1>0, <2>1, <3>1, <3>3, <3>4, <3>5, AccountFrame
  <2> QED
    BY <2>2, <2>3
<1>5. CASE LockQueryFails(p)
  <2>1. /\ p \in Owning /\ pc[p] = "query" /\ CloseConn(c) /\ pc'[p] = "idle"
        /\ UNCHANGED <<locks, key, closes, held>>
        /\ \A q \in Callers : q # p => pc'[q] = pc[q] /\ conn'[q] = conn[q]
    BY <1>0, <1>5, <1>c DEF LockQueryFails, Owning, closeVars, TypeOK
  <2>2. errors <= errors'
    BY <1>0, <1>5 DEF LockQueryFails, QueryFails
  <2>3. c \in Sessions
    BY <1>0, <1>c, <2>1, CallAccount
  <2>4. closes[c[1]] = 0 => \A x \in Ids : held'[c][x] <= errors'
    <3> SUFFICES ASSUME closes[c[1]] = 0, NEW x \in Ids PROVE held[c][x] <= errors'
      BY <2>1
    <3>1. held[c][x] <= errors /\ held[c][x] \in Nat
      BY <1>0, <1>b, <2>1, <2>3
    <3> QED
      BY <1>0, <2>2, <3>1
  <2> QED
    BY <1>0, <1>a, <2>1, <2>2, <2>4
<1>6. CASE Store(p)
  <2>1. /\ p \in Owning /\ pc[p] = "store" /\ UNCHANGED <<key, closes, held, sess, errors>>
        /\ \A q \in Callers : q # p => pc'[q] = pc[q] /\ conn'[q] = conn[q]
    BY <1>0, <1>6 DEF Store, Owning, closeVars, faultVars, TypeOK
  <2>2. c \in Sessions /\ c[1] = i /\ \A x \in Ids : Granted(c, x) => x = id
    BY <1>0, <1>c, <2>1, CallAccount
  <2>3. /\ locks'[i][key[p]] = [conn |-> c, refCount |-> 1]
        /\ \A j \in Instances, m \in Keys : j # i \/ m # key[p] => locks'[j][m] = locks[j][m]
    BY <1>0, <1>6, <1>c DEF Store, TypeOK
  <2>4. locks[i][key[p]] = None
    BY <2>1, StoreIsFresh DEF IInv
  <2>5. locks'[i][key[p]] # None /\ locks'[i][key[p]].conn = c
    <3>1. locks'[i][key[p]] \in Entry
      BY <2>2, <2>3 DEF Entry
    <3> QED
      BY <2>3, <3>1, NoneAssumption
  <2>6. \A q \in Owning : conn[q] # c => q \in Owning' /\ pc'[q] = pc[q] /\ conn'[q] = conn[q]
    BY <1>c, <2>1 DEF Owning
  <2>7. closes'[c[1]] = 0 => Account(c)'
    <3> SUFFICES ASSUME closes'[c[1]] = 0 PROVE Account(c)'
      OBVIOUS
    <3>1. Owned(c)'
      BY <1>0, <2>2, <2>5 DEF Owned
    <3>2. Granted(c, id)'
      BY <1>0, <1>c, <2>2, <2>5 DEF Granted
    <3>3. \A x \in Ids : held[c][x] <= errors + 1 /\ (x # id => held[c][x] <= errors)
      BY <2>1, <2>2 DEF Accounted, Account
    <3>4. \A x \in Ids : ~Granted(c, x)' => x # id
      BY <3>2
    <3> QED
      BY <2>1, <3>1, <3>3, <3>4 DEF Account
  <2>8. \A j \in Instances, m \in Keys : locks[j][m] # None =>
           locks'[j][m] # None /\ locks'[j][m].conn = locks[j][m].conn
    BY <2>3, <2>4
  <2> QED
    BY <1>0, <2>1, <2>6, <2>7, <2>8, AccountFrame
<1>7. CASE Release(p)
  <2> DEFINE e == locks[i][key[p]]
  <2>1. pc[p] = "leader" /\ UNCHANGED <<key, closes, held, sess, errors>>
    BY <1>7 DEF Release, closeVars, faultVars
  <2>2. CASE e # None /\ e.refCount <= 1
    <3>0. e.refCount \in Nat
      BY <1>0, <2>2 DEF TypeOK, Entry
    <3>1. PICK s : s = e.conn
      OBVIOUS
    <3>2. /\ locks' = [locks EXCEPT ![i][key[p]] = None] /\ pc'[p] = "unlock" /\ conn'[p] = s
          /\ \A q \in Callers : q # p => pc'[q] = pc[q] /\ conn'[q] = conn[q]
      BY <1>0, <1>7, <2>2, <3>0, <3>1 DEF Release, TypeOK
    <3>3. /\ s \in Sessions /\ s[1] = i /\ \A q \in Owning : conn[q] # s
          /\ \A m \in Keys : locks[i][m] # None /\ locks[i][m].conn = s => m = key[p]
      BY <1>0, <2>2, <3>1 DEF DedicatedConn, EntryConns, Sessions
    <3>4. \A x \in Ids : Granted(s, x) => x = id
      BY <1>c, <3>3 DEF Granted
    <3>5. p \in Owning' /\ \A q \in Owning : q \in Owning' /\ pc'[q] = pc[q] /\ conn'[q] = conn[q]
      BY <2>1, <3>2 DEF Owning
    <3>6. closes'[s[1]] = 0 => Account(s)'
      <4> SUFFICES ASSUME closes'[s[1]] = 0 PROVE Account(s)'
        OBVIOUS
      <4>1. Owned(s)'
        BY <3>2, <3>5 DEF Owned
      <4>2. Granted(s, id)'
        BY <1>c, <2>1, <3>2, <3>5 DEF Granted
      <4>3. \A x \in Ids : held[s][x] <= errors + 1 /\ (x # id => held[s][x] <= errors)
        BY <2>1, <3>3, <3>4 DEF Accounted, Account
      <4>4. \A x \in Ids : ~Granted(s, x)' => x # id
        BY <4>2
      <4> QED
        BY <2>1, <4>1, <4>3, <4>4 DEF Account
    <3>7. \A j \in Instances, m \in Keys : locks[j][m] # None /\ locks[j][m].conn # s =>
             locks'[j][m] = locks[j][m]
      BY <1>0, <3>1, <3>2 DEF TypeOK
    <3> QED
      BY <1>0, <2>1, <3>5, <3>6, <3>7, AccountFrame
  <2>3. CASE ~(e # None /\ e.refCount <= 1)
    <3>1. /\ UNCHANGED conn /\ \A q \in Callers : q # p => pc'[q] = pc[q]
          /\ \A j \in Instances, m \in Keys : locks[j][m] # None => locks'[j][m] # None
      <4>1. CASE e = None
        BY <1>0, <1>7, <4>1 DEF Release, TypeOK
      <4>2. CASE e # None
        <5>1. e.refCount \in Nat
          BY <1>0, <4>2 DEF TypeOK, Entry
        <5>2. /\ UNCHANGED conn /\ \A q \in Callers : q # p => pc'[q] = pc[q]
          BY <1>0, <1>7, <2>3, <4>2, <5>1 DEF Release, TypeOK
        <5>3. ~(e.refCount <= 1)
          BY <2>3, <4>2
        <5>4. locks'[i][key[p]] # None
          BY <1>0, <1>7, <4>2, <5>3, ReleaseLocks
        <5> QED
          BY <1>0, <1>7, <5>2, <5>4, ReleaseLocks
      <4> QED
        BY <4>1, <4>2
    <3>2. \A j \in Instances, m \in Keys : locks[j][m] # None =>
             locks'[j][m] # None /\ locks'[j][m].conn = locks[j][m].conn
      BY <1>0, <1>7, <3>1, ReleaseLocks
    <3>3. \A q \in Owning : q \in Owning' /\ pc'[q] = pc[q]
      BY <2>1, <3>1 DEF Owning
    <3> QED
      BY <1>0, <2>1, <3>1, <3>2, <3>3, NoneAssumption, AccountFrame
  <2> QED
    BY <2>2, <2>3
<1>8. CASE Unlock(p)
  <2>1. /\ p \in Owning /\ CloseConn(c) /\ pc'[p] = "idle" /\ UNCHANGED <<locks, key, closes>>
        /\ \A q \in Callers : q # p => pc'[q] = pc[q] /\ conn'[q] = conn[q]
    BY <1>0, <1>8, <1>c DEF Unlock, Owning, closeVars, TypeOK
  <2>2. c \in Sessions /\ sess[c] # "lost"
    BY <1>0, <1>c, <2>1, CallAccount DEF IInv, NoLoss
  <2>3. CASE AdvisoryUnlock(c, id) /\ UNCHANGED errors
    <3>1. held' = [held EXCEPT ![c][id] = IF @ > 0 THEN @ - 1 ELSE 0]
      BY <2>3 DEF AdvisoryUnlock
    <3>2. /\ \A t \in Sessions : t # c => held'[t] = held[t]
          /\ \A x \in Ids : x # id => held'[c][x] = held[c][x]
          /\ held'[c][id] = IF held[c][id] > 0 THEN held[c][id] - 1 ELSE 0
      BY <1>0, <2>2, <3>1 DEF TypeOK
    <3>3. closes[c[1]] = 0 => \A x \in Ids : held'[c][x] <= errors'
      <4> SUFFICES ASSUME closes[c[1]] = 0, NEW x \in Ids PROVE held'[c][x] <= errors
        BY <2>3
      <4>1. CASE x = id
        <5>1. held[c][id] <= errors + 1 /\ held[c][id] \in Nat
          BY <1>0, <1>b, <2>1, <2>2
        <5> QED
          BY <1>0, <3>2, <4>1, <5>1
      <4>2. CASE x # id
        BY <1>b, <2>1, <3>2, <4>2
      <4> QED
        BY <4>1, <4>2
    <3> QED
      BY <1>0, <1>a, <2>1, <2>3, <3>2, <3>3
  <2>4. CASE QueryFails(c) /\ UNCHANGED held
    <3>1. errors' = errors + 1
      BY <2>2, <2>4 DEF QueryFails
    <3>2. closes[c[1]] = 0 => \A x \in Ids : held'[c][x] <= errors'
      <4> SUFFICES ASSUME closes[c[1]] = 0, NEW x \in Ids PROVE held[c][x] <= errors + 1
        BY <2>4, <3>1
      <4>1. held[c][x] \in Nat /\ (held[c][x] <= errors \/ held[c][x] <= errors + 1)
        BY <1>0, <1>b, <2>1, <2>2
      <4> QED
        BY <1>0, <4>1
    <3>3. errors <= errors'
      BY <1>0, <3>1
    <3> QED
      BY <1>0, <1>a, <2>1, <2>4, <3>2, <3>3
  <2> QED
    BY <1>8, <1>c, <2>3, <2>4 DEF Unlock
<1> QED
  BY <1>1, <1>2, <1>3, <1>4, <1>5, <1>6, <1>7, <1>8 DEF CallerStep

\* The steps of Close concern connections of an elector that was closed.
LEMMA CloseAccounted ==
    ASSUME IInv, IInv', Accounted, NotClosing, losses = 0, losses' = 0,
           NEW i \in Instances, CloseStep(i)
    PROVE  Accounted'
<1>0. /\ TypeOK /\ TypeOK' /\ DedicatedConn /\ UNCHANGED <<pc, key, conn>>
      /\ errors \in Nat /\ errors' \in Nat
  BY DEF IInv, TypeOK, CloseStep, CloseSwap, CloseUnlock, CloseReturnConn, CloseCtxDone, callerVars
<1>1. \A q \in Owning : q \in Owning' /\ pc'[q] = pc[q] /\ conn'[q] = conn[q] /\ key'[q] = key[q]
  BY <1>0 DEF Owning
<1>2. CASE CloseSwap(i)
  <2>1. /\ closes'[i] # 0 /\ UNCHANGED <<sess, held, errors>>
        /\ \A j \in Instances : j # i => closes'[j] = closes[j] /\ locks'[j] = locks[j]
    BY <1>0, <1>2 DEF CloseSwap, faultVars, TypeOK
  <2> QED
    BY <1>0, <1>1, <2>1, NoneAssumption, AccountFrame
<1>3. CASE CloseUnlock(i)
  <2>1. PICK e \in closing[i] :
           \/ AdvisoryUnlock(e[1], e[2]) /\ UNCHANGED <<sess, errors>>
           \/ /\ UNCHANGED errors \/ QueryFails(e[1])
              /\ CloseConn(e[1]) /\ UNCHANGED held
    BY <1>3 DEF CloseUnlock
  <2>2. e[1] \in Sessions /\ e[2] \in Ids /\ e[1][1] = i /\ closes[i] # 0
    BY <1>0 DEF DedicatedConn, ClosingConns, NotClosing, TypeOK, Sessions
  <2>3. UNCHANGED <<locks, closes>>
    BY <1>3 DEF CloseUnlock
  <2>4. \A t \in Sessions : t # e[1] => sess'[t] = sess[t] /\ held'[t] = held[t]
    BY <1>0, <2>1, <2>2 DEF AdvisoryUnlock, CloseConn, TypeOK
  <2>5. errors <= errors'
    BY <1>0, <2>1 DEF QueryFails
  <2> QED
    BY <1>0, <1>1, <2>2, <2>3, <2>4, <2>5, AccountFrame
<1>4. CASE CloseReturnConn(i)
  <2>1. PICK c : c = closeAt[i]
    OBVIOUS
  <2>2. c \in Sessions /\ c[1] = i /\ closes[i] # 0
    BY <1>0, <1>4, <2>1 DEF CloseReturnConn, DedicatedConn, RowConns, NotClosing, Sessions
  <2>3. UNCHANGED <<locks, closes, held, errors>>
    BY <1>4 DEF CloseReturnConn, faultVars
  <2>4. \A t \in Sessions : t # c => sess'[t] = sess[t]
    BY <1>0, <1>4, <2>1 DEF CloseReturnConn, CloseConn, TypeOK
  <2> QED
    BY <1>0, <1>1, <2>2, <2>3, <2>4, AccountFrame
<1>5. CASE CloseCtxDone(i)
  <2>1. UNCHANGED <<locks, closes, held, sess, errors>>
    BY <1>5 DEF CloseCtxDone, faultVars
  <2> QED
    BY <1>0, <1>1, <2>1, NoneAssumption, AccountFrame
<1> QED
  BY <1>2, <1>3, <1>4, <1>5 DEF CloseStep

\* The accounts are kept by every step.
LEMMA AccountedStep ==
    ASSUME IInv, IInv', Accounted, NotClosing, [Next]_vars
    PROVE  Accounted'
<1> SUFFICES ASSUME losses' = 0 PROVE Accounted'
  BY DEF Accounted
<1>0. losses = 0
  BY NoLossStep DEF IInv
<1>1. ASSUME NEW p \in Callers, CallerStep(p) PROVE Accounted'
  BY <1>0, <1>1, CallerAccounted
<1>2. ASSUME NEW i \in Instances, CloseStep(i) PROVE Accounted'
  BY <1>0, <1>2, CloseAccounted
<1>3. ASSUME NEW s \in Sessions, SessionLost(s) PROVE Accounted'
  BY <1>0, <1>3 DEF SessionLost
<1>4. CASE UNCHANGED vars
  <2>1. UNCHANGED <<locks, pc, key, conn, sess, held, closes, errors>> /\ errors \in Nat
    BY <1>4 DEF vars, callerVars, closeVars, faultVars, IInv, TypeOK
  <2>2. \A q \in Owning : q \in Owning'
    BY <2>1 DEF Owning
  <2> QED
    BY <1>0, <2>1, <2>2, NoneAssumption, AccountFrame DEF IInv
<1> QED
  BY <1>1, <1>2, <1>3, <1>4 DEF Next

\* The whole invariant of the electors.
ElectorInv == IInv /\ Counted /\ NotClosing /\ Accounted

LEMMA InitElectorInv == Init => ElectorInv
BY InitIInv DEF Init, ElectorInv, Counted, NotClosing, Accounted, Account, Sessions

LEMMA NextElectorInv == ElectorInv /\ [Next]_vars => ElectorInv'
<1> SUFFICES ASSUME ElectorInv, [Next]_vars PROVE ElectorInv'
  OBVIOUS
<1>1. IInv'
  BY NextIInv DEF ElectorInv
<1>2. Counted' /\ NotClosing'
  BY CountedStep DEF ElectorInv, IInv
<1>3. Accounted'
  BY <1>1, AccountedStep DEF ElectorInv
<1> QED
  BY <1>1, <1>2, <1>3 DEF ElectorInv

\* An elector whose calls have returned remembers no lock.
LEMMA NothingRemembered ==
    ASSUME ElectorInv, NEW i \in Instances,
           \A p \in Callers : InstanceOf[p] = i => pc[p] # "leader"
    PROVE  \A k \in Keys : locks[i][k] = None
<1> SUFFICES ASSUME NEW k \in Keys, locks[i][k] # None PROVE FALSE
  OBVIOUS
<1>1. Leaders(i, k) = {}
  BY DEF Leaders
<1>2. Cardinality(Leaders(i, k)) = 0
  BY <1>1, FS_EmptySet
<1>3. locks[i][k].refCount >= 1 /\ locks[i][k].refCount <= 0 /\ locks[i][k].refCount \in Nat
  BY <1>2 DEF ElectorInv, Counted, IInv, TypeOK, Entry
<1> QED
  BY <1>3

LEMMA QuietReleased == ElectorInv => ReleasedWhenQuiet
<1> SUFFICES ASSUME ElectorInv, NEW i \in Instances, losses = 0,
                    \A p \in Callers : InstanceOf[p] = i => pc[p] = "idle",
                    closes[i] = 0, NEW s \in {i} \X (1..PoolSize)
             PROVE  sess[s] = "idle" /\ \A id \in Ids : held[s][id] <= errors
  BY DEF ReleasedWhenQuiet
<1>1. s \in Sessions /\ s[1] = i
  BY DEF Sessions
<1>2. \A q \in Owning : conn[q] # s
  <2> SUFFICES ASSUME NEW q \in Owning, conn[q] = s PROVE FALSE
    OBVIOUS
  <2>1. q \in Callers /\ conn[q][1] = InstanceOf[q]
    BY CallAccount DEF ElectorInv, IInv
  <2> QED
    BY <1>1, <2>1 DEF Owning
<1>3. \A k \in Keys : locks[i][k] = None
  BY NothingRemembered
<1>4. ~Owned(s) /\ \A id \in Ids : ~Granted(s, id)
  BY <1>1, <1>2, <1>3 DEF Owned, Granted
<1> QED
  BY <1>1, <1>4 DEF ElectorInv, Accounted, Account

\* When the calls of an elector have returned and were released, its pool is
\* complete (pg_leader.go:87-114) and only unlock queries that the server
\* refused have left advisory locks behind.
THEOREM PgLeaderReleasedWhenQuiet == Spec => []ReleasedWhenQuiet
<1>1. Spec => []ElectorInv
  BY InitElectorInv, NextElectorInv, PTL DEF Spec
<1> QED
  BY <1>1, QuietReleased, PTL

\* The invariant survives errors of other users of the same database.
LEMMA OtherErrors ==
    ASSUME ElectorInv, errors' = errors + 1,
           UNCHANGED <<locks, pc, key, conn, sess, held, closing, closeAt, ctxDone, closes, losses>>
    PROVE  ElectorInv'
<1> USE DEF ElectorInv, IInv
<1>1. errors \in Nat /\ errors' \in Nat /\ errors <= errors'
  BY DEF TypeOK
<1>2. TypeOK'
  BY <1>1 DEF TypeOK
<1>3. OneHolder' /\ LiveHolds' /\ NoLoss' /\ Counted' /\ NotClosing'
  BY DEF OneHolder, LiveHolds, NoLoss, Counted, NotClosing, Leaders
<1>4. DedicatedConn'
  BY DEF DedicatedConn, CallConns, EntryConns, ClosingConns, RowConns, Owning, PoolOf
<1>5. RefCount'
  BY OtherRefCount
<1>6. Accounted'
  <2>1. \A q \in Owning : q \in Owning'
    BY DEF Owning
  <2> QED
    BY <1>1, <1>2, <2>1, NoneAssumption, AccountFrame
<1> QED
  BY <1>2, <1>3, <1>4, <1>5, <1>6
=============================================================================
