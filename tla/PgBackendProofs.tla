-------------------------- MODULE PgBackendProofs --------------------------
(* Proofs about PgBackend for any number of workers, queues and jobs and any  *)
(* bounds on crashes, lost answers and retries.                               *)
(*                                                                            *)
(* SingleRunner is not inductive: that the row a Fetch is about to update is  *)
(* still pending and locked by that Fetch (Fetching) has to be carried along, *)
(* and that a worker repeats a report only after an answer was lost (Running).*)
EXTENDS PgBackend, TLAPS

Fetching ==
    \A w \in Workers : state[w] = "fetching" =>
        /\ jobId[w] \in JobIds
        /\ Exists(jobId[w])
        /\ rows[jobId[w]].status = "pending"
        /\ rowLock[jobId[w]] = w

Reporting ==
    \A w \in Workers : state[w] \in {"executing", "retrying"} =>
        jobId[w] \in JobIds /\ jobId[w] < nextId

Running ==
    lostAcks = 0 =>
        \A w \in Workers :
            /\ state[w] # "retrying"
            /\ state[w] = "executing" =>
                  /\ Exists(jobId[w])
                  /\ rows[jobId[w]].status = "running"
                  /\ rows[jobId[w]].lockedBy = w

CompletedRecorded ==
    \A id \in JobIds : Exists(id) /\ rows[id].status = "completed" => id \in completed

Allocated == \A id \in JobIds : Exists(id) => id < nextId

RowInv ==
    AttemptBudget /\ LockedWhileRunning /\ JobsKept /\ CompletedRecorded /\ Allocated

IInv == TypeOK /\ RowInv /\ Fetching /\ Reporting /\ Running

\* What the statements of the backend guarantee of a row they write.
GoodRow(r) ==
    /\ r.attempts <= MaxAttempts
    /\ r.status = "pending" => r.attempts < MaxAttempts
    /\ r.status = "running" <=> r.lockedBy # None
-----------------------------------------------------------------------------
\* Writing one good row (a new one at nextId, or an old one) keeps what holds of
\* the whole table: the shape of every INSERT and UPDATE of pg_backend.go.
LEMMA WriteRow ==
    ASSUME TypeOK, RowInv, NEW id \in JobIds, NEW r \in Row,
           rows' = [rows EXCEPT ![id] = r],
           GoodRow(r),
           completed \subseteq completed',
           r.status = "completed" => id \in completed',
           (nextId' = nextId /\ Exists(id)) \/ (nextId' = nextId + 1 /\ id = nextId)
    PROVE  rows' \in [JobIds -> Row \cup {None}] /\ RowInv'
<1>1. /\ rows \in [JobIds -> Row \cup {None}]
      /\ nextId \in Nat
      /\ JobIds \subseteq Nat
  BY BackendAssumption DEF TypeOK, JobIds
<1>2. rows' \in [JobIds -> Row \cup {None}]
  BY <1>1
<1>3. rows'[id] = r /\ \A x \in JobIds : x # id => rows'[x] = rows[x]
  BY <1>1
<1>4. r # None
  BY NoneAssumption
<1>5. AttemptBudget'
  BY <1>3, <1>4 DEF RowInv, AttemptBudget, Exists, GoodRow
<1>6. LockedWhileRunning'
  BY <1>3, <1>4 DEF RowInv, LockedWhileRunning, Exists, GoodRow
<1>7. JobsKept'
  BY <1>1, <1>3, <1>4 DEF RowInv, JobsKept, Exists
<1>8. CompletedRecorded'
  BY <1>3, <1>4 DEF RowInv, CompletedRecorded, Exists
<1>9. Allocated'
  BY <1>1, <1>3, <1>4 DEF RowInv, Allocated, Exists
<1> QED
  BY <1>2, <1>5, <1>6, <1>7, <1>8, <1>9 DEF RowInv

\* What Complete, Fail and Dead do to the table, whichever is called and in
\* whatever state the row is: nothing, or one good row that nobody runs.
LEMMA ApplyWrites ==
    ASSUME TypeOK, RowInv, NEW id \in JobIds, NEW op, Apply(op, id)
    PROVE  /\ rowLock[id] = None
           /\ completed \subseteq completed'
           /\ completed' \subseteq JobIds
           /\ \/ rows' = rows
              \/ /\ Exists(id)
                 /\ \E r \in Row : /\ rows' = [rows EXCEPT ![id] = r]
                                   /\ GoodRow(r)
                                   /\ r.status = "completed" => id \in completed'
<1>1. /\ now \in Times
      /\ Exists(id) => rows[id] \in Row
      /\ completed \subseteq JobIds
  BY DEF TypeOK, Exists
<1>2. Exists(id) => rows[id].attempts \in Nat /\ rows[id].attempts <= MaxAttempts
  BY <1>1 DEF RowInv, AttemptBudget, Row
<1>3. CASE Complete(id)
  <2>1. Exists(id) => CompleteRow(rows[id]) \in Row /\ GoodRow(CompleteRow(rows[id]))
    BY <1>1, <1>2, BackendAssumption DEF CompleteRow, Row, GoodRow, Statuses
  <2> QED
    BY <1>1, <1>3, <2>1 DEF Complete
<1>4. CASE Fail(id)
  <2>1. Exists(id) => /\ FailRow(rows[id]) \in Row
                      /\ GoodRow(FailRow(rows[id]))
                      /\ FailRow(rows[id]).status # "completed"
    BY <1>1, <1>2, BackendAssumption DEF FailRow, Row, GoodRow, Statuses
  <2> QED
    BY <1>1, <1>4, <2>1 DEF Fail
<1>5. CASE Dead(id)
  <2>1. Exists(id) => /\ DeadRow(rows[id]) \in Row
                      /\ GoodRow(DeadRow(rows[id]))
                      /\ DeadRow(rows[id]).status # "completed"
    BY <1>1, <1>2, BackendAssumption DEF DeadRow, Row, GoodRow, Statuses
  <2> QED
    BY <1>1, <1>5, <2>1 DEF Dead
<1> QED
  BY <1>3, <1>4, <1>5 DEF Apply

\* A step that leaves the table and its history alone keeps the table's
\* invariants.
LEMMA RowInvFrame ==
    ASSUME RowInv, UNCHANGED <<rows, nextId, completed>>
    PROVE  RowInv'
  BY DEF RowInv, AttemptBudget, LockedWhileRunning, JobsKept, CompletedRecorded, Allocated,
         Exists

\* A report by any worker, answered or not, keeps the table's invariants.
LEMMA ApplyRowInv ==
    ASSUME TypeOK, RowInv, NEW id \in JobIds, NEW op, Apply(op, id), nextId' = nextId
    PROVE  rows' \in [JobIds -> Row \cup {None}] /\ RowInv'
<1>1. CASE rows' = rows
  BY <1>1, ApplyWrites DEF RowInv, AttemptBudget, LockedWhileRunning, JobsKept,
                           CompletedRecorded, Allocated, Exists, TypeOK
<1>2. CASE /\ Exists(id)
           /\ \E r \in Row : /\ rows' = [rows EXCEPT ![id] = r]
                             /\ GoodRow(r)
                             /\ r.status = "completed" => id \in completed'
  BY <1>2, ApplyWrites, WriteRow
<1> QED
  BY <1>1, <1>2, ApplyWrites

\* A report leaves every other row, and every row a Fetch has locked, alone.
LEMMA ApplyFrame ==
    ASSUME TypeOK, RowInv, NEW id \in JobIds, NEW op, Apply(op, id)
    PROVE  \A x \in JobIds : x # id => rows'[x] = rows[x]
  BY ApplyWrites DEF TypeOK
-----------------------------------------------------------------------------
\* The empty table satisfies the invariant.
LEMMA InitIInv == Init => IInv
  BY BackendAssumption
     DEF Init, IInv, TypeOK, RowInv, AttemptBudget, LockedWhileRunning, JobsKept,
         CompletedRecorded, Allocated, Fetching, Reporting, Running, Exists, JobIds, Times

\* Enqueue keeps the invariant: the new row is at nextId, which no worker has.
LEMMA EnqueueStep ==
    ASSUME IInv, NEW q \in Queues, NEW p \in Priorities, Enqueue(q, p)
    PROVE  IInv'
<1> DEFINE r == [queue |-> q, priority |-> p, status |-> "pending", attempts |-> 0,
                 lockedBy |-> None, createdAt |-> now, completedAt |-> NoTime,
                 failedAt |-> NoTime]
<1>1. TypeOK /\ RowInv
  BY DEF IInv
<1>2. nextId \in JobIds /\ nextId' = nextId + 1 /\ nextId' \in 1..(MaxJobs + 1)
  BY <1>1, BackendAssumption DEF Enqueue, TypeOK, JobIds
<1>3. r \in Row /\ GoodRow(r) /\ r.status = "pending"
  BY <1>1, BackendAssumption DEF TypeOK, Row, GoodRow, Statuses, Times, NoTime
<1>4. rows' = [rows EXCEPT ![nextId] = r]
  BY DEF Enqueue
<1>5. completed' = completed /\ UNCHANGED <<now, rowLock, state, jobId, report, crashes, lostAcks, retries>>
  BY DEF Enqueue, clientVars, countVars
<1> HIDE DEF r
<1>6. rows' \in [JobIds -> Row \cup {None}] /\ RowInv'
  BY <1>1, <1>2, <1>3, <1>4, <1>5, WriteRow
<1>7. TypeOK'
  BY <1>1, <1>2, <1>5, <1>6 DEF TypeOK
<1>8. \A x \in JobIds : x # nextId => rows'[x] = rows[x]
  BY <1>1, <1>4 DEF TypeOK
<1>9. rows'[nextId] = r /\ r # None
  BY <1>1, <1>2, <1>3, <1>4, NoneAssumption DEF TypeOK
<1>10. Fetching'
  BY <1>3, <1>5, <1>8, <1>9 DEF IInv, Fetching, Exists
<1>11. Reporting'
  BY <1>1, <1>2, <1>5, BackendAssumption DEF IInv, Reporting, TypeOK, JobIds
<1>12. ~Exists(nextId)
  BY <1>1, <1>2 DEF RowInv, Allocated, TypeOK, JobIds
<1>13. Running'
  BY <1>5, <1>8, <1>9, <1>12 DEF IInv, Running, Reporting, Exists
<1> QED
  BY <1>6, <1>7, <1>10, <1>11, <1>13 DEF IInv

\* Taking a row lock keeps the invariant: SKIP LOCKED leaves out the rows that
\* other workers are fetching.
LEMMA FetchSelectStep ==
    ASSUME IInv, NEW w \in Workers, FetchSelect(w)
    PROVE  IInv'
<1>1. PICK id \in Candidates(w) : /\ rowLock' = [rowLock EXCEPT ![id] = w]
                                  /\ jobId' = [jobId EXCEPT ![w] = id]
  BY DEF FetchSelect
<1>2. /\ id \in JobIds /\ Exists(id) /\ rowLock[id] = None
      /\ rows[id].status = "pending"
  BY DEF Candidates
<1>3. /\ state' = [state EXCEPT ![w] = "fetching"]
      /\ UNCHANGED <<rows, nextId, now, report, crashes, lostAcks, retries, completed>>
  BY DEF FetchSelect, countVars
<1>4. TypeOK /\ RowInv /\ RowInv'
  BY <1>3, RowInvFrame DEF IInv
<1>5. TypeOK'
  BY <1>1, <1>2, <1>3, <1>4 DEF TypeOK
<1>6. \A v \in Workers : v # w => state'[v] = state[v] /\ jobId'[v] = jobId[v]
  BY <1>1, <1>3, <1>4 DEF TypeOK
<1>7. state'[w] = "fetching" /\ jobId'[w] = id
  BY <1>1, <1>3, <1>4 DEF TypeOK
<1>8. rowLock'[id] = w /\ \A x \in JobIds : x # id => rowLock'[x] = rowLock[x]
  BY <1>1, <1>2, <1>4 DEF TypeOK
<1>9. Fetching'
  <2> SUFFICES ASSUME NEW v \in Workers, state'[v] = "fetching"
               PROVE  /\ jobId'[v] \in JobIds /\ rows'[jobId'[v]] # None
                      /\ rows'[jobId'[v]].status = "pending" /\ rowLock'[jobId'[v]] = v
    BY DEF Fetching, Exists
  <2>1. CASE v = w
    BY <2>1, <1>2, <1>3, <1>7, <1>8 DEF Exists
  <2>2. CASE v # w
    <3>1. /\ jobId[v] \in JobIds /\ Exists(jobId[v])
          /\ rows[jobId[v]].status = "pending" /\ rowLock[jobId[v]] = v
      BY <2>2, <1>6 DEF IInv, Fetching
    <3>2. jobId[v] # id
      BY <3>1, <1>2, BackendAssumption
    <3> QED
      BY <2>2, <3>1, <3>2, <1>3, <1>6, <1>8 DEF Exists
  <2> QED
    BY <2>1, <2>2
<1>10. Reporting'
  BY <1>3, <1>6, <1>7 DEF IInv, Reporting
<1>11. Running'
  BY <1>3, <1>6, <1>7 DEF IInv, Running, Exists
<1> QED
  BY <1>4, <1>5, <1>9, <1>10, <1>11 DEF IInv

\* The commit of a Fetch, whether its answer arrives or not, keeps the table's
\* invariants, and only the worker named in locked_by can run the row.
LEMMA FetchUpdateRow ==
    ASSUME IInv, NEW w \in Workers, FetchUpdate(w), UNCHANGED <<nextId, completed>>
    PROVE  /\ jobId[w] \in JobIds
           /\ rows' \in [JobIds -> Row \cup {None}]
           /\ RowInv'
           /\ \A x \in JobIds : x # jobId[w] => rows'[x] = rows[x]
           /\ rows'[jobId[w]] # None
           /\ rows'[jobId[w]].status = "running"
           /\ rows'[jobId[w]].lockedBy = w
           /\ rows[jobId[w]].status = "pending"
           /\ rowLock[jobId[w]] = w
           /\ rowLock' = [rowLock EXCEPT ![jobId[w]] = None]
<1> DEFINE id == jobId[w]
           r == [rows[id] EXCEPT !.status = "running", !.attempts = @ + 1, !.lockedBy = w]
<1>1. TypeOK /\ RowInv
  BY DEF IInv
<1>2. /\ id \in JobIds /\ Exists(id) /\ rows[id].status = "pending" /\ rowLock[id] = w
  BY DEF IInv, Fetching, FetchUpdate
<1>3. rows[id] \in Row
  BY <1>1, <1>2 DEF TypeOK, Exists
<1>4. rows[id].attempts \in Nat /\ rows[id].attempts < MaxAttempts
  BY <1>1, <1>2, <1>3 DEF RowInv, AttemptBudget, Row
<1>5. r \in Row /\ r.status = "running" /\ r.lockedBy = w /\ r.attempts = rows[id].attempts + 1
  <2>1. \A s \in Row, n \in Nat :
           LET t == [s EXCEPT !.status = "running", !.attempts = n, !.lockedBy = w]
           IN  t \in Row /\ t.status = "running" /\ t.lockedBy = w /\ t.attempts = n
    BY DEF Row, Statuses
  <2>2. rows[id].attempts + 1 \in Nat
    BY <1>4
  <2> QED
    BY <1>3, <2>1, <2>2, Zenon
<1>6. GoodRow(r)
  BY <1>4, <1>5, BackendAssumption DEF GoodRow
<1>7. rows' = [rows EXCEPT ![id] = r]
  BY <1>1, <1>2, <1>3, ZenonT(30) DEF FetchUpdate
<1> HIDE DEF r
<1>8. rows' \in [JobIds -> Row \cup {None}] /\ RowInv'
  BY <1>1, <1>2, <1>5, <1>6, <1>7, WriteRow
<1>9. rows'[id] = r /\ r # None /\ \A x \in JobIds : x # id => rows'[x] = rows[x]
  BY <1>1, <1>2, <1>5, <1>7, NoneAssumption DEF TypeOK
<1> QED
  BY <1>2, <1>5, <1>8, <1>9 DEF FetchUpdate

\* The commit of a Fetch keeps the invariant when its answer arrives ...
LEMMA FetchReturnsStep ==
    ASSUME IInv, NEW w \in Workers, FetchReturns(w)
    PROVE  IInv'
<1>1. /\ FetchUpdate(w) /\ state[w] = "fetching"
      /\ state' = [state EXCEPT ![w] = "executing"]
      /\ UNCHANGED <<nextId, now, jobId, report, crashes, lostAcks, retries, completed>>
  BY DEF FetchReturns, FetchUpdate, countVars
<1>2. /\ jobId[w] \in JobIds
      /\ rows' \in [JobIds -> Row \cup {None}]
      /\ RowInv'
      /\ \A x \in JobIds : x # jobId[w] => rows'[x] = rows[x]
      /\ rows'[jobId[w]] # None
      /\ rows'[jobId[w]].status = "running"
      /\ rows'[jobId[w]].lockedBy = w
      /\ rows[jobId[w]].status = "pending"
      /\ rowLock[jobId[w]] = w
      /\ rowLock' = [rowLock EXCEPT ![jobId[w]] = None]
  BY <1>1, FetchUpdateRow
<1>3. TypeOK'
  BY <1>1, <1>2 DEF IInv, TypeOK
<1>4. /\ state'[w] = "executing"
      /\ \A v \in Workers : v # w => state'[v] = state[v]
      /\ \A x \in JobIds : x # jobId[w] => rowLock'[x] = rowLock[x]
  BY <1>1, <1>2 DEF IInv, TypeOK
<1>5. Fetching'
  BY <1>1, <1>2, <1>4 DEF IInv, Fetching, Exists
<1>6. Reporting'
  BY <1>1, <1>2, <1>4 DEF IInv, Reporting, RowInv, Allocated, Exists
<1>7. Running'
  BY <1>1, <1>2, <1>4 DEF IInv, Running, Reporting, Exists
<1> QED
  BY <1>2, <1>3, <1>5, <1>6, <1>7 DEF IInv

\* ... and when it is lost.
LEMMA FetchAnswerLostStep ==
    ASSUME IInv, NEW w \in Workers, FetchAnswerLost(w)
    PROVE  IInv'
<1>1. /\ FetchUpdate(w) /\ crashes' = crashes + 1
      /\ state' = [state EXCEPT ![w] = "idle"]
      /\ jobId' = [jobId EXCEPT ![w] = None]
      /\ UNCHANGED <<nextId, now, report, lostAcks, retries, completed>>
  BY DEF FetchAnswerLost
<1>2. /\ jobId[w] \in JobIds
      /\ rows' \in [JobIds -> Row \cup {None}]
      /\ RowInv'
      /\ \A x \in JobIds : x # jobId[w] => rows'[x] = rows[x]
      /\ rows[jobId[w]].status = "pending"
      /\ rowLock[jobId[w]] = w
      /\ rowLock' = [rowLock EXCEPT ![jobId[w]] = None]
  BY <1>1, FetchUpdateRow
<1>3. TypeOK'
  BY <1>1, <1>2 DEF IInv, TypeOK
<1>4. /\ state'[w] = "idle"
      /\ \A v \in Workers : v # w => state'[v] = state[v] /\ jobId'[v] = jobId[v]
      /\ \A x \in JobIds : x # jobId[w] => rowLock'[x] = rowLock[x]
  BY <1>1, <1>2 DEF IInv, TypeOK
<1>5. Fetching'
  BY <1>1, <1>2, <1>4 DEF IInv, Fetching, Exists
<1>6. Reporting'
  BY <1>1, <1>2, <1>4 DEF IInv, Reporting
<1>7. Running'
  BY <1>1, <1>2, <1>4 DEF IInv, Running, Reporting, Exists
<1> QED
  BY <1>2, <1>3, <1>5, <1>6, <1>7 DEF IInv

\* A report keeps what is known of the rows being fetched: it waits for their
\* row locks.
LEMMA ApplyFetching ==
    ASSUME IInv, NEW id \in JobIds, NEW op, Apply(op, id), UNCHANGED rowLock,
           \A v \in Workers : state'[v] = "fetching" =>
                                 state[v] = "fetching" /\ jobId'[v] = jobId[v]
    PROVE  Fetching'
<1>1. rowLock[id] = None /\ \A x \in JobIds : x # id => rows'[x] = rows[x]
  BY ApplyWrites, ApplyFrame DEF IInv
<1> SUFFICES ASSUME NEW v \in Workers, state'[v] = "fetching"
             PROVE  /\ jobId'[v] \in JobIds /\ rows'[jobId'[v]] # None
                    /\ rows'[jobId'[v]].status = "pending" /\ rowLock'[jobId'[v]] = v
  BY DEF Fetching, Exists
<1>2. /\ jobId[v] \in JobIds /\ Exists(jobId[v])
      /\ rows[jobId[v]].status = "pending" /\ rowLock[jobId[v]] = v
  BY DEF IInv, Fetching
<1>3. jobId[v] # id
  BY <1>1, <1>2, BackendAssumption
<1> QED
  BY <1>1, <1>2, <1>3 DEF Exists

\* The report of an executing worker keeps the invariant: another worker that
\* executes has another row, for locked_by names one worker.
LEMMA ReportStep ==
    ASSUME IInv, NEW w \in Workers, Report(w)
    PROVE  IInv'
<1>1. PICK op \in {"complete", "fail", "dead"} : Apply(op, jobId[w])
  BY DEF Report
<1>2. /\ state[w] = "executing"
      /\ state' = [state EXCEPT ![w] = "idle"]
      /\ jobId' = [jobId EXCEPT ![w] = None]
      /\ UNCHANGED <<nextId, now, rowLock, report, crashes, lostAcks, retries>>
  BY DEF Report, countVars
<1>3. TypeOK /\ RowInv /\ jobId[w] \in JobIds
  BY <1>2 DEF IInv, Reporting
<1>4. /\ rows' \in [JobIds -> Row \cup {None}] /\ RowInv'
      /\ completed' \subseteq JobIds
      /\ \A x \in JobIds : x # jobId[w] => rows'[x] = rows[x]
  BY <1>1, <1>2, <1>3, ApplyRowInv, ApplyWrites, ApplyFrame
<1>5. TypeOK'
  BY <1>2, <1>3, <1>4 DEF TypeOK
<1>6. /\ state'[w] = "idle"
      /\ \A v \in Workers : v # w => state'[v] = state[v] /\ jobId'[v] = jobId[v]
  BY <1>2, <1>3 DEF TypeOK
<1>7. Fetching'
  BY <1>1, <1>2, <1>3, <1>6, ApplyFetching
<1>8. Reporting'
  BY <1>2, <1>6 DEF IInv, Reporting
<1>9. Running'
  BY <1>2, <1>4, <1>6 DEF IInv, Running, Reporting, Exists
<1> QED
  BY <1>4, <1>5, <1>7, <1>8, <1>9 DEF IInv

\* A report whose answer is lost keeps the invariant.
LEMMA ReportUnansweredStep ==
    ASSUME IInv, NEW w \in Workers, ReportUnanswered(w)
    PROVE  IInv'
<1>1. PICK op \in {"complete", "fail", "dead"} :
          Apply(op, jobId[w]) /\ report' = [report EXCEPT ![w] = op]
  BY DEF ReportUnanswered
<1>2. /\ state[w] = "executing"
      /\ state' = [state EXCEPT ![w] = "retrying"]
      /\ lostAcks' = lostAcks + 1
      /\ UNCHANGED <<nextId, now, rowLock, jobId, crashes, retries>>
  BY DEF ReportUnanswered
<1>3. TypeOK /\ RowInv /\ jobId[w] \in JobIds
  BY <1>2 DEF IInv, Reporting
<1>4. /\ rows' \in [JobIds -> Row \cup {None}] /\ RowInv'
      /\ completed' \subseteq JobIds
  BY <1>1, <1>2, <1>3, ApplyRowInv, ApplyWrites
<1>5. TypeOK'
  BY <1>1, <1>2, <1>3, <1>4 DEF TypeOK
<1>6. /\ state'[w] = "retrying"
      /\ \A v \in Workers : v # w => state'[v] = state[v]
  BY <1>2, <1>3 DEF TypeOK
<1>7. Fetching'
  BY <1>1, <1>2, <1>3, <1>6, ApplyFetching
<1>8. Reporting'
  BY <1>2, <1>3, <1>6 DEF IInv, Reporting
<1>9. Running'
  BY <1>2, <1>3 DEF Running, TypeOK
<1> QED
  BY <1>4, <1>5, <1>7, <1>8, <1>9 DEF IInv

\* A repeated report keeps the invariant, although the row may since be another
\* worker's: answers have been lost, so Running promises nothing.
LEMMA ReportAgainStep ==
    ASSUME IInv, NEW w \in Workers, ReportAgain(w)
    PROVE  IInv'
<1>1. Apply(report[w], jobId[w])
  BY DEF ReportAgain
<1>2. /\ state[w] = "retrying"
      /\ report' = [report EXCEPT ![w] = "none"]
      /\ state' = [state EXCEPT ![w] = "idle"]
      /\ jobId' = [jobId EXCEPT ![w] = None]
      /\ UNCHANGED <<nextId, now, rowLock, crashes, lostAcks, retries>>
  BY DEF ReportAgain, countVars
<1>3. TypeOK /\ RowInv /\ jobId[w] \in JobIds
  BY <1>2 DEF IInv, Reporting
<1>4. /\ rows' \in [JobIds -> Row \cup {None}] /\ RowInv'
      /\ completed' \subseteq JobIds
  BY <1>1, <1>2, <1>3, ApplyRowInv, ApplyWrites
<1>5. TypeOK'
  BY <1>2, <1>3, <1>4 DEF TypeOK
<1>6. /\ state'[w] = "idle"
      /\ \A v \in Workers : v # w => state'[v] = state[v] /\ jobId'[v] = jobId[v]
  BY <1>2, <1>3 DEF TypeOK
<1>7. Fetching'
  BY <1>1, <1>2, <1>3, <1>6, ApplyFetching
<1>8. Reporting'
  BY <1>2, <1>6 DEF IInv, Reporting
<1>9. Running'
  BY <1>2 DEF IInv, Running
<1> QED
  BY <1>4, <1>5, <1>7, <1>8, <1>9 DEF IInv

\* A crash keeps the invariant: the row locks it gives up are the crashed
\* worker's own, and the row it was running stays running under its name.
LEMMA CrashStep ==
    ASSUME IInv, NEW w \in Workers, Crash(w)
    PROVE  IInv'
<1>1. /\ crashes' = crashes + 1
      /\ rowLock' = [id \in JobIds |-> IF rowLock[id] = w THEN None ELSE rowLock[id]]
      /\ state' = [state EXCEPT ![w] = "idle"]
      /\ jobId' = [jobId EXCEPT ![w] = None]
      /\ report' = [report EXCEPT ![w] = "none"]
      /\ UNCHANGED <<rows, nextId, now, lostAcks, retries, completed>>
  BY DEF Crash
<1>2. TypeOK /\ RowInv /\ RowInv'
  BY <1>1, RowInvFrame DEF IInv
<1>3. TypeOK'
  BY <1>1, <1>2 DEF TypeOK
<1>4. /\ state'[w] = "idle"
      /\ \A v \in Workers : v # w => state'[v] = state[v] /\ jobId'[v] = jobId[v]
  BY <1>1, <1>2 DEF TypeOK
<1>5. Fetching'
  BY <1>1, <1>4 DEF IInv, Fetching, Exists
<1>6. Reporting'
  BY <1>1, <1>4 DEF IInv, Reporting
<1>7. Running'
  BY <1>1, <1>4 DEF IInv, Running, Exists
<1> QED
  BY <1>2, <1>3, <1>5, <1>6, <1>7 DEF IInv

\* RetryDead keeps the invariant: a dead row is nobody's.
LEMMA RetryDeadStep ==
    ASSUME IInv, NEW id \in JobIds, RetryDead(id)
    PROVE  IInv'
<1> DEFINE r == [rows[id] EXCEPT !.status = "pending", !.attempts = 0,
                                 !.failedAt = NoTime, !.lockedBy = None]
<1>1. TypeOK /\ RowInv
  BY DEF IInv
<1>2. /\ Exists(id) /\ rows[id].status = "dead"
      /\ retries' = retries + 1
      /\ UNCHANGED <<nextId, now, rowLock, state, jobId, report, crashes, lostAcks, completed>>
  BY DEF RetryDead, clientVars
<1>3. rows[id] \in Row
  BY <1>1, <1>2 DEF TypeOK, Exists
<1>4. rows' = [rows EXCEPT ![id] = r]
  BY <1>1, <1>3, ZenonT(30) DEF RetryDead
<1>5. r \in Row /\ r.status = "pending" /\ r.attempts = 0 /\ r.lockedBy = None
  <2>1. NoTime \in Times
    BY BackendAssumption DEF Times, NoTime
  <2>2. \A s \in Row, at \in Times :
           LET t == [s EXCEPT !.status = "pending", !.attempts = 0,
                              !.failedAt = at, !.lockedBy = None]
           IN  t \in Row /\ t.status = "pending" /\ t.attempts = 0 /\ t.lockedBy = None
    BY DEF Row, Statuses
  <2> QED
    BY <1>3, <2>1, <2>2, Zenon
<1>6. GoodRow(r)
  BY <1>5, BackendAssumption DEF GoodRow
<1> HIDE DEF r
<1>7. rows' \in [JobIds -> Row \cup {None}] /\ RowInv'
  BY <1>1, <1>2, <1>4, <1>5, <1>6, WriteRow
<1>8. \A x \in JobIds : x # id => rows'[x] = rows[x]
  BY <1>1, <1>4 DEF TypeOK
<1>9. TypeOK'
  BY <1>1, <1>2, <1>7 DEF TypeOK
<1>10. Fetching'
  BY <1>2, <1>8 DEF IInv, Fetching, Exists
<1>11. Reporting'
  BY <1>2 DEF IInv, Reporting
<1>12. Running'
  BY <1>2, <1>8 DEF IInv, Running, Reporting, Exists
<1> QED
  BY <1>7, <1>9, <1>10, <1>11, <1>12 DEF IInv

\* Cleanup keeps the invariant: it deletes only rows whose job was completed.
LEMMA CleanupStep ==
    ASSUME IInv, NEW t, Cleanup(t)
    PROVE  IInv'
<1>1. /\ rows' = [id \in JobIds |-> IF id \in Expired(t) THEN None ELSE rows[id]]
      /\ UNCHANGED <<nextId, now, rowLock, state, jobId, report, crashes, lostAcks,
                     retries, completed>>
  BY DEF Cleanup, clientVars, countVars
<1>2. TypeOK /\ RowInv
  BY DEF IInv
<1>3. \A id \in Expired(t) : id \in JobIds /\ Exists(id) /\ rows[id].status = "completed"
  BY DEF Expired
<1>4. TypeOK'
  BY <1>1, <1>2 DEF TypeOK
<1>5. \A id \in JobIds : rows'[id] = None \/ rows'[id] = rows[id]
  BY <1>1
<1>6. \A id \in JobIds : Exists(id) /\ rows'[id] = None => rows[id].status = "completed"
  BY <1>1, <1>3 DEF Exists
<1> HIDE DEF Expired
<1>7. RowInv'
  <2>1. AttemptBudget' /\ LockedWhileRunning' /\ CompletedRecorded' /\ Allocated'
    BY <1>1, <1>2, <1>5 DEF RowInv, AttemptBudget, LockedWhileRunning, CompletedRecorded,
                            Allocated, Exists
  <2>2. JobsKept'
    BY <1>1, <1>2, <1>5, <1>6 DEF RowInv, JobsKept, CompletedRecorded, Exists
  <2> QED
    BY <2>1, <2>2 DEF RowInv
<1>8. Fetching'
  BY <1>1, <1>5, <1>6 DEF IInv, Fetching, Exists
<1>9. Reporting'
  BY <1>1 DEF IInv, Reporting
<1>10. Running'
  BY <1>1, <1>5, <1>6 DEF IInv, Running, Reporting, Exists
<1> QED
  BY <1>4, <1>7, <1>8, <1>9, <1>10 DEF IInv

\* The passing of time keeps the invariant.
LEMMA TickStep ==
    ASSUME IInv, Tick
    PROVE  IInv'
<1>1. /\ now < MaxTime /\ now' = now + 1
      /\ UNCHANGED <<rows, nextId, rowLock, state, jobId, report, crashes, lostAcks,
                     retries, completed>>
  BY DEF Tick, clientVars, countVars
<1>2. now' \in Times
  BY <1>1, BackendAssumption DEF IInv, TypeOK, Times
<1>3. TypeOK' /\ RowInv'
  BY <1>1, <1>2, RowInvFrame DEF IInv, TypeOK
<1> QED
  BY <1>1, <1>3 DEF IInv, Fetching, Reporting, Running, Exists

\* A step in which nothing happens keeps the invariant.
LEMMA StutterStep ==
    ASSUME IInv, UNCHANGED vars
    PROVE  IInv'
<1>1. UNCHANGED <<rows, nextId, now, rowLock, state, jobId, report, crashes, lostAcks,
                  retries, completed>>
  BY DEF vars, clientVars, countVars
<1>2. TypeOK' /\ RowInv'
  BY <1>1, RowInvFrame DEF IInv, TypeOK
<1> QED
  BY <1>1, <1>2 DEF IInv, Fetching, Reporting, Running, Exists

\* The invariant holds in every state of every behaviour of the backend.
LEMMA Invariance == Spec => []IInv
<1>1. IInv /\ [Next]_vars => IInv'
  <2> SUFFICES ASSUME IInv, [Next]_vars PROVE IInv'
    OBVIOUS
  <2>1. CASE \E q \in Queues, p \in Priorities : Enqueue(q, p)
    BY <2>1, EnqueueStep
  <2>2. CASE \E w \in Workers : WorkerStep(w)
    BY <2>2, FetchSelectStep, FetchReturnsStep, FetchAnswerLostStep, ReportStep,
       ReportUnansweredStep, ReportAgainStep, CrashStep DEF WorkerStep
  <2>3. CASE \E id \in JobIds : RetryDead(id)
    BY <2>3, RetryDeadStep
  <2>4. CASE \E t \in 1..(MaxTime + 1) : Cleanup(t)
    BY <2>4, CleanupStep
  <2>5. CASE Tick
    BY <2>5, TickStep
  <2>6. CASE UNCHANGED vars
    BY <2>6, StutterStep
  <2> QED
    BY <2>1, <2>2, <2>3, <2>4, <2>5, <2>6 DEF Next
<1> QED
  BY <1>1, InitIInv, PTL DEF Spec
-----------------------------------------------------------------------------
\* Type correctness of the table and of its clients.
THEOREM PgBackendTypeCorrect == Spec => []TypeOK
<1>1. IInv => TypeOK
  BY DEF IInv
<1> QED
  BY <1>1, Invariance, PTL

\* Fetch and Fail keep to max_attempts, whatever is reported late or twice.
THEOREM PgBackendAttemptBudget == Spec => []AttemptBudget
<1>1. IInv => AttemptBudget
  BY DEF IInv, RowInv
<1> QED
  BY <1>1, Invariance, PTL

\* Every statement that ends a run clears locked_by, and only Fetch sets it.
THEOREM PgBackendLockedWhileRunning == Spec => []LockedWhileRunning
<1>1. IInv => LockedWhileRunning
  BY DEF IInv, RowInv
<1> QED
  BY <1>1, Invariance, PTL

\* FOR UPDATE SKIP LOCKED gives a job to one worker at a time, unless reports
\* are repeated.
THEOREM PgBackendSingleRunner == Spec => []SingleRunner
<1>1. IInv => SingleRunner
  BY DEF IInv, Running, SingleRunner
<1> QED
  BY <1>1, Invariance, PTL

\* Cleanup and all other statements lose no job that was not completed.
THEOREM PgBackendJobsKept == Spec => []JobsKept
<1>1. IInv => JobsKept
  BY DEF IInv, RowInv
<1> QED
  BY <1>1, Invariance, PTL

\* What a worker completed stays completed until Cleanup deletes it, while no
\* report is repeated: Fetch takes pending rows, a worker reports the row it
\* runs, and RetryDead asks for a dead one (pg_backend.go:50-204).
THEOREM PgBackendCompletedIsFinal == Spec => CompletedIsFinal
<1> DEFINE Final == lostAcks = 0 => \A id \in JobIds :
                       Exists(id) /\ rows[id].status = "completed" =>
                          rows'[id] = None \/ rows'[id].status = "completed"
<1>1. IInv /\ [Next]_vars => [Final]_vars
  <2> SUFFICES ASSUME IInv, [Next]_vars, lostAcks = 0, NEW id \in JobIds,
                      Exists(id), rows[id].status = "completed"
               PROVE  rows'[id] = None \/ rows'[id] = rows[id]
    OBVIOUS
  <2>0. rows \in [JobIds -> Row \cup {None}] /\ nextId \in Nat /\ JobIds \subseteq Nat
    BY BackendAssumption DEF IInv, TypeOK, JobIds
  <2>1. ASSUME NEW q \in Queues, NEW p \in Priorities, Enqueue(q, p)
        PROVE  rows'[id] = rows[id]
    <3>1. id # nextId
      BY <2>0 DEF IInv, RowInv, Allocated
    <3> QED
      BY <2>0, <2>1, <3>1 DEF Enqueue
  <2>2. ASSUME NEW w \in Workers, WorkerStep(w) PROVE rows'[id] = rows[id]
    <3>1. CASE FetchReturns(w) \/ FetchAnswerLost(w)
      <4>1. FetchUpdate(w) /\ state[w] = "fetching"
        BY <3>1 DEF FetchReturns, FetchAnswerLost, FetchUpdate
      <4>2. jobId[w] \in JobIds /\ jobId[w] # id
        BY <4>1 DEF IInv, Fetching
      <4> QED
        BY <2>0, <4>1, <4>2 DEF FetchUpdate
    <3>2. CASE Report(w) \/ ReportUnanswered(w)
      <4>1. state[w] = "executing" /\ \E op : Apply(op, jobId[w])
        BY <3>2 DEF Report, ReportUnanswered
      <4>2. jobId[w] \in JobIds /\ jobId[w] # id
        BY <4>1 DEF IInv, Reporting, Running
      <4> QED
        BY <4>1, <4>2, ApplyFrame DEF IInv
    <3>3. ~ReportAgain(w)
      BY DEF ReportAgain, IInv, Running
    <3>4. CASE FetchSelect(w) \/ Crash(w)
      BY <3>4 DEF FetchSelect, Crash
    <3> QED
      BY <2>2, <3>1, <3>2, <3>3, <3>4 DEF WorkerStep
  <2>3. ASSUME NEW x \in JobIds, RetryDead(x) PROVE rows'[id] = rows[id]
    <3>1. x # id
      BY <2>3 DEF RetryDead
    <3> QED
      BY <2>0, <2>3, <3>1 DEF RetryDead
  <2>4. ASSUME NEW t \in 1..(MaxTime + 1), Cleanup(t)
        PROVE  rows'[id] = None \/ rows'[id] = rows[id]
    BY <2>4 DEF Cleanup
  <2>5. CASE Tick \/ UNCHANGED vars
    BY <2>5 DEF Tick, vars
  <2> QED
    BY <2>1, <2>2, <2>3, <2>4, <2>5 DEF Next
<1>2. Spec => [][Final]_vars
  BY <1>1, Invariance, PTL DEF Spec
<1> QED
  BY <1>2 DEF CompletedIsFinal
-----------------------------------------------------------------------------
(* The job table *)

\* What a row, and its absence, amount to.
LEMMA JobsIs ==
    ASSUME NEW id \in JobIds
    PROVE  /\ Exists(id) => Jobs[id] = [phase |-> rows[id].status, owner |-> rows[id].lockedBy,
                                        tries |-> rows[id].attempts]
           /\ ~Exists(id) /\ id < nextId => Jobs[id] = Table!Nobodys("removed", 0)
           /\ ~Exists(id) /\ ~(id < nextId) => Jobs[id] = Table!Nobodys("new", 0)
  BY DEF Jobs, Table!Nobodys

\* A step that concerns one row concerns one job.
LEMMA OneJob ==
    ASSUME NEW id \in JobIds, NEW j, Jobs'[id] = j,
           \A x \in JobIds : x # id => rows'[x] = rows[x] /\ (x < nextId' <=> x < nextId)
    PROVE  Jobs' = [Jobs EXCEPT ![id] = j]
<1>1. \A x \in JobIds : x # id => Jobs'[x] = Jobs[x]
  BY DEF Jobs, Exists
<1> QED BY <1>1 DEF Jobs

\* A step that leaves the rows alone leaves the jobs alone.
LEMMA SameJobs ==
    ASSUME UNCHANGED <<rows, nextId>>
    PROVE  Jobs' = Jobs
  BY DEF Jobs, Exists

\* A worker begins or ends executing.
LEMMA DoingIs ==
    ASSUME TypeOK, NEW w \in Workers, NEW s, NEW i,
           state' = [state EXCEPT ![w] = s], jobId' = [jobId EXCEPT ![w] = i]
    PROVE  Doing' = [Doing EXCEPT ![w] = IF s = "executing" THEN i ELSE None]
  BY DEF Doing, TypeOK

\* The empty table.
LEMMA InitRefines == Init => Table!Init
<1> SUFFICES ASSUME Init PROVE Table!Init
  OBVIOUS
<1>1. Jobs = [id \in JobIds |-> Table!Nobodys("new", 0)]
  BY BackendAssumption DEF Init, Jobs, Exists, JobIds, Table!Nobodys
<1>2. Doing = [w \in Workers |-> None]
  BY DEF Init, Doing
<1> QED BY <1>1, <1>2 DEF Init, Table!Init

\* Enqueue adds a job.
LEMMA EnqueueRefines ==
    ASSUME IInv, NEW q \in Queues, NEW p \in Priorities, Enqueue(q, p)
    PROVE  Table!Add(nextId) /\ nextId \in JobIds
<1>1. nextId \in JobIds /\ nextId \in Nat /\ JobIds \subseteq Nat
  BY BackendAssumption DEF Enqueue, IInv, TypeOK, JobIds
<1>2. ~Exists(nextId)
  BY <1>1 DEF IInv, RowInv, Allocated
<1>3. Jobs[nextId].phase = "new"
  <2>1. Jobs[nextId] = Table!Nobodys("new", 0)
    BY <1>1, <1>2 DEF Jobs, Table!Nobodys
  <2> QED BY <2>1 DEF Table!Nobodys
<1>4. rows'[nextId] = [queue |-> q, priority |-> p, status |-> "pending", attempts |-> 0,
                       lockedBy |-> None, createdAt |-> now, completedAt |-> NoTime,
                       failedAt |-> NoTime]
  BY <1>1 DEF Enqueue, IInv, TypeOK
<1>5. rows'[nextId] # None
  <2>1. rows'[nextId] \in Row
    BY <1>4, BackendAssumption DEF IInv, TypeOK, Row, Statuses, Times, NoTime
  <2> QED BY <2>1, NoneAssumption
<1>6. Jobs'[nextId] = Table!Nobodys("pending", 0)
  BY <1>1, <1>4, <1>5 DEF Jobs, Exists, Table!Nobodys
<1>7. \A x \in JobIds : x # nextId => rows'[x] = rows[x] /\ (x < nextId' <=> x < nextId)
  BY <1>1 DEF Enqueue, IInv, TypeOK
<1>8. Jobs' = [Jobs EXCEPT ![nextId] = Table!Nobodys("pending", 0)]
  BY <1>1, <1>6, <1>7, OneJob
<1>9. Doing' = Doing /\ lostAcks' = lostAcks
  BY DEF Enqueue, clientVars, countVars, Doing
<1> QED BY <1>1, <1>3, <1>8, <1>9 DEF Table!Add

\* The commit of a Fetch gives the job away, counted ...
LEMMA FetchUpdateJobs ==
    ASSUME IInv, NEW w \in Workers, FetchUpdate(w), UNCHANGED nextId
    PROVE  LET id == jobId[w] IN
           /\ id \in JobIds
           /\ Jobs[id].phase = "pending" /\ Jobs[id].tries < MaxAttempts
           /\ Jobs' = [Jobs EXCEPT ![id] =
                          [phase |-> "running", owner |-> w, tries |-> Jobs[id].tries + 1]]
<1> DEFINE id == jobId[w]
           r  == [rows[id] EXCEPT !.status = "running", !.attempts = @ + 1, !.lockedBy = w]
<1>1. id \in JobIds /\ Exists(id) /\ rows[id].status = "pending"
  BY DEF IInv, Fetching, FetchUpdate
<1>2. rows[id] \in Row /\ rows \in [JobIds -> Row \cup {None}]
  BY <1>1 DEF IInv, TypeOK, Exists
<1>3. rows[id].attempts \in Nat /\ rows[id].attempts < MaxAttempts
  BY <1>1, <1>2 DEF IInv, RowInv, AttemptBudget, Row
<1>4. rows' = [rows EXCEPT ![id] = r]
  BY <1>1, <1>2, ZenonT(30) DEF FetchUpdate
<1>5. r \in Row /\ r.status = "running" /\ r.lockedBy = w /\ r.attempts = rows[id].attempts + 1
  <2>1. \A s \in Row, n \in Nat :
           LET t == [s EXCEPT !.status = "running", !.attempts = n, !.lockedBy = w]
           IN  t \in Row /\ t.status = "running" /\ t.lockedBy = w /\ t.attempts = n
    BY DEF Row, Statuses
  <2>2. rows[id].attempts + 1 \in Nat
    BY <1>3
  <2> QED
    BY <1>2, <2>1, <2>2, Zenon
<1> HIDE DEF r
<1>6. rows'[id] = r /\ r # None /\ \A x \in JobIds : x # id => rows'[x] = rows[x]
  BY <1>1, <1>2, <1>4, <1>5, NoneAssumption
<1>7. Jobs[id] = [phase |-> "pending", owner |-> rows[id].lockedBy, tries |-> rows[id].attempts]
  BY <1>1, JobsIs
<1>8. Jobs'[id] = [phase |-> "running", owner |-> w, tries |-> Jobs[id].tries + 1]
  BY <1>1, <1>5, <1>6, <1>7 DEF Jobs, Exists
<1>9. Jobs' = [Jobs EXCEPT ![id] =
                   [phase |-> "running", owner |-> w, tries |-> Jobs[id].tries + 1]]
  BY <1>1, <1>6, <1>8, OneJob
<1> QED BY <1>1, <1>3, <1>7, <1>9

\* ... to a worker that executes it, or that never hears of it.
LEMMA FetchRefines ==
    ASSUME IInv, NEW w \in Workers, FetchReturns(w) \/ FetchAnswerLost(w)
    PROVE  jobId[w] \in JobIds /\ Table!Give(w, jobId[w])
<1>1. FetchUpdate(w) /\ UNCHANGED <<nextId, lostAcks>> /\ state[w] = "fetching"
  BY DEF FetchReturns, FetchAnswerLost, FetchUpdate, countVars
<1>2. Doing[w] = None
  BY <1>1 DEF Doing
<1>3. Doing' = [Doing EXCEPT ![w] = jobId[w]] \/ Doing' = Doing
  <2>1. CASE FetchReturns(w)
    <3>1. state' = [state EXCEPT ![w] = "executing"] /\ jobId' = jobId
      BY <2>1 DEF FetchReturns
    <3> QED BY <3>1 DEF Doing, IInv, TypeOK
  <2>2. CASE FetchAnswerLost(w)
    <3>1. Doing' = [Doing EXCEPT ![w] = None]
      BY <2>2, DoingIs DEF FetchAnswerLost, IInv
    <3> QED BY <3>1, <1>2 DEF Doing
  <2> QED BY <2>1, <2>2
<1>4. /\ jobId[w] \in JobIds
      /\ Jobs[jobId[w]].phase = "pending" /\ Jobs[jobId[w]].tries < MaxAttempts
      /\ Jobs' = [Jobs EXCEPT ![jobId[w]] = [phase |-> "running", owner |-> w,
                                             tries |-> Jobs[jobId[w]].tries + 1]]
  BY <1>1, FetchUpdateJobs
<1> QED BY <1>1, <1>2, <1>3, <1>4 DEF Table!Give

\* A report settles its job, whatever that has become.
LEMMA ApplySettles ==
    ASSUME IInv, NEW id \in JobIds, NEW op, Apply(op, id), UNCHANGED nextId, id < nextId
    PROVE  Table!Settle(id)
<1>1. TypeOK /\ RowInv
  BY DEF IInv
<1>2. CASE ~Exists(id)
  <2>1. rows' = rows
    BY <1>2 DEF Apply, Complete, Fail, Dead
  <2>2. Jobs' = Jobs
    BY <2>1, SameJobs
  <2>3. Jobs[id].phase = "removed"
    <3>1. Jobs[id] = Table!Nobodys("removed", 0)
      BY <1>2, JobsIs
    <3> QED BY <3>1 DEF Table!Nobodys
  <2> QED BY <2>2, <2>3 DEF Table!Settle
<1>3. CASE Exists(id)
  <2>1. rows[id] \in Row /\ rows \in [JobIds -> Row \cup {None}]
    BY <1>1, <1>3 DEF TypeOK, Exists
  <2>2. /\ rows[id].attempts \in Nat /\ rows[id].attempts <= MaxAttempts
        /\ rows[id].status \in Statuses
    BY <1>1, <1>3, <2>1 DEF RowInv, AttemptBudget, Row
  <2>3. PICK r \in Row : /\ rows' = [rows EXCEPT ![id] = r]
                         /\ r.status \in {"pending", "completed", "dead"}
                         /\ r.status = "pending" => rows[id].attempts < MaxAttempts
                         /\ r.lockedBy = None /\ r.attempts = rows[id].attempts
    <3>0. now \in Times
      BY <1>1 DEF TypeOK
    <3>1. CASE Complete(id)
      <4>1. /\ CompleteRow(rows[id]) \in Row /\ CompleteRow(rows[id]).status = "completed"
            /\ CompleteRow(rows[id]).lockedBy = None
            /\ CompleteRow(rows[id]).attempts = rows[id].attempts
        BY <2>1, <3>0 DEF CompleteRow, Row, Statuses
      <4> QED BY <1>3, <3>1, <4>1 DEF Complete
    <3>2. CASE Fail(id)
      <4>1. /\ FailRow(rows[id]) \in Row
            /\ FailRow(rows[id]).status = IF rows[id].attempts < MaxAttempts THEN "pending" ELSE "dead"
            /\ FailRow(rows[id]).lockedBy = None
            /\ FailRow(rows[id]).attempts = rows[id].attempts
        BY <2>1, <3>0 DEF FailRow, Row, Statuses
      <4> QED BY <1>3, <3>2, <4>1 DEF Fail
    <3>3. CASE Dead(id)
      <4>1. /\ DeadRow(rows[id]) \in Row /\ DeadRow(rows[id]).status = "dead"
            /\ DeadRow(rows[id]).lockedBy = None
            /\ DeadRow(rows[id]).attempts = rows[id].attempts
        BY <2>1, <3>0 DEF DeadRow, Row, Statuses
      <4> QED BY <1>3, <3>3, <4>1 DEF Dead
    <3> QED BY <3>1, <3>2, <3>3 DEF Apply
  <2>4. rows'[id] = r /\ r # None /\ \A x \in JobIds : x # id => rows'[x] = rows[x]
    BY <2>1, <2>3, NoneAssumption
  <2>5. Jobs[id] = [phase |-> rows[id].status, owner |-> rows[id].lockedBy,
                    tries |-> rows[id].attempts]
    BY <1>3, JobsIs
  <2>6. Jobs'[id] = Table!Nobodys(r.status, Jobs[id].tries)
    BY <2>3, <2>4, <2>5 DEF Jobs, Exists, Table!Nobodys
  <2>7. Jobs' = [Jobs EXCEPT ![id] = Table!Nobodys(r.status, Jobs[id].tries)]
    BY <2>4, <2>6, OneJob
  <2>8. Jobs[id].phase \in {"pending", "running", "completed", "dead"}
    BY <2>2, <2>5 DEF Statuses
  <2>9. r.status = "pending" => Jobs[id].tries < MaxAttempts
    BY <2>3, <2>5
  <2> QED BY <2>3, <2>7, <2>8, <2>9 DEF Table!Settle
<1> QED BY <1>2, <1>3

\* A worker's report, answered or not, settles its job: its own, as long as all
\* reports are answered.
LEMMA ReportRefines ==
    ASSUME IInv, NEW w \in Workers, Report(w) \/ ReportUnanswered(w)
    PROVE  Table!Report(w)
<1>1. /\ state[w] = "executing" /\ UNCHANGED nextId
      /\ \E op : Apply(op, jobId[w])
  BY DEF Report, ReportUnanswered
<1>2. jobId[w] \in JobIds /\ jobId[w] < nextId /\ Doing[w] = jobId[w]
  BY <1>1 DEF IInv, Reporting, Doing
<1>3. Doing[w] # None
  BY <1>2, NoneAssumption
<1>4. lostAcks = 0 => Jobs[Doing[w]].owner = w
  <2> SUFFICES ASSUME lostAcks = 0 PROVE Jobs[jobId[w]].owner = w
    BY <1>2
  <2>1. Exists(jobId[w]) /\ rows[jobId[w]].lockedBy = w
    BY <1>1 DEF IInv, Running
  <2>2. Jobs[jobId[w]] = [phase |-> rows[jobId[w]].status, owner |-> rows[jobId[w]].lockedBy,
                          tries |-> rows[jobId[w]].attempts]
    BY <1>2, <2>1, JobsIs
  <2> QED BY <2>1, <2>2
<1>5. Table!Settle(Doing[w])
  BY <1>1, <1>2, ApplySettles
<1>6. Doing' = [Doing EXCEPT ![w] = None]
  <2>1. CASE Report(w)
    BY <2>1, DoingIs DEF Report, IInv
  <2>2. CASE ReportUnanswered(w)
    BY <2>2 DEF ReportUnanswered, Doing, IInv, TypeOK
  <2> QED BY <2>1, <2>2
<1>7. lostAcks' = lostAcks \/ ~(lostAcks' = 0)
  BY DEF Report, ReportUnanswered, countVars, IInv, TypeOK
<1> QED BY <1>3, <1>4, <1>5, <1>6, <1>7 DEF Table!Report

\* A repeated report is one that was not answered before.
LEMMA ReportAgainRefines ==
    ASSUME IInv, NEW w \in Workers, ReportAgain(w)
    PROVE  jobId[w] \in JobIds /\ Table!Repeat(jobId[w])
<1>1. /\ state[w] = "retrying" /\ UNCHANGED <<nextId, lostAcks>>
      /\ Apply(report[w], jobId[w])
  BY DEF ReportAgain, countVars
<1>2. jobId[w] \in JobIds /\ jobId[w] < nextId /\ ~(lostAcks = 0)
  BY <1>1 DEF IInv, Reporting, Running
<1>3. Table!Settle(jobId[w])
  BY <1>1, <1>2, ApplySettles
<1>4. Doing' = Doing
  <2>1. Doing' = [Doing EXCEPT ![w] = None]
    BY DoingIs DEF ReportAgain, IInv
  <2> QED BY <1>1, <2>1 DEF Doing
<1> QED BY <1>1, <1>2, <1>3, <1>4 DEF Table!Repeat

\* A crash leaves the job as it is.
LEMMA CrashRefines ==
    ASSUME IInv, NEW w \in Workers, Crash(w)
    PROVE  Table!Lose(w)
<1>1. UNCHANGED <<rows, nextId, lostAcks>>
  BY DEF Crash
<1>2. Doing' = [Doing EXCEPT ![w] = None]
  BY DoingIs DEF Crash, IInv
<1> QED BY <1>1, <1>2, SameJobs DEF Table!Lose

\* Selecting a row is not visible.
LEMMA FetchSelectRefines ==
    ASSUME IInv, NEW w \in Workers, FetchSelect(w)
    PROVE  UNCHANGED Table!vars
<1>1. UNCHANGED <<rows, nextId, lostAcks>>
  BY DEF FetchSelect, countVars
<1>2. Doing' = Doing
  BY DEF FetchSelect, Doing, IInv, TypeOK
<1> QED BY <1>1, <1>2, SameJobs DEF Table!vars

\* RetryDead revives a dead job.
LEMMA RetryDeadRefines ==
    ASSUME IInv, NEW id \in JobIds, RetryDead(id)
    PROVE  Table!Revive(id)
<1> DEFINE r == [rows[id] EXCEPT !.status = "pending", !.attempts = 0,
                                 !.failedAt = NoTime, !.lockedBy = None]
<1>1. Exists(id) /\ rows[id].status = "dead" /\ UNCHANGED <<nextId, lostAcks, state, jobId>>
  BY DEF RetryDead, clientVars
<1>2. rows[id] \in Row /\ rows \in [JobIds -> Row \cup {None}]
  BY <1>1 DEF IInv, TypeOK, Exists
<1>3. rows' = [rows EXCEPT ![id] = r]
  BY <1>2, ZenonT(30) DEF RetryDead
<1>4. r \in Row /\ r.status = "pending" /\ r.attempts = 0 /\ r.lockedBy = None
  <2>1. NoTime \in Times
    BY BackendAssumption DEF Times, NoTime
  <2>2. \A s \in Row, at \in Times :
           LET t == [s EXCEPT !.status = "pending", !.attempts = 0,
                              !.failedAt = at, !.lockedBy = None]
           IN  t \in Row /\ t.status = "pending" /\ t.attempts = 0 /\ t.lockedBy = None
    BY DEF Row, Statuses
  <2> QED
    BY <1>2, <2>1, <2>2, Zenon
<1> HIDE DEF r
<1>5. rows'[id] = r /\ r # None /\ \A x \in JobIds : x # id => rows'[x] = rows[x]
  BY <1>2, <1>3, <1>4, NoneAssumption
<1>6. Jobs'[id] = Table!Nobodys("pending", 0)
  BY <1>4, <1>5 DEF Jobs, Exists, Table!Nobodys
<1>7. Jobs' = [Jobs EXCEPT ![id] = Table!Nobodys("pending", 0)]
  BY <1>1, <1>5, <1>6, OneJob
<1>8. Jobs[id].phase = "dead"
  <2>1. Jobs[id] = [phase |-> rows[id].status, owner |-> rows[id].lockedBy,
                    tries |-> rows[id].attempts]
    BY <1>1, JobsIs
  <2> QED BY <1>1, <2>1
<1> QED BY <1>1, <1>7, <1>8 DEF Table!Revive, Doing

\* Cleanup removes completed jobs.
LEMMA CleanupRefines ==
    ASSUME IInv, NEW t, Cleanup(t)
    PROVE  Expired(t) \in SUBSET JobIds /\ Table!Remove(Expired(t))
<1>1. /\ rows' = [id \in JobIds |-> IF id \in Expired(t) THEN None ELSE rows[id]]
      /\ UNCHANGED <<nextId, lostAcks, state, jobId>>
  BY DEF Cleanup, clientVars, countVars
<1>2. \A id \in Expired(t) : id \in JobIds /\ Exists(id) /\ rows[id].status = "completed"
  BY DEF Expired
<1>3. ASSUME NEW id \in Expired(t)
      PROVE  Jobs[id].phase = "completed" /\ Jobs'[id] = Table!Nobodys("removed", 0)
  <2>1. id \in JobIds /\ id < nextId
    BY <1>2 DEF IInv, RowInv, Allocated
  <2>2. Jobs[id] = [phase |-> rows[id].status, owner |-> rows[id].lockedBy,
                    tries |-> rows[id].attempts]
    BY <1>2, <2>1, JobsIs
  <2>3. rows'[id] = None /\ id < nextId'
    BY <1>1, <2>1
  <2> QED BY <1>2, <2>1, <2>2, <2>3 DEF Jobs, Exists, Table!Nobodys
<1>4. ASSUME NEW id \in JobIds, id \notin Expired(t) PROVE Jobs'[id] = Jobs[id]
  BY <1>1, <1>4 DEF Jobs, Exists
<1>5. Jobs' = [id \in JobIds |-> IF id \in Expired(t) THEN Table!Nobodys("removed", 0)
                                 ELSE Jobs[id]]
  <2>1. Jobs' = [id \in JobIds |-> Jobs'[id]]
    BY DEF Jobs
  <2> QED BY <1>2, <1>3, <1>4, <2>1
<1> QED BY <1>1, <1>2, <1>3, <1>5 DEF Table!Remove, Doing

\* The table broth_jobs with its statements, locks and clients (pg_backend.go)
\* implements the job table: in the states of the invariant every step is a step
\* of the job table or leaves it alone.
THEOREM PgBackendImplementsJobTable == Spec => ImplementsJobTable
<1>1. IInv /\ [Next]_vars => [Table!Next]_(Table!vars)
  <2> SUFFICES ASSUME IInv, [Next]_vars PROVE [Table!Next]_(Table!vars)
    OBVIOUS
  <2>1. CASE \E q \in Queues, p \in Priorities : Enqueue(q, p)
    BY <2>1, EnqueueRefines DEF Table!Next
  <2>2. ASSUME NEW w \in Workers, WorkerStep(w) PROVE [Table!Next]_(Table!vars)
    <3>1. CASE FetchReturns(w) \/ FetchAnswerLost(w)
      BY <3>1, FetchRefines DEF Table!Next
    <3>2. CASE Report(w) \/ ReportUnanswered(w)
      BY <3>2, ReportRefines DEF Table!Next
    <3>3. CASE ReportAgain(w)
      BY <3>3, ReportAgainRefines DEF Table!Next
    <3>4. CASE Crash(w)
      BY <3>4, CrashRefines DEF Table!Next
    <3>5. CASE FetchSelect(w)
      BY <3>5, FetchSelectRefines
    <3> QED BY <2>2, <3>1, <3>2, <3>3, <3>4, <3>5 DEF WorkerStep
  <2>3. CASE \E id \in JobIds : RetryDead(id)
    BY <2>3, RetryDeadRefines DEF Table!Next
  <2>4. CASE \E t \in 1..(MaxTime + 1) : Cleanup(t)
    BY <2>4, CleanupRefines DEF Table!Next
  <2>5. CASE Tick \/ UNCHANGED vars
    <3>1. UNCHANGED <<rows, nextId, lostAcks, state, jobId>>
      BY <2>5 DEF Tick, vars, clientVars, countVars
    <3> QED BY <3>1, SameJobs DEF Table!vars, Doing
  <2> QED BY <2>1, <2>2, <2>3, <2>4, <2>5 DEF Next
<1> QED BY <1>1, InitRefines, Invariance, PTL DEF Spec, ImplementsJobTable, Table!Spec
=============================================================================
