------------------------------ MODULE JobTable ------------------------------
(* What a job Backend promises its workers (job/backend.go:9-33, 48-49): a    *)
(* job waits, is given to one worker, counted as tried, and settled by that   *)
(* worker's report; it waits again while it has tries left; only a completed  *)
(* job is removed, only a dead one revived.  There are no rows, no locks and  *)
(* no moments within an operation.                                            *)
(*                                                                            *)
(* A report is addressed to a job and not to one try of it: a worker that had *)
(* no answer (not sure) may repeat its report on what the job has become.     *)
EXTENDS Naturals

CONSTANTS Workers, JobIds, MaxAttempts, None

VARIABLES
    job,    \* [id]: its phase, the worker it was given to or None, its tries
    doing,  \* [worker]: the job it executes, or None
    sure    \* every report was answered

vars == <<job, doing, sure>>

Nobodys(phase, tries) == [phase |-> phase, owner |-> None, tries |-> tries]

Init ==
    /\ job = [id \in JobIds |-> Nobodys("new", 0)]
    /\ doing = [w \in Workers |-> None]
    /\ sure = TRUE

Add(id) ==
    /\ job[id].phase = "new"
    /\ job' = [job EXCEPT ![id] = Nobodys("pending", 0)]
    /\ UNCHANGED <<doing, sure>>

\* The job is given to a worker that is free; it may be lost on the way.
Give(w, id) ==
    /\ doing[w] = None
    /\ job[id].phase = "pending" /\ job[id].tries < MaxAttempts
    /\ job' = [job EXCEPT ![id] = [phase |-> "running", owner |-> w, tries |-> @.tries + 1]]
    /\ doing' = [doing EXCEPT ![w] = id] \/ UNCHANGED doing
    /\ UNCHANGED sure

\* What a report makes of a job that is still there.
Settle(id) ==
    \/ job[id].phase = "removed" /\ UNCHANGED job
    \/ /\ job[id].phase \in {"pending", "running", "completed", "dead"}
       /\ \E phase \in {"pending", "completed", "dead"} :
             /\ phase = "pending" => job[id].tries < MaxAttempts
             /\ job' = [job EXCEPT ![id] = Nobodys(phase, @.tries)]

\* A worker reports what it executed, and is answered or not.
Report(w) ==
    /\ doing[w] # None
    /\ sure => job[doing[w]].owner = w
    /\ Settle(doing[w])
    /\ doing' = [doing EXCEPT ![w] = None]
    /\ UNCHANGED sure \/ ~sure'

Repeat(id) == ~sure /\ Settle(id) /\ UNCHANGED <<doing, sure>>

\* A worker that is lost leaves its job as it is.
Lose(w) == doing' = [doing EXCEPT ![w] = None] /\ UNCHANGED <<job, sure>>

Revive(id) ==
    /\ job[id].phase = "dead"
    /\ job' = [job EXCEPT ![id] = Nobodys("pending", 0)]
    /\ UNCHANGED <<doing, sure>>

Remove(ids) ==
    /\ \A id \in ids : job[id].phase = "completed"
    /\ job' = [id \in JobIds |-> IF id \in ids THEN Nobodys("removed", 0) ELSE job[id]]
    /\ UNCHANGED <<doing, sure>>

Next ==
    \/ \E id \in JobIds :
          \/ Add(id) \/ Repeat(id) \/ Revive(id)
          \/ \E w \in Workers : Give(w, id)
    \/ \E w \in Workers : Report(w) \/ Lose(w)
    \/ \E ids \in SUBSET JobIds : Remove(ids)

Spec == Init /\ [][Next]_vars
=============================================================================
