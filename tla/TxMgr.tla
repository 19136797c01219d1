------------------------------- MODULE TxMgr --------------------------------
(* TxMgr (db/tx.go): RunInTx with nesting by savepoints.  One goroutine runs  *)
(* nested RunInTx calls one after the other on one connection; the functions  *)
(* it is given write through ConnFromContext(ctx), and may ignore the error   *)
(* of a nested call (docs/DATA_ACCESS_DESIGN.md:879-888).                     *)
(*                                                                            *)
(* External: the functions; database/sql, which refuses a statement whose     *)
(* context has ended without sending it, and rolls a transaction back when    *)
(* the context of BeginTx ends; PostgreSQL, which after an error refuses      *)
(* every statement until ROLLBACK or ROLLBACK TO.                             *)
(* Abstracted: transaction options, logging, a failing BeginTx (nothing       *)
(* happens), the content of the statements.                                   *)
EXTENDS Naturals, Sequences, FiniteSets, SequencesExt

CONSTANTS
    Writes,         \* statements, each executed at most once
    MaxDepth,       \* bound on nesting
    MaxSavepoints,  \* bound on globalSpID
    MaxErrors,      \* bound on statements answered by an error
    NestedDeadlines \* nested calls may get a context with its own deadline

ASSUME TxAssumption ==
    /\ MaxDepth \in Nat /\ MaxSavepoints \in Nat /\ MaxErrors \in Nat
    /\ NestedDeadlines \in BOOLEAN

VARIABLES
    tx,         \* "none", "open", "aborted" (after an error), "dead" (rolled back)
    log,        \* the writes of the transaction, in order
    saves,      \* its savepoints: name and length of the log
    globalSpID, \* the process-wide counter of savepoint names
    frames,     \* the open calls: savepoint (0: the outermost), context ended
    committed,  \* the writes in the database
    errors,     \* statements answered by an error so far
    due,        \* history: the writes each open call is responsible for
    undone      \* history: the writes of calls that returned an error

txVars == <<tx, log, saves>>
vars == <<txVars, globalSpID, frames, committed, errors, due, undone>>

Init ==
    /\ tx = "none" /\ log = <<>> /\ saves = <<>>
    /\ globalSpID = 0
    /\ frames = <<>>
    /\ committed = {} /\ errors = 0
    /\ due = <<>> /\ undone = {}

Depth   == Len(frames)
Expired == Last(frames).expired
-----------------------------------------------------------------------------
(* External: statements on the connection. *)

\* The savepoint a name stands for: the latest of that name.
Position(name) ==
    CHOOSE n \in DOMAIN saves :
        /\ saves[n].name = name
        /\ \A m \in DOMAIN saves : saves[m].name = name => m <= n

\* ROLLBACK TO undoes what came after the savepoint, and keeps the savepoint.
RollbackTo(name) ==
    /\ tx' = "open"
    /\ log' = SubSeq(log, 1, saves[Position(name)].at)
    /\ saves' = SubSeq(saves, 1, Position(name))

\* RELEASE forgets the savepoint and those after it.
ReleaseSavepoint(name) ==
    /\ saves' = SubSeq(saves, 1, Position(name) - 1)
    /\ UNCHANGED <<tx, log>>
-----------------------------------------------------------------------------
(* The calls *)

\* runNewTx: no transaction in the context.
RunNewTx ==
    /\ frames = <<>> /\ tx = "none"
    /\ tx' = "open" /\ log' = <<>> /\ saves' = <<>>
    /\ frames' = <<[sp |-> 0, expired |-> FALSE]>>
    /\ due' = <<{}>>
    /\ UNCHANGED <<globalSpID, committed, errors, undone>>

\* Mutant: all savepoints have the same name.
RunSavepoint_SameName ==
    /\ frames # <<>> /\ Depth < MaxDepth /\ globalSpID < MaxSavepoints
    /\ tx = "open" /\ ~Expired
    /\ globalSpID' = globalSpID + 1
    /\ saves' = Append(saves, [name |-> 1, at |-> Len(log)])
    /\ frames' = Append(frames, [sp |-> 1, expired |-> FALSE])
    /\ due' = Append(due, {})
    /\ UNCHANGED <<tx, log, committed, errors, undone>>

\* runSavepoint: a name of its own; when SAVEPOINT fails the call returns the
\* error and the function around it goes on.
RunSavepoint ==
    /\ frames # <<>> /\ Depth < MaxDepth /\ globalSpID < MaxSavepoints
    /\ globalSpID' = globalSpID + 1
    /\ \/ /\ tx = "open" /\ ~Expired
          /\ saves' = Append(saves, [name |-> globalSpID', at |-> Len(log)])
          /\ frames' = Append(frames, [sp |-> globalSpID', expired |-> FALSE])
          /\ due' = Append(due, {})
       \/ /\ tx # "open" \/ Expired
          /\ UNCHANGED <<saves, frames, due>>
    /\ UNCHANGED <<tx, log, committed, errors, undone>>

\* External: the innermost function executes a statement; a statement that is
\* refused changes nothing.
Write(w) ==
    /\ frames # <<>> /\ tx = "open" /\ ~Expired
    /\ w \notin committed \cup undone \cup ToSet(log)
    /\ log' = Append(log, w)
    /\ due' = [due EXCEPT ![Depth] = @ \cup {w}]
    /\ UNCHANGED <<tx, saves, globalSpID, frames, committed, errors, undone>>

\* External: a statement fails, and with it the transaction until a rollback.
WriteFails ==
    /\ frames # <<>> /\ tx = "open" /\ ~Expired
    /\ errors < MaxErrors
    /\ errors' = errors + 1
    /\ tx' = "aborted"
    /\ UNCHANGED <<log, saves, globalSpID, frames, committed, due, undone>>

\* The call returns an error to the function around it.
ReturnError ==
    /\ frames' = Front(frames)
    /\ due' = Front(due)
    /\ undone' = undone \cup Last(due)

\* The nested call returns nil: its writes become its caller's.
ReturnNil ==
    /\ frames' = Front(frames)
    /\ due' = [Front(due) EXCEPT ![Depth - 1] = @ \cup Last(due)]
    /\ UNCHANGED undone

\* The nested call returns an error and its writes stay in the transaction: they
\* become its caller's all the same.
ReturnErrorKept ==
    /\ frames' = Front(frames)
    /\ due' = [Front(due) EXCEPT ![Depth - 1] = @ \cup Last(due)]
    /\ undone' = undone \cup Last(due)

\* Mutant: the savepoint is not rolled back.
NestedFnFails_NoRollback ==
    /\ Depth > 1
    /\ UNCHANGED txVars
    /\ ReturnError
    /\ UNCHANGED <<globalSpID, committed, errors>>

\* fn of a nested call returns an error: ROLLBACK TO with the call's context; a
\* failure of that statement is only logged.
NestedFnFails ==
    /\ Depth > 1
    /\ \/ tx # "dead" /\ ~Expired /\ RollbackTo(Last(frames).sp) /\ ReturnError
       \/ tx # "dead" /\ Expired /\ UNCHANGED txVars /\ ReturnErrorKept
       \/ tx = "dead" /\ UNCHANGED txVars /\ ReturnError
    /\ UNCHANGED <<globalSpID, committed, errors>>

\* fn of a nested call returns nil: RELEASE, whose failure is returned.
NestedFnSucceeds ==
    /\ Depth > 1
    /\ \/ tx = "open" /\ ~Expired /\ ReleaseSavepoint(Last(frames).sp) /\ ReturnNil
       \/ tx = "open" /\ Expired /\ UNCHANGED txVars /\ ReturnErrorKept
       \/ tx # "open" /\ UNCHANGED txVars /\ ReturnError
    /\ UNCHANGED <<globalSpID, committed, errors>>

\* fn of the outermost call returns an error: tx.Rollback.
FnFails ==
    /\ Depth = 1
    /\ tx' = "none" /\ log' = <<>> /\ saves' = <<>>
    /\ ReturnError
    /\ UNCHANGED <<globalSpID, committed, errors>>

\* fn of the outermost call returns nil: tx.Commit, which of a failed
\* transaction makes a rollback and an error.
FnSucceeds ==
    /\ Depth = 1
    /\ \/ /\ tx = "open"
          /\ committed' = committed \cup ToSet(log)
          /\ frames' = <<>> /\ due' = <<>> /\ UNCHANGED undone
       \/ /\ tx # "open"
          /\ ReturnError
          /\ UNCHANGED committed
    /\ tx' = "none" /\ log' = <<>> /\ saves' = <<>>
    /\ UNCHANGED <<globalSpID, errors>>

\* A panic leaves all calls; nothing is deferred, so the transaction stays open.
FnPanics ==
    /\ frames # <<>>
    /\ frames' = <<>> /\ due' = <<>>
    /\ undone' = undone \cup UNION ToSet(due)
    /\ UNCHANGED <<txVars, globalSpID, committed, errors>>

\* The context given to BeginTx ends (with the request, at the latest):
\* database/sql rolls the transaction back.
CtxDone ==
    /\ tx \in {"open", "aborted"}
    /\ tx' = IF frames = <<>> THEN "none" ELSE "dead"
    /\ log' = <<>> /\ saves' = <<>>
    /\ frames' = [n \in DOMAIN frames |-> [frames[n] EXCEPT !.expired = TRUE]]
    /\ UNCHANGED <<globalSpID, committed, errors, due, undone>>

\* The context of a nested call, which has a deadline of its own, ends.
NestedCtxDone(n) ==
    /\ NestedDeadlines /\ n > 1 /\ ~frames[n].expired
    /\ frames' = [m \in DOMAIN frames |->
                    IF m >= n THEN [frames[m] EXCEPT !.expired = TRUE] ELSE frames[m]]
    /\ UNCHANGED <<txVars, globalSpID, committed, errors, due, undone>>
-----------------------------------------------------------------------------
Next ==
    \/ RunNewTx \/ RunSavepoint
    \/ \E w \in Writes : Write(w)
    \/ WriteFails
    \/ NestedFnFails \/ NestedFnSucceeds \/ FnFails \/ FnSucceeds \/ FnPanics
    \/ CtxDone
    \/ \E n \in DOMAIN frames : NestedCtxDone(n)

Spec == Init /\ [][Next]_vars
-----------------------------------------------------------------------------
(* Properties *)

\* While the transaction can still be committed, it holds exactly the writes its
\* open calls answer for: those of failed nested calls are gone although their
\* savepoints stay behind, unless their own context ended, and those of finished
\* ones are kept.
LogMatchesCalls ==
    tx = "open" /\ frames # <<>> => ToSet(log) = UNION ToSet(due)

\* RunInTx implements nested transactions, whatever errors, panics and ends of
\* contexts happen and whichever errors are ignored; a nested call whose own
\* context ended before its savepoint was dealt with counts as one that succeeded.
Nested == INSTANCE NestedTx WITH levels <- due
ImplementsNestedTx == Nested!Spec

\* docs/DATA_ACCESS_DESIGN.md:718: a call is rolled back when fn returns an error:
\* what a call that returned an error wrote is never committed.
FailedLeavesNoTrace == committed \cap undone = {}
=============================================================================
