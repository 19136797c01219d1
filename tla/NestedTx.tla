------------------------------ MODULE NestedTx ------------------------------
(* What nested transactions promise (docs/DATA_ACCESS_DESIGN.md:717-719): a   *)
(* call whose function returns an error leaves no trace, a nested call that   *)
(* succeeds hands its writes to the call around it, and the outermost call    *)
(* publishes everything at once.                                              *)
EXTENDS Naturals, Sequences, SequencesExt

CONSTANTS Writes

VARIABLES
    levels,     \* the writes pending in each open call, outermost first
    committed   \* the writes in the database

vars == <<levels, committed>>

Init == levels = <<>> /\ committed = {}

Begin == levels' = Append(levels, {}) /\ UNCHANGED committed

Write(w) ==
    /\ levels # <<>>
    /\ levels' = [levels EXCEPT ![Len(levels)] = @ \cup {w}]
    /\ UNCHANGED committed

Succeed ==
    \/ /\ Len(levels) = 1
       /\ committed' = committed \cup levels[1]
       /\ levels' = <<>>
    \/ /\ Len(levels) > 1
       /\ levels' = [Front(levels) EXCEPT ![Len(levels) - 1] = @ \cup Last(levels)]
       /\ UNCHANGED committed

Fail == levels # <<>> /\ levels' = Front(levels) /\ UNCHANGED committed

\* A panic leaves all open calls at once.
Abandon == levels # <<>> /\ levels' = <<>> /\ UNCHANGED committed

Next == Begin \/ (\E w \in Writes : Write(w)) \/ Succeed \/ Fail \/ Abandon

Spec == Init /\ [][Next]_vars
=============================================================================
