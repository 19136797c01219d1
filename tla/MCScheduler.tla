---------------------------- MODULE MCScheduler -----------------------------
(* Instances of Scheduler for TLC.                                            *)
EXTENDS Scheduler, TLC

CONSTANTS i1, i2, daily, hourly

\* FNV-1a sends different names to different ids, but for rare collisions, which
\* PgLeader_faults has.
Distinct == [d \in Defs |-> d]

\* Periods: one for all definitions, or two that meet at some times only.
EveryTime == [d \in Defs |-> 1]
Every     == [d \in Defs |-> IF d = daily THEN 2 ELSE 1]

\* Instances are interchangeable in runs that treat them alike.
Symmetry == Permutations(Instances)
=============================================================================
