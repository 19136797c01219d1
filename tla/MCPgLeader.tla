---------------------------- MODULE MCPgLeader ------------------------------
(* Instances of PgLeader for TLC.                                             *)
EXTENDS PgLeader, TLC

CONSTANTS i1, i2, p1, p2, p3, k1, k2

\* Two goroutines in i1, one in i2.
MCInstanceOf == p1 :> i1 @@ p2 :> i1 @@ p3 :> i2

MCHashKey == k1 :> 1 @@ k2 :> 2
=============================================================================
