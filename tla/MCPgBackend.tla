---------------------------- MODULE MCPgBackend -----------------------------
(* Instances of PgBackend for TLC.                                            *)
EXTENDS PgBackend, TLC

CONSTANTS w1, w2, mail, default

\* w1 serves both queues, w2 one of them.
MCWorkerQueues == w1 :> {mail, default} @@ w2 :> {default}
=============================================================================
