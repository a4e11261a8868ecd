-------------------------- MODULE MCRxTransactions --------------------------
(* RxTransactions for TLC: two requests with a key each.                   *)
EXTENDS RxTransactions, TLC

CONSTANTS q1, q2, k1, k2

MCReq == {q1, q2}
MCKey == {k1, k2}
DistinctKeys == (q1 :> k1) @@ (q2 :> k2)
=============================================================================
