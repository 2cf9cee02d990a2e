---------------------------- MODULE MCRecalcQueue ---------------------------
(* Instances of RecalcQueue for TLC.                                       *)
EXTENDS RecalcQueue, TLC

CONSTANTS r1, r2, w1, w2, k1

(* Every request passes the one key of its shop.                           *)
OneKey == [r \in Requests |-> k1]
=============================================================================
