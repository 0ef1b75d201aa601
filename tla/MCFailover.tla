----------------------------- MODULE MCFailover -----------------------------
(***************************************************************************)
(* Instances of Failover for TLC.  One tick is 500 ms: RETRY_PAUSE is three *)
(* of them, HEALTH_INTERVAL four.                                           *)
(***************************************************************************)
EXTENDS Failover, TLC

CONSTANTS n1, n2, n3, c1, c2

\* One client uploads, the others download.
Mixed == [c \in Clients |-> IF c = c1 THEN "upload" ELSE "download"]

\* Nodes are interchangeable.
NodeSymmetry == Permutations(Nodes)
=============================================================================
