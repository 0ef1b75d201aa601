------------------------------ MODULE MCStatus ------------------------------
(***************************************************************************)
(* Instances of Status for TLC.  One tick is 500 ms: WRITE_INTERVAL_MS and *)
(* the exit of a shutdown are two of them, HEALTH_INTERVAL and             *)
(* PING_TIMEOUT_MS four, STALE_AFTER eight.                                *)
(***************************************************************************)
EXTENDS Status, TLC

CONSTANTS n1, n2

\* Nodes are interchangeable.
NodeSymmetry == Permutations(Nodes)
=============================================================================
