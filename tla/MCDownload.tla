----------------------------- MODULE MCDownload -----------------------------
(***************************************************************************)
(* Instances of Download for TLC.                                          *)
(***************************************************************************)
EXTENDS Download

CONSTANTS n1, v1, v2

\* A file of three chunks and one of two replace each other.
Sizes == [v \in Versions |-> IF v = v1 THEN 3 ELSE 2]
=============================================================================
