------------------------------ MODULE MCUpload ------------------------------
(***************************************************************************)
(* Instances of Upload for TLC.                                            *)
(***************************************************************************)
EXTENDS Upload

CONSTANTS n1, n2, x, y, alice, bob

\* Local files of three and of two chunks.
Chunks   == [s \in Sources |-> IF s = x THEN 3 ELSE 2]
AllAlice == [s \in Sources |-> alice]
TwoUsers == [s \in Sources |-> IF s = y THEN bob ELSE alice]
=============================================================================
