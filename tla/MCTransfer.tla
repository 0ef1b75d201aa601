----------------------------- MODULE MCTransfer -----------------------------
(***************************************************************************)
(* An instance of Transfer for TLC: a header that fits and one that is too  *)
(* long, an empty body, one of a single chunk, one longer than the buffer.  *)
(***************************************************************************)
EXTENDS Transfer
=============================================================================
