----------------------------- MODULE StoredFile -----------------------------
(***************************************************************************)
(* What the storage promises of one name: a file is stored as a whole,     *)
(* never changes while it has the real name, and is replaced by removing   *)
(* it first (finalize() of src/src/server/storage.js).  Upload shows that  *)
(* the nodes keep this promise; it is all that Download relies on.         *)
(***************************************************************************)
CONSTANTS
  Wholes,    \* the files that somebody uploads
  NoFile

VARIABLE stored

Init == stored \in Wholes \cup {NoFile}

Remove  == stored # NoFile /\ stored' = NoFile
Promote == stored = NoFile /\ stored' \in Wholes

Next == Remove \/ Promote

Spec == Init /\ [][Next]_stored
=============================================================================
