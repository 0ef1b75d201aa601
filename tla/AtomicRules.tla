---------------------------- MODULE AtomicRules -----------------------------
(***************************************************************************)
(* What policy.js promises to the rest of the system: the rules are one    *)
(* value shared by every node, and each claim, share or visibility change  *)
(* that is answered was applied to it exactly once, in one step, on top of *)
(* all earlier ones ("whoever uploads a file first becomes its owner",     *)
(* "only the owner can share", no rule silently vanishes).                 *)
(***************************************************************************)
EXTENDS SharingRules

VARIABLES
  shared,    \* the rules
  outcome    \* what each request was told; "none" until it has been applied

vars == <<shared, outcome>>

Init ==
  /\ shared  = InitRules
  /\ outcome = [r \in Requests |-> "none"]

Apply(r) ==
  /\ outcome[r] = "none"
  /\ shared'  = Mutate(shared, r)
  /\ outcome' = [outcome EXCEPT ![r] = Outcome(shared, r)]

Next == \E r \in Updates : Apply(r)

Spec == Init /\ [][Next]_vars
=============================================================================
