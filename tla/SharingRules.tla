---------------------------- MODULE SharingRules ----------------------------
(***************************************************************************)
(* The sharing policy as data: what one rule of policies.json says, the    *)
(* questions a handler asks of a set of rules, and what each of the three  *)
(* mutations does to it.  src/src/server/policy.js, without its disk, its  *)
(* lock file or its promise queue (those are PolicyStore).                 *)
(***************************************************************************)
CONSTANTS
  Nodes,     \* the storage node processes
  Users,
  Files,     \* file names, already passed through safeName()
  NoRule,    \* a file that has no entry in the rules
  Requests   \* the requests the nodes receive, each at most once

Kinds       == {"upload", "download", "list", "share", "public"}
Permissions == {"read", "write", "other"}   \* req.permission is any string

\* `target`, `permission` are meaningful for "share", `value` for "public".
Request == [node : Nodes, kind : Kinds, user : Users, file : Files,
            target : Users, permission : Permissions, value : BOOLEAN]

ASSUME RequestsAssumption == Requests \subseteq Request

Rule  == [owner : Users, readers : SUBSET Users, writers : SUBSET Users,
          public : BOOLEAN]

ASSUME NoRuleAssumption == NoRule \notin Rule

Rules   == [Files -> Rule \cup {NoRule}]
NoRules == [f \in Files |-> NoRule]

CONSTANT InitRules   \* what policies.json holds when the nodes start

ASSUME InitRulesAssumption == InitRules \in Rules

(***************************************************************************)
(* Queries.                                                                *)
(***************************************************************************)
CanRead(rs, u, f) ==
  /\ rs[f] # NoRule
  /\ rs[f].public \/ u = rs[f].owner \/ u \in rs[f].readers

CanWrite(rs, u, f) ==
  rs[f] # NoRule => (u = rs[f].owner \/ u \in rs[f].writers)

VisibleTo(rs, u) ==
  {f \in Files : rs[f] # NoRule /\ \/ rs[f].public
                                   \/ u = rs[f].owner
                                   \/ u \in rs[f].readers \cup rs[f].writers}

(***************************************************************************)
(* Mutations.  Allowed: the mutation takes effect (claim returns true,     *)
(* share and setPublic return ok).  The rule is then replaced by NewRule;  *)
(* otherwise the rules stay as they are (and are saved all the same).      *)
(***************************************************************************)
Updates == {r \in Requests : r.kind \in {"upload", "share", "public"}}

Allowed(rs, r) ==
  \/ r.kind = "upload" /\ rs[r.file] = NoRule
  \/ /\ r.kind \in {"share", "public"}
     /\ rs[r.file] # NoRule
     /\ rs[r.file].owner = r.user
     /\ r.kind = "share" => r.permission \in {"read", "write"}

\* (mutant: what is pushed is undefined)
GrantedUndefined(list, u) == list \cup {NoRule}

Granted(list, u) == list \cup {u}

NewRule(old, r) ==
  CASE r.kind = "upload" ->
         [owner |-> r.user, readers |-> {}, writers |-> {}, public |-> FALSE]
    [] r.kind = "share" /\ r.permission = "read" ->
         [old EXCEPT !.readers = Granted(@, r.target)]
    [] r.kind = "share" /\ r.permission # "read" ->
         [old EXCEPT !.writers = Granted(@, r.target)]
    [] OTHER -> [old EXCEPT !.public = r.value]

Mutate(rs, r) ==
  IF Allowed(rs, r) THEN [rs EXCEPT ![r.file] = NewRule(rs[r.file], r)] ELSE rs

Outcomes == {"none", "ok", "refused", "error"}

Outcome(rs, r) == IF Allowed(rs, r) THEN "ok" ELSE "refused"
=============================================================================
