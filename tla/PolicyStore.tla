---------------------------- MODULE PolicyStore -----------------------------
(***************************************************************************)
(* src/src/server/policy.js and the way the handlers use it: several node  *)
(* processes, each serving several requests that interleave at every       *)
(* await, over one policies.json guarded by a lock file.                   *)
(*                                                                         *)
(* One action per stretch of code between two awaits.  A node's own state  *)
(* is `rules` (this._rules) and `queue` (this._queue, the promise chain);  *)
(* the disk is `rulesFile` and `lockFile`.                                 *)
(***************************************************************************)
EXTENDS SharingRules, Naturals, Sequences

CONSTANTS
  Faults,      \* what the environment may do, a subset of FaultKinds
  MaxCrashes,  \* bound on the number of node crashes
  Torn,        \* content of policies.json that is not JSON (truncated)
  Free         \* no lock file

\* "crash":   a node process is killed and started again
\* "slow":    a request may wait for live holders beyond LOCK_TIMEOUT_MS
\* "ioerror": a disk operation on policies.json may fail
\* "lockerror": one on the lock file may: open (with another error than
\*            EEXIST), close or rm
FaultKinds == {"crash", "slow", "ioerror", "lockerror"}

ASSUME FaultsAssumption == Faults \subseteq FaultKinds
ASSUME MaxCrashesAssumption == MaxCrashes \in Nat
ASSUME TornAssumption == Torn \notin Rules
ASSUME FreeAssumption == Free \notin Requests

VARIABLES
  rulesFile,   \* content of policies.json
  lockFile,    \* Free, or the request whose open('wx') created it
  rules,       \* rules[n]: this._rules of node n
  queue,       \* queue[n]: the _exclusive() calls of n, the head runs
  pc,          \* where each request is
  snap,        \* what the request's last readFile returned
  out,         \* the text its writeFile was given
  outcome,     \* what mutate() returned
  crashes

vars == <<rulesFile, lockFile, rules, queue, pc, snap, out, outcome, crashes>>
disk == <<rulesFile, lockFile>>

\* From the open('wx') that succeeded until the lock file is removed.
Section  == {"loading", "mutating", "mkdir", "writing", "unlocking"}
\* Inside the callback that _exclusive() chained; "late": its deadline has
\* passed and it has removed a lock file.
Running  == {"acquiring", "removing", "late"} \cup Section
\* "threw": the lock file could not be opened or removed.
Terminal == {"denied", "aborted", "served", "done", "threw", "dead"}
PCs == {"idle", "reloading", "exists", "transfer", "queued"}
         \cup Running \cup Terminal

InSection(r) == pc[r] \in Section

Goto(r, label) == pc' = [pc EXCEPT ![r] = label]

Init ==
  /\ rulesFile = InitRules
  /\ lockFile  = Free
  /\ rules     = [n \in Nodes |-> NoRules]
  /\ queue     = [n \in Nodes |-> <<>>]
  /\ pc        = [r \in Requests |-> "idle"]
  /\ snap      = [r \in Requests |-> Torn]
  /\ out       = [r \in Requests |-> NoRules]
  /\ outcome   = [r \in Requests |-> "none"]
  /\ crashes   = 0

(***************************************************************************)
(* _load(): readFile, and later the assignment of this._rules.             *)
(***************************************************************************)
\* A read that fails is treated like a corrupt file.
ReadResults ==
  {rulesFile} \cup {x \in {Torn} : "ioerror" \in Faults}

Parse(text) == IF text = Torn THEN NoRules ELSE text

ReadFile(r) ==
  \E text \in ReadResults : snap' = [snap EXCEPT ![r] = text]

\* Once this._rules is assigned the text is dropped.
DropText(r) == snap' = [snap EXCEPT ![r] = Torn]

(***************************************************************************)
(* reload() at the start of a handler, and the question it then asks.      *)
(***************************************************************************)
Arrive(r) ==
  /\ pc[r] = "idle"
  /\ ReadFile(r)
  /\ Goto(r, "reloading")
  /\ UNCHANGED <<disk, rules, queue, out, outcome, crashes>>

\* handleShare and handlePublic go straight to _exclusive(); handleUpload
\* asks canWrite() at once; handleDownload first awaits storage.exists().
AfterReload(r, rs) ==
  CASE r.kind \in {"share", "public"} -> "queued"
    [] r.kind = "upload" ->
         IF CanWrite(rs, r.user, r.file) THEN "transfer" ELSE "denied"
    [] r.kind = "download" -> "exists"
    [] r.kind = "list" ->
         IF r.file \in VisibleTo(rs, r.user) THEN "served" ELSE "denied"

Reload(r) ==
  LET rs == Parse(snap[r])
      next == AfterReload(r, rs) IN
  /\ pc[r] = "reloading"
  /\ rules' = [rules EXCEPT ![r.node] = rs]
  /\ Goto(r, next)
  /\ queue' = IF next = "queued" THEN [queue EXCEPT ![r.node] = Append(@, r)]
                                 ELSE queue
  /\ DropText(r)
  /\ UNCHANGED <<disk, out, outcome, crashes>>

\* By now another request may have replaced this._rules.
CheckRead(r) ==
  /\ pc[r] = "exists"
  /\ Goto(r, IF CanRead(rules[r.node], r.user, r.file) THEN "served" ELSE "denied")
  /\ UNCHANGED <<disk, rules, queue, snap, out, outcome, crashes>>

\* The body of the upload: either it is finalized and claim() is called, or
\* the client vanishes.
EndTransfer(r) ==
  /\ pc[r] = "transfer"
  /\ \/ /\ Goto(r, "queued")
        /\ queue' = [queue EXCEPT ![r.node] = Append(@, r)]
     \/ /\ Goto(r, "aborted")
        /\ UNCHANGED queue
  /\ UNCHANGED <<disk, rules, snap, out, outcome, crashes>>

(***************************************************************************)
(* _exclusive(): the promise queue, then the lock file.                    *)
(***************************************************************************)
\* (mutant: no promise queue)
MyTurnNoQueue(r) == TRUE

MyTurn(r) == queue[r.node] # <<>> /\ Head(queue[r.node]) = r

Begin(r) ==
  /\ pc[r] = "queued"
  /\ MyTurn(r)
  /\ Goto(r, "acquiring")
  /\ UNCHANGED <<disk, rules, queue, snap, out, outcome, crashes>>

\* (mutant: open() without the 'x' flag)
LockAvailableOverwrite == TRUE

LockAvailable == lockFile = Free

TryLock(r) ==
  /\ pc[r] \in {"acquiring", "late"}
  /\ LockAvailable
  /\ lockFile' = r
  /\ Goto(r, "loading")
  /\ UNCHANGED <<rulesFile, rules, queue, snap, out, outcome, crashes>>

\* (mutant: no deadline)
MayExpireNever == FALSE

\* There is one deadline for the whole wait.  Unless "slow" is in Faults, it
\* passes only where somebody has left a lock file behind.
MayExpire == "slow" \in Faults \/ \E q \in Requests : pc[q] \in {"dead", "threw"}

\* EEXIST, and the deadline has passed, as it has after a `continue`: the lock
\* file will be removed, whoever created it.
Expire(r) ==
  /\ lockFile # Free
  /\ pc[r] = "late" \/ (pc[r] = "acquiring" /\ MayExpire)
  /\ Goto(r, "removing")
  /\ UNCHANGED <<disk, rules, queue, snap, out, outcome, crashes>>

\* The rm of _acquireLockFile removes whatever file has that name by then.
RemoveStale(r) ==
  /\ pc[r] = "removing"
  /\ lockFile' = Free
  /\ Goto(r, "late")
  /\ UNCHANGED <<rulesFile, rules, queue, snap, out, outcome, crashes>>

\* The callback rejects: so does the request, and the chain moves on.
Throw(r) ==
  /\ outcome' = [outcome EXCEPT ![r] = "error"]
  /\ queue' = [queue EXCEPT ![r.node] = Tail(@)]
  /\ Goto(r, "threw")
  /\ UNCHANGED <<disk, rules, snap, out, crashes>>

\* The open rejects with something else than EEXIST, or the rm rejects.
AcquireFails(r) ==
  /\ "lockerror" \in Faults
  /\ pc[r] \in {"acquiring", "late", "removing"}
  /\ Throw(r)

(***************************************************************************)
(* The section: load, mutate, save, unlock.                                *)
(***************************************************************************)
LoadRead(r) ==
  /\ pc[r] = "loading"
  /\ ReadFile(r)
  /\ Goto(r, "mutating")
  /\ UNCHANGED <<disk, rules, queue, out, outcome, crashes>>

\* (mutant: _exclusive does not load again)
CurrentNotReloaded(r) == rules[r.node]

\* The rules mutate() works on.
Current(r) == Parse(snap[r])

\* The assignment of this._rules and mutate() run with no await in between.
LoadAndMutate(r) ==
  LET rs == Current(r) IN
  /\ pc[r] = "mutating"
  /\ rules'   = [rules EXCEPT ![r.node] = Mutate(rs, r)]
  /\ outcome' = [outcome EXCEPT ![r] = Outcome(rs, r)]
  /\ Goto(r, "mkdir")
  /\ DropText(r)
  /\ UNCHANGED <<disk, queue, out, crashes>>

\* After the mkdir: this._rules is turned into text only now, and writeFile
\* truncates policies.json before it writes.
SaveOpen(r) ==
  /\ pc[r] = "mkdir"
  /\ out' = [out EXCEPT ![r] = rules[r.node]]
  /\ rulesFile' = Torn
  /\ Goto(r, "writing")
  /\ UNCHANGED <<lockFile, rules, queue, snap, outcome, crashes>>

\* If another writer has filled the file since it was truncated, the two
\* texts overlap: the later one replaces it or, when shorter, corrupts it.
Written(r) == {out[r]} \cup {x \in {Torn} : rulesFile # Torn}

SaveWrite(r) ==
  /\ pc[r] = "writing"
  /\ rulesFile' \in Written(r)
  /\ Goto(r, "unlocking")
  /\ UNCHANGED <<lockFile, rules, queue, snap, out, outcome, crashes>>

\* mkdir or writeFile rejects; the `finally` still removes the lock file.
SaveFails(r) ==
  /\ "ioerror" \in Faults
  /\ pc[r] \in {"mkdir", "writing"}
  /\ outcome' = [outcome EXCEPT ![r] = "error"]
  /\ Goto(r, "unlocking")
  /\ UNCHANGED <<disk, rules, queue, snap, out, crashes>>

\* (mutant: the `finally` does not remove the lock file)
LockAfterUnlockKept == lockFile

\* close and rm of the lock file, whoever created it; the chain moves on.
LockAfterUnlock == Free

Unlock(r) ==
  /\ pc[r] = "unlocking"
  /\ lockFile' = LockAfterUnlock
  /\ queue' = [queue EXCEPT ![r.node] = Tail(@)]
  /\ Goto(r, "done")
  /\ UNCHANGED <<rulesFile, rules, snap, out, outcome, crashes>>

\* In the `finally`, close() rejects and the rm is skipped, or the rm itself
\* rejects: the lock file stays, whatever was saved.
UnlockFails(r) ==
  /\ "lockerror" \in Faults
  /\ pc[r] = "unlocking"
  /\ Throw(r)

(***************************************************************************)
(* A node process dies and is started again: its requests are gone, the    *)
(* files stay as they are.                                                 *)
(***************************************************************************)
Crash(n) ==
  /\ "crash" \in Faults
  /\ crashes < MaxCrashes
  /\ crashes' = crashes + 1
  /\ rules' = [rules EXCEPT ![n] = NoRules]
  /\ queue' = [queue EXCEPT ![n] = <<>>]
  /\ pc' = [r \in Requests |->
              IF r.node = n /\ pc[r] \notin {"idle"} \cup Terminal
                THEN "dead" ELSE pc[r]]
  /\ UNCHANGED <<disk, snap, out, outcome>>

Step(r) ==
  \/ Reload(r) \/ CheckRead(r) \/ EndTransfer(r)
  \/ Begin(r) \/ TryLock(r) \/ Expire(r) \/ RemoveStale(r)
  \/ LoadRead(r) \/ LoadAndMutate(r) \/ SaveOpen(r) \/ SaveWrite(r)
  \/ SaveFails(r) \/ Unlock(r) \/ UnlockFails(r)

Next ==
  \/ \E r \in Requests : Arrive(r) \/ Step(r) \/ AcquireFails(r)
  \/ \E n \in Nodes : Crash(n)

Spec == Init /\ [][Next]_vars

\* The event loop runs every ready callback and the disk answers; a client
\* either finishes sending or disconnects.  That an open fails with another
\* error than EEXIST is nothing to wait for.
FairSpec == Spec /\ \A r \in Requests : WF_vars(Step(r))

-----------------------------------------------------------------------------
(***************************************************************************)
(* Properties.                                                             *)
(***************************************************************************)
\* Every variable has the shape the code gives it: in particular
\* this._rules is always a set of rules, whatever was read from the disk.
TypeOK ==
  /\ rulesFile \in Rules \cup {Torn}
  /\ lockFile \in Requests \cup {Free}
  /\ rules \in [Nodes -> Rules]
  /\ queue \in [Nodes -> Seq(Requests)]
  /\ pc \in [Requests -> PCs]
  /\ snap \in [Requests -> Rules \cup {Torn}]
  /\ out \in [Requests -> Rules]
  /\ outcome \in [Requests -> Outcomes]
  /\ crashes \in Nat

\* The promise queue: within one process at most one _exclusive() callback
\* is between its start and its end, whatever crashes, stalls or fails.
NodeSerial ==
  \A r, q \in Requests :
    (pc[r] \in Running /\ pc[q] \in Running /\ r.node = q.node) => r = q

\* The lock file: at most one request of all the nodes is between its
\* successful open('wx') and the rm of its `finally`.
MutualExclusion ==
  \A r, q \in Requests : (InSection(r) /\ InSection(q)) => r = q

\* The lock file outlives its creator's time in the section only when the
\* creator died there, or when closing or removing the file itself failed: not
\* when loading or saving fails, and not when waiters take each other's file
\* away.
NoOrphanLock ==
  lockFile # Free =>
    /\ lockFile \in Requests
    /\ InSection(lockFile) \/ pc[lockFile] \in {"dead", "threw"}

\* The rules as the last save left them or is about to leave them.
Settled ==
  IF rulesFile = Torn /\ lockFile # Free THEN out[lockFile] ELSE rulesFile

\* No operation removes an owner, a reader or a writer: what a request has
\* added stays.
Reflects(rs, r) ==
  /\ rs[r.file] # NoRule
  /\ r.kind = "upload" => rs[r.file].owner = r.user
  /\ (r.kind = "share" /\ r.permission = "read") => r.target \in rs[r.file].readers
  /\ (r.kind = "share" /\ r.permission = "write") => r.target \in rs[r.file].writers

\* A claim or a grant that was confirmed is in policies.json from then on:
\* no rule silently vanishes, whatever other requests do.
AckedGrantsKept ==
  Settled # Torn =>
    \A r \in Updates : (pc[r] = "done" /\ outcome[r] = "ok") => Reflects(Settled, r)

\* Whoever uploads a file first becomes its owner: a claim never succeeds on
\* a file that already had an owner, nor twice on the same file.
OneClaimPerFile ==
  \A r \in Requests : (r.kind = "upload" /\ outcome[r] = "ok") =>
    /\ InitRules[r.file] = NoRule
    /\ \A q \in Requests :
         (q.kind = "upload" /\ outcome[q] = "ok" /\ q.file = r.file) => q = r

\* An existing file is overwritten only by its owner or by somebody who was
\* given write access.
OnlyWritersOverwrite ==
  \A r \in Requests :
    (r.kind = "upload" /\ pc[r] = "transfer" /\ InitRules[r.file] # NoRule) =>
      \/ CanWrite(InitRules, r.user, r.file)
      \/ \E q \in Requests : /\ q.kind = "share" /\ q.permission = "write"
                             /\ q.file = r.file /\ q.target = r.user
                             /\ outcome[q] = "ok"

\* policies.json under the lock implements the atomic rules.  An update
\* takes effect when its save starts.
Applied(r) == pc[r] \in {"writing", "unlocking", "done"}

Atomic == INSTANCE AtomicRules WITH
            shared  <- Settled,
            outcome <- [r \in Requests |-> IF Applied(r) THEN outcome[r] ELSE "none"]

UpdatesAreAtomic == Atomic!Spec

\* Every request that reached a node is answered, or died with its node, also
\* when a crash or a failing rm left the lock file behind.
RequestsSettle ==
  \A r \in Requests : (pc[r] # "idle") ~> (pc[r] \in Terminal)
=============================================================================
