------------------------- MODULE PolicyStoreProofs --------------------------
(***************************************************************************)
(* Theorems about PolicyStore, for every set of nodes, users, files and    *)
(* requests.                                                               *)
(***************************************************************************)
EXTENDS PolicyStore, TLAPS

(***************************************************************************)
(* What the mutations do to the rules.                                     *)
(***************************************************************************)
LEMMA NewRuleType ==
  ASSUME NEW old \in Rule, NEW r \in Request
  PROVE  NewRule(old, r) \in Rule
BY DEF NewRule, Granted, Rule, Request, Kinds, Permissions

LEMMA ClaimRuleType ==
  ASSUME NEW old, NEW r \in Request, r.kind = "upload"
  PROVE  NewRule(old, r) \in Rule
BY DEF NewRule, Rule, Request

LEMMA MutateType ==
  ASSUME NEW rs \in Rules, NEW r \in Requests
  PROVE  Mutate(rs, r) \in Rules
<1>1. r \in Request /\ r.file \in Files
  BY RequestsAssumption DEF Request
<1>2. ASSUME Allowed(rs, r) PROVE NewRule(rs[r.file], r) \in Rule
  <2>1. CASE r.kind = "upload"
    BY <1>1, <2>1, ClaimRuleType
  <2>2. CASE r.kind # "upload"
    <3>1. rs[r.file] \in Rule
      BY <1>1, <1>2, <2>2 DEF Allowed, Rules
    <3>2. QED
      BY <1>1, <3>1, NewRuleType
  <2>3. QED
    BY <2>1, <2>2
<1>3. QED
  BY <1>1, <1>2 DEF Mutate, Rules

(***************************************************************************)
(* Type correctness.                                                       *)
(***************************************************************************)
LEMMA ParseType ==
  ASSUME NEW text \in Rules \cup {Torn}
  PROVE  Parse(text) \in Rules
BY DEF Parse, Rules, NoRules

LEMMA ReadType ==
  ASSUME TypeOK, NEW r \in Requests, ReadFile(r)
  PROVE  snap' \in [Requests -> Rules \cup {Torn}]
BY DEF TypeOK, ReadFile, ReadResults

LEMMA GotoType ==
  ASSUME TypeOK, NEW r \in Requests, NEW label \in PCs, Goto(r, label)
  PROVE  pc' \in [Requests -> PCs]
BY DEF TypeOK, Goto

LEMMA NodeOfType == \A r \in Requests : r.node \in Nodes /\ r.kind \in Kinds
BY RequestsAssumption DEF Request

LEMMA AfterReloadType ==
  ASSUME NEW rs, NEW r \in Requests
  PROVE  AfterReload(r, rs) \in PCs
<1>1. r.kind \in {"upload", "download", "list", "share", "public"}
  BY NodeOfType DEF Kinds
<1>2. QED
  BY <1>1 DEF AfterReload, PCs, Terminal

\* The type invariant holds of every reachable state: in particular no read
\* of a truncated policies.json leaves anything but rules in this._rules.
THEOREM TypeCorrect == Spec => []TypeOK
<1>1. Init => TypeOK
  BY InitRulesAssumption DEF Init, TypeOK, PCs, Outcomes, Rules, NoRules
<1>2. TypeOK /\ [Next]_vars => TypeOK'
  <2> SUFFICES ASSUME TypeOK, [Next]_vars PROVE TypeOK'
    OBVIOUS
  <2> USE NodeOfType DEF DropText
  <2>1. ASSUME NEW r \in Requests, Arrive(r) PROVE TypeOK'
    <3>1. "reloading" \in PCs
      BY DEF PCs
    <3>2. QED
      BY <2>1, <3>1, ReadType, GotoType DEF Arrive, TypeOK, disk
  <2>2. ASSUME NEW r \in Requests, Reload(r) PROVE TypeOK'
    <3>1. Parse(snap[r]) \in Rules
      BY ParseType DEF TypeOK
    <3>2. pc' \in [Requests -> PCs]
      BY <2>2, AfterReloadType, GotoType DEF Reload
    <3>3. queue' \in [Nodes -> Seq(Requests)]
      BY <2>2 DEF Reload, TypeOK
    <3>4. QED
      BY <2>2, <3>1, <3>2, <3>3 DEF Reload, TypeOK, disk
  <2>3. ASSUME NEW r \in Requests, CheckRead(r) PROVE TypeOK'
    <3>1. {"served", "denied"} \subseteq PCs
      BY DEF PCs, Terminal
    <3>2. QED
      BY <2>3, <3>1, GotoType DEF CheckRead, TypeOK, disk
  <2>4. ASSUME NEW r \in Requests, EndTransfer(r) PROVE TypeOK'
    <3>1. {"queued", "aborted"} \subseteq PCs
      BY DEF PCs, Terminal
    <3>2. pc' \in [Requests -> PCs]
      BY <2>4, <3>1, GotoType DEF EndTransfer
    <3>3. queue' = queue \/ queue' = [queue EXCEPT ![r.node] = Append(@, r)]
      BY <2>4 DEF EndTransfer
    <3>4. queue' \in [Nodes -> Seq(Requests)]
      <4>1. queue \in [Nodes -> Seq(Requests)] /\ r.node \in Nodes
        BY DEF TypeOK
      <4>2. Append(queue[r.node], r) \in Seq(Requests)
        BY <4>1
      <4>3. QED
        BY <3>3, <4>1, <4>2
    <3>5. QED
      BY <2>4, <3>2, <3>4 DEF EndTransfer, TypeOK, disk
  <2>5. ASSUME NEW r \in Requests, Begin(r) \/ Expire(r) PROVE TypeOK'
    <3>1. {"acquiring", "removing"} \subseteq PCs
      BY DEF PCs, Running
    <3>2. QED
      BY <2>5, <3>1, GotoType DEF Begin, Expire, TypeOK, disk
  <2>6. ASSUME NEW r \in Requests, TryLock(r) \/ RemoveStale(r) PROVE TypeOK'
    <3>1. {"loading", "late"} \subseteq PCs
      BY DEF PCs, Running, Section
    <3>2. QED
      BY <2>6, <3>1, GotoType DEF TryLock, RemoveStale, TypeOK
  <2>7. ASSUME NEW r \in Requests, LoadRead(r) PROVE TypeOK'
    <3>1. "mutating" \in PCs
      BY DEF PCs, Running, Section
    <3>2. QED
      BY <2>7, <3>1, ReadType, GotoType DEF LoadRead, TypeOK, disk
  <2>8. ASSUME NEW r \in Requests, LoadAndMutate(r) PROVE TypeOK'
    <3>1. "mkdir" \in PCs
      BY DEF PCs, Running, Section
    <3>2. Mutate(Current(r), r) \in Rules
      BY ParseType, MutateType DEF Current, TypeOK
    <3>3. Outcome(Current(r), r) \in Outcomes
      BY DEF Outcome, Outcomes
    <3>4. QED
      BY <2>8, <3>1, <3>2, <3>3, GotoType DEF LoadAndMutate, TypeOK, disk
  <2>9. ASSUME NEW r \in Requests, SaveOpen(r) PROVE TypeOK'
    <3>1. "writing" \in PCs
      BY DEF PCs, Running, Section
    <3>2. QED
      BY <2>9, <3>1, GotoType DEF SaveOpen, TypeOK
  <2>10. ASSUME NEW r \in Requests, SaveWrite(r) \/ SaveFails(r) PROVE TypeOK'
    <3>1. "unlocking" \in PCs
      BY DEF PCs, Running, Section
    <3>2. "error" \in Outcomes
      BY DEF Outcomes
    <3>3. QED
      BY <2>10, <3>1, <3>2, GotoType
      DEF SaveWrite, SaveFails, Written, TypeOK, disk
  <2>11. ASSUME NEW r \in Requests, Unlock(r) PROVE TypeOK'
    <3>1. "done" \in PCs
      BY DEF PCs, Terminal
    <3>2. PICK q \in Seq(Requests) : queue[r.node] = q
      BY DEF TypeOK
    <3>3. CASE q # <<>>
      BY <2>11, <3>1, <3>2, <3>3, GotoType DEF Unlock, LockAfterUnlock, TypeOK
    <3>4. CASE q = <<>>
      BY <2>11, <3>1, <3>2, <3>4, GotoType DEF Unlock, LockAfterUnlock, TypeOK
    <3>5. QED
      BY <3>3, <3>4
  <2>11a. ASSUME NEW r \in Requests, AcquireFails(r) \/ UnlockFails(r) PROVE TypeOK'
    <3>1. Throw(r) /\ "threw" \in PCs /\ "error" \in Outcomes
      BY <2>11a DEF AcquireFails, UnlockFails, PCs, Terminal, Outcomes
    <3>2. queue' \in [Nodes -> Seq(Requests)]
      <4>1. PICK q \in Seq(Requests) : queue[r.node] = q
        BY DEF TypeOK
      <4>2. CASE q # <<>>
        BY <3>1, <4>1, <4>2 DEF Throw, TypeOK
      <4>3. CASE q = <<>>
        BY <3>1, <4>1, <4>3 DEF Throw, TypeOK
      <4>4. QED
        BY <4>2, <4>3
    <3>3. QED
      BY <3>1, <3>2, GotoType DEF Throw, TypeOK, disk
  <2>12. ASSUME NEW n \in Nodes, Crash(n) PROVE TypeOK'
    <3>1. "dead" \in PCs
      BY DEF PCs, Terminal
    <3>2. NoRules \in Rules
      BY DEF NoRules, Rules
    <3>3. QED
      BY <2>12, <3>1, <3>2 DEF Crash, TypeOK, disk
  <2>13. CASE UNCHANGED vars
    BY <2>13 DEF vars, TypeOK
  <2>14. QED
    BY <2>1, <2>2, <2>3, <2>4, <2>5, <2>6, <2>7, <2>8, <2>9, <2>10, <2>11,
       <2>11a, <2>12, <2>13 DEF Next, Step
<1>3. QED
  BY <1>1, <1>2, PTL DEF Spec

(***************************************************************************)
(* The promise queue serialises the _exclusive() calls of one process,     *)
(* whatever the environment does.  Inductive: only the head of a chain     *)
(* runs, and only the running call shortens the chain.                     *)
(***************************************************************************)
QueueInv == \A r \in Requests : pc[r] \in Running => MyTurn(r)

LEMMA QueueInvStep == TypeOK /\ QueueInv /\ [Next]_vars => QueueInv'
<1> SUFFICES ASSUME TypeOK, QueueInv, [Next]_vars PROVE QueueInv'
  OBVIOUS
<1> USE NodeOfType DEF QueueInv, MyTurn
<1>a. ASSUME NEW n \in Nodes, NEW r \in Requests, queue[n] # <<>>
      PROVE  Append(queue[n], r) # <<>> /\ Head(Append(queue[n], r)) = Head(queue[n])
  <2>1. queue[n] \in Seq(Requests)
    BY DEF TypeOK
  <2>2. QED
    BY <1>a, <2>1
<1>1. ASSUME NEW r \in Requests,
             Arrive(r) \/ CheckRead(r) \/ Expire(r) \/ LoadRead(r) \/ SaveOpen(r)
             \/ SaveWrite(r) \/ SaveFails(r) \/ TryLock(r) \/ RemoveStale(r)
             \/ LoadAndMutate(r) \/ Begin(r)
      PROVE  QueueInv'
  BY <1>1 DEF TypeOK, Goto, Running, Section, Arrive, CheckRead, Expire,
     LoadRead, SaveOpen, SaveWrite, SaveFails, TryLock, RemoveStale,
     LoadAndMutate, Begin
<1>2. ASSUME NEW r \in Requests, Reload(r) \/ EndTransfer(r) PROVE QueueInv'
  <2>1. queue' = queue \/ queue' = [queue EXCEPT ![r.node] = Append(@, r)]
    BY <1>2 DEF Reload, EndTransfer
  <2>2. \A q \in Requests : pc'[q] \in Running => pc[q] \in Running
    <3>1. AfterReload(r, Parse(snap[r])) \notin Running
      BY NodeOfType DEF AfterReload, Running, Section, Kinds
    <3>2. QED
      BY <1>2, <3>1 DEF TypeOK, Goto, Reload, EndTransfer, Running, Section
  <2>3. \A n \in Nodes : queue[n] # <<>> =>
          queue'[n] # <<>> /\ Head(queue'[n]) = Head(queue[n])
    <3>1. CASE queue' = queue
      BY <3>1
    <3>2. CASE queue' = [queue EXCEPT ![r.node] = Append(@, r)]
      BY <1>a, <3>2 DEF TypeOK
    <3>3. QED
      BY <2>1, <3>1, <3>2
  <2>4. QED
    BY <2>2, <2>3
<1>3. ASSUME NEW r \in Requests, Unlock(r) \/ AcquireFails(r) \/ UnlockFails(r)
      PROVE  QueueInv'
  <2>1. pc[r] \in Running /\ queue' = [queue EXCEPT ![r.node] = Tail(@)]
    BY <1>3 DEF Unlock, AcquireFails, UnlockFails, Throw, Running, Section
  <2>2. \A q \in Requests : pc'[q] \in Running => pc[q] \in Running /\ q # r
    BY <1>3 DEF TypeOK, Goto, Unlock, AcquireFails, UnlockFails, Throw, Running, Section
  <2>3. \A q \in Requests : pc'[q] \in Running => q.node # r.node
    BY <2>1, <2>2
  <2>4. QED
    BY <2>1, <2>2, <2>3 DEF TypeOK
<1>4. ASSUME NEW n \in Nodes, Crash(n) PROVE QueueInv'
  <2>1. \A q \in Requests :
          pc'[q] \in Running => pc[q] \in Running /\ q.node # n
    BY <1>4 DEF Crash, TypeOK, Running, Section, Terminal
  <2>2. QED
    BY <1>4, <2>1 DEF Crash, TypeOK
<1>5. CASE UNCHANGED vars
  BY <1>5 DEF vars
<1>6. QED
  BY <1>1, <1>2, <1>3, <1>4, <1>5 DEF Next, Step

\* Two requests served by the same node are never both inside _exclusive(),
\* under every fault of the environment.
THEOREM NodeSerialCorrect == Spec => []NodeSerial
<1>1. Init => QueueInv
  BY DEF Init, QueueInv, Running, Section
<1>2. QueueInv => NodeSerial
  BY DEF QueueInv, NodeSerial, MyTurn
<1>3. QED
  BY <1>1, <1>2, TypeCorrect, QueueInvStep, PTL DEF Spec

(***************************************************************************)
(* The lock file, when no node dies, nobody waits beyond the timeout and    *)
(* the lock file can be opened and removed.                                *)
(***************************************************************************)
TimelyHolders == Faults \subseteq {"ioerror"}

LockInv ==
  /\ \A r \in Requests : pc[r] \notin {"dead", "removing", "late", "threw"}
  /\ \A r \in Requests : InSection(r) => lockFile = r
  /\ NoOrphanLock

LEMMA LockInvStep ==
  ASSUME TimelyHolders
  PROVE  TypeOK /\ LockInv /\ [Next]_vars => LockInv'
<1> SUFFICES ASSUME TypeOK, LockInv, [Next]_vars PROVE LockInv'
  OBVIOUS
<1> USE DEF LockInv, InSection, Section, NoOrphanLock
<1>1. ASSUME NEW r \in Requests,
             Arrive(r) \/ CheckRead(r) \/ EndTransfer(r) \/ Begin(r)
      PROVE  LockInv'
  BY <1>1 DEF TypeOK, Goto, Arrive, CheckRead, EndTransfer, Begin, disk
<1>2. ASSUME NEW r \in Requests, Reload(r) PROVE LockInv'
  <2>1. AfterReload(r, Parse(snap[r])) \notin {"dead", "removing", "late", "threw"} \cup Section
    BY NodeOfType DEF AfterReload, Kinds
  <2>2. QED
    BY <1>2, <2>1 DEF TypeOK, Goto, Reload, disk
<1>3. ASSUME NEW r \in Requests, TryLock(r) PROVE LockInv'
  BY <1>3, FreeAssumption DEF TypeOK, Goto, TryLock, LockAvailable
<1>4. ASSUME NEW r \in Requests,
             Expire(r) \/ RemoveStale(r) \/ AcquireFails(r) \/ UnlockFails(r)
      PROVE  FALSE
  BY <1>4 DEF TimelyHolders, TypeOK, Expire, RemoveStale, MayExpire, AcquireFails,
     UnlockFails
<1>5. ASSUME NEW r \in Requests,
             LoadRead(r) \/ LoadAndMutate(r) \/ SaveOpen(r) \/ SaveWrite(r)
             \/ SaveFails(r)
      PROVE  LockInv'
  BY <1>5 DEF TypeOK, Goto, LoadRead, LoadAndMutate, SaveOpen, SaveWrite,
     SaveFails, disk
<1>6. ASSUME NEW r \in Requests, Unlock(r) PROVE LockInv'
  BY <1>6 DEF TypeOK, Goto, Unlock, LockAfterUnlock
<1>7. ASSUME NEW n \in Nodes, Crash(n) PROVE FALSE
  BY <1>7 DEF TimelyHolders, Crash
<1>8. CASE UNCHANGED vars
  BY <1>8 DEF vars
<1>9. QED
  BY <1>1, <1>2, <1>3, <1>4, <1>5, <1>6, <1>7, <1>8 DEF Next, Step

LEMMA LockInvCorrect ==
  ASSUME TimelyHolders
  PROVE  Spec => []LockInv
<1>1. Init => LockInv
  BY DEF Init, LockInv, InSection, Section, NoOrphanLock
<1>2. QED
  BY <1>1, TypeCorrect, LockInvStep, PTL DEF Spec

\* As long as no node dies, nobody waits longer than LOCK_TIMEOUT_MS and the
\* lock file can be opened and removed, at most one request of all the nodes is
\* between open('wx') and the removal of the lock file, also when loading or
\* saving the rules fails.
THEOREM LockExcludes ==
  ASSUME TimelyHolders
  PROVE  Spec => []MutualExclusion
<1>1. LockInv => MutualExclusion
  BY DEF LockInv, MutualExclusion
<1>2. QED
  BY <1>1, LockInvCorrect, PTL

(***************************************************************************)
(* The lock file against every fault.  A holder leaves the section only by *)
(* removing whatever lock file there is, by dying, or by failing to remove  *)
(* it.                                                                     *)
(***************************************************************************)
LEMMA NoOrphanLockStep == TypeOK /\ NoOrphanLock /\ [Next]_vars => NoOrphanLock'
<1> SUFFICES ASSUME TypeOK, NoOrphanLock, [Next]_vars, lockFile' # Free
             PROVE  /\ lockFile' \in Requests
                    /\ lockFile' = lockFile => \/ pc'[lockFile] \in Section
                                               \/ pc'[lockFile] \in {"dead", "threw"}
                    /\ lockFile' # lockFile => pc'[lockFile'] \in Section
  BY DEF NoOrphanLock, InSection
<1> USE DEF NoOrphanLock, InSection, Section
<1>1. ASSUME NEW r \in Requests, Unlock(r) \/ RemoveStale(r) PROVE FALSE
  BY <1>1 DEF Unlock, RemoveStale, LockAfterUnlock
<1>2. ASSUME NEW r \in Requests, TryLock(r)
      PROVE  lockFile = Free /\ lockFile' = r /\ pc'[r] \in Section
  BY <1>2 DEF TryLock, LockAvailable, Goto, TypeOK
<1>3. ASSUME NEW r \in Requests,
             Arrive(r) \/ Reload(r) \/ CheckRead(r) \/ EndTransfer(r) \/ Begin(r)
             \/ Expire(r)
      PROVE  lockFile' = lockFile /\ pc'[lockFile] = pc[lockFile]
  BY <1>3 DEF Arrive, Reload, CheckRead, EndTransfer, Begin, Expire, Goto, TypeOK,
     disk
<1>3a. ASSUME NEW r \in Requests, AcquireFails(r) \/ UnlockFails(r)
       PROVE  lockFile' = lockFile /\ \A q \in Requests :
                pc'[q] = pc[q] \/ pc'[q] = "threw"
  BY <1>3a DEF AcquireFails, UnlockFails, Throw, Goto, TypeOK, disk
<1>4. ASSUME NEW r \in Requests,
             LoadRead(r) \/ LoadAndMutate(r) \/ SaveOpen(r) \/ SaveWrite(r)
             \/ SaveFails(r)
      PROVE  lockFile' = lockFile /\ \A q \in Requests :
               pc'[q] = pc[q] \/ pc'[q] \in Section
  BY <1>4 DEF LoadRead, LoadAndMutate, SaveOpen, SaveWrite, SaveFails, Goto, TypeOK,
     disk
<1>5. ASSUME NEW n \in Nodes, Crash(n)
      PROVE  lockFile' = lockFile /\ \A q \in Requests :
               pc'[q] = pc[q] \/ pc'[q] = "dead"
  BY <1>5 DEF Crash, disk
<1>6. CASE UNCHANGED vars
  BY <1>6 DEF vars
<1>7. QED
  BY <1>1, <1>2, <1>3, <1>3a, <1>4, <1>5, <1>6 DEF Next, Step

\* Under every fault: a lock file whose creator is not in the section was left
\* by a node that died there or by a close() or rm that rejected.  A load or a
\* save that fails never leaves it behind, nor do waiters that take each
\* other's file away.
THEOREM LockIsReleased == Spec => []NoOrphanLock
<1>1. Init => NoOrphanLock
  BY DEF Init, NoOrphanLock
<1>2. QED
  BY <1>1, TypeCorrect, NoOrphanLockStep, PTL DEF Spec

(***************************************************************************)
(* Refinement.  With no faults and one request per node, nothing replaces  *)
(* this._rules between mutate() and the moment _save() turns it into text, *)
(* so what is written is the mutation of what the file held.               *)
(***************************************************************************)
QuietNodes ==
  /\ Faults = {}
  /\ \A r, q \in Requests : r.node = q.node => r = q

SaveInv ==
  /\ LockInv
  /\ rulesFile = Torn => (lockFile # Free /\ pc[lockFile] = "writing")
  /\ \A r \in Requests :
       /\ pc[r] = "writing" => rulesFile = Torn
       /\ pc[r] = "transfer" => r.kind = "upload"
       /\ pc[r] \in {"queued"} \cup Running => r \in Updates
       /\ pc[r] = "mutating" => snap[r] = rulesFile
       /\ pc[r] = "mkdir" => /\ rules[r.node] = Mutate(rulesFile, r)
                             /\ outcome[r] = Outcome(rulesFile, r)

LEMMA SaveInvStep ==
  ASSUME QuietNodes
  PROVE  TypeOK /\ SaveInv /\ [Next]_vars => SaveInv'
<1> SUFFICES ASSUME TypeOK, SaveInv, [Next]_vars PROVE SaveInv'
  OBVIOUS
<1>t. TimelyHolders
  BY DEF QuietNodes, TimelyHolders
<1>l. LockInv'
  BY <1>t, LockInvStep DEF SaveInv
<1> USE DEF SaveInv, Running, Section, DropText
<1>1. ASSUME NEW r \in Requests, Arrive(r) \/ CheckRead(r) \/ Begin(r)
      PROVE  SaveInv'
  BY <1>l, <1>1 DEF TypeOK, Goto, Arrive, ReadFile, CheckRead, Begin, disk
<1>2. ASSUME NEW r \in Requests, EndTransfer(r) PROVE SaveInv'
  BY <1>l, <1>2 DEF TypeOK, Goto, EndTransfer, Updates, disk
<1>3. ASSUME NEW r \in Requests, Reload(r) PROVE SaveInv'
  <2>1. /\ AfterReload(r, Parse(snap[r])) = "queued" => r \in Updates
        /\ AfterReload(r, Parse(snap[r])) = "transfer" => r.kind = "upload"
    BY NodeOfType DEF AfterReload, Kinds, Updates
  <2>2. AfterReload(r, Parse(snap[r])) \notin Running
    BY NodeOfType DEF AfterReload, Kinds
  <2>3. \A q \in Requests : q # r => rules'[q.node] = rules[q.node]
    BY <1>3, NodeOfType DEF Reload, QuietNodes, TypeOK
  <2>4. QED
    BY <1>l, <1>3, <2>1, <2>2, <2>3 DEF TypeOK, Goto, Reload, disk
<1>4. ASSUME NEW r \in Requests, TryLock(r) PROVE SaveInv'
  BY <1>l, <1>4 DEF TypeOK, Goto, TryLock, LockAvailable
<1>5. ASSUME NEW r \in Requests, LoadRead(r) PROVE SaveInv'
  <2>1. snap' = [snap EXCEPT ![r] = rulesFile]
    BY <1>5 DEF LoadRead, ReadFile, ReadResults, QuietNodes
  <2>2. QED
    BY <1>l, <1>5, <2>1 DEF TypeOK, Goto, LoadRead, disk
<1>6. ASSUME NEW r \in Requests, LoadAndMutate(r) PROVE SaveInv'
  <2>1. rulesFile # Torn /\ Current(r) = rulesFile
    BY <1>6 DEF LoadAndMutate, Current, Parse, LockInv, InSection
  <2>2. \A q \in Requests : q # r => pc[q] # "mkdir"
    BY <1>6 DEF LoadAndMutate, LockInv, InSection
  <2>3. QED
    BY <1>l, <1>6, <2>1, <2>2, NodeOfType DEF TypeOK, Goto, LoadAndMutate, disk
<1>7. ASSUME NEW r \in Requests, SaveOpen(r) PROVE SaveInv'
  <2>1. lockFile = r /\ \A q \in Requests : q # r => ~InSection(q)
    BY <1>7 DEF SaveOpen, LockInv, InSection
  <2>2. QED
    BY <1>l, <1>7, <2>1, FreeAssumption DEF TypeOK, Goto, SaveOpen, InSection
<1>8. ASSUME NEW r \in Requests, SaveWrite(r) PROVE SaveInv'
  <2>1. \A q \in Requests : q # r => ~InSection(q)
    BY <1>8 DEF SaveWrite, LockInv, InSection
  <2>2. rulesFile' = out[r] /\ out[r] \in Rules
    BY <1>8 DEF SaveWrite, Written, TypeOK
  <2>3. QED
    BY <1>l, <1>8, <2>1, <2>2, TornAssumption
    DEF TypeOK, Goto, SaveWrite, InSection
<1>9. ASSUME NEW r \in Requests, Unlock(r) PROVE SaveInv'
  <2>1. rulesFile # Torn
    BY <1>9 DEF Unlock, LockInv, InSection
  <2>2. QED
    BY <1>l, <1>9, <2>1 DEF TypeOK, Goto, Unlock
<1>10. ASSUME NEW r \in Requests,
             Expire(r) \/ RemoveStale(r) \/ SaveFails(r) \/ AcquireFails(r)
             \/ UnlockFails(r)
       PROVE  FALSE
  BY <1>10 DEF QuietNodes, TypeOK, Expire, RemoveStale, SaveFails, MayExpire,
     AcquireFails, UnlockFails, LockInv
<1>11. ASSUME NEW n \in Nodes, Crash(n) PROVE FALSE
  BY <1>11 DEF QuietNodes, Crash
<1>12. CASE UNCHANGED vars
  BY <1>l, <1>12 DEF vars
<1>13. QED
  BY <1>1, <1>2, <1>3, <1>4, <1>5, <1>6, <1>7, <1>8, <1>9, <1>10, <1>11, <1>12
  DEF Next, Step

LEMMA SaveInvCorrect ==
  ASSUME QuietNodes
  PROVE  Spec => []SaveInv
<1>1. Init => SaveInv
  BY InitRulesAssumption, TornAssumption
  DEF Init, SaveInv, LockInv, InSection, Section, Running, NoOrphanLock
<1>2. QED
  BY <1>1, TypeCorrect, SaveInvStep, PTL DEF Spec

(***************************************************************************)
(* Every step is either the Apply of the request whose save starts, or     *)
(* leaves the abstract state alone.                                        *)
(***************************************************************************)
Told == [r \in Requests |-> IF Applied(r) THEN outcome[r] ELSE "none"]

LEMMA AtomicOperators ==
  /\ Atomic!Updates = Updates
  /\ \A rs, r : Atomic!Mutate(rs, r) = Mutate(rs, r)
  /\ \A rs, r : Atomic!Outcome(rs, r) = Outcome(rs, r)
BY DEF Atomic!Updates, Updates, Atomic!Mutate, Mutate, Atomic!Outcome, Outcome,
   Atomic!Allowed, Allowed, Atomic!NewRule, NewRule, Atomic!Granted, Granted

LEMMA StepRefines ==
  ASSUME QuietNodes
  PROVE  TypeOK /\ SaveInv /\ SaveInv' /\ [Next]_vars
           => [Atomic!Next]_(Atomic!vars)
<1> SUFFICES ASSUME TypeOK, SaveInv, SaveInv', [Next]_vars
             PROVE  (\E r \in Updates : Atomic!Apply(r))
                      \/ (Settled' = Settled /\ Told' = Told)
  BY AtomicOperators DEF Atomic!Next, Atomic!vars, Told
<1> USE DEF SaveInv, Running, Section
<1>1. ASSUME NEW r \in Requests, SaveOpen(r)
      PROVE  r \in Updates /\ Atomic!Apply(r)
  <2>1. r \in Updates /\ rulesFile # Torn /\ lockFile = r /\ ~Applied(r)
    BY <1>1, FreeAssumption DEF SaveOpen, LockInv, InSection, Applied
  <2>2. Settled = rulesFile /\ Told[r] = "none"
    BY <2>1 DEF Settled, Told
  <2>3. Settled' = Mutate(Settled, r)
    BY <1>1, <2>1, <2>2, FreeAssumption DEF SaveOpen, Settled, TypeOK
  <2>4. Told' = [Told EXCEPT ![r] = Outcome(Settled, r)]
    BY <1>1, <2>1, <2>2 DEF SaveOpen, Goto, Told, Applied, TypeOK
  <2>5. QED
    BY <2>1, <2>2, <2>3, <2>4, AtomicOperators DEF Atomic!Apply, Told
<1>2. ASSUME NEW r \in Requests, SaveWrite(r)
      PROVE  Settled' = Settled /\ Told' = Told
  <2>1. rulesFile = Torn /\ lockFile = r /\ lockFile # Free
    BY <1>2, FreeAssumption DEF SaveWrite, LockInv, InSection
  <2>2. rulesFile' = out[r] /\ out[r] # Torn
    BY <1>2, <2>1, TornAssumption DEF SaveWrite, Written, TypeOK
  <2>3. Settled' = Settled
    BY <1>2, <2>1, <2>2 DEF SaveWrite, Settled
  <2>4. Told' = Told
    BY <1>2 DEF SaveWrite, Goto, Told, Applied, TypeOK
  <2>5. QED
    BY <2>3, <2>4
<1>3. ASSUME NEW r \in Requests, TryLock(r) \/ Unlock(r)
      PROVE  Settled' = Settled /\ Told' = Told
  <2>1. rulesFile # Torn /\ rulesFile' = rulesFile
    BY <1>3, FreeAssumption DEF TryLock, LockAvailable, Unlock, LockInv, InSection
  <2>2. QED
    BY <1>3, <2>1 DEF TryLock, Unlock, Settled, Goto, Told, Applied, TypeOK
<1>4. ASSUME NEW r \in Requests, LoadAndMutate(r)
      PROVE  Settled' = Settled /\ Told' = Told
  BY <1>4 DEF LoadAndMutate, Settled, Goto, Told, Applied, TypeOK, disk
<1>5. ASSUME NEW r \in Requests,
             Arrive(r) \/ CheckRead(r) \/ EndTransfer(r) \/ Begin(r) \/ LoadRead(r)
      PROVE  Settled' = Settled /\ Told' = Told
  BY <1>5 DEF Arrive, CheckRead, EndTransfer, Begin, LoadRead, Settled, Goto,
     Told, Applied, TypeOK, disk
<1>6. ASSUME NEW r \in Requests, Reload(r)
      PROVE  Settled' = Settled /\ Told' = Told
  <2>1. AfterReload(r, Parse(snap[r])) \notin {"writing", "unlocking", "done"}
    BY NodeOfType DEF AfterReload, Kinds
  <2>2. QED
    BY <1>6, <2>1 DEF Reload, Settled, Goto, Told, Applied, TypeOK, disk
<1>7. ASSUME NEW r \in Requests,
             Expire(r) \/ RemoveStale(r) \/ SaveFails(r) \/ AcquireFails(r)
             \/ UnlockFails(r)
      PROVE  FALSE
  BY <1>7 DEF QuietNodes, TypeOK, Expire, RemoveStale, SaveFails, MayExpire,
     AcquireFails, UnlockFails, LockInv
<1>8. ASSUME NEW n \in Nodes, Crash(n) PROVE FALSE
  BY <1>8 DEF QuietNodes, Crash
<1>9. CASE UNCHANGED vars
  BY <1>9 DEF vars, Settled, Told, Applied
<1>10. QED
  BY <1>1, <1>2, <1>3, <1>4, <1>5, <1>6, <1>7, <1>8, <1>9 DEF Next, Step

\* With one request per node and no faults, policies.json under the lock file
\* implements the atomic rules: an update takes effect exactly once, when its
\* save starts, on top of every update before it.
THEOREM PolicyIsAtomic ==
  ASSUME QuietNodes
  PROVE  Spec => UpdatesAreAtomic
<1>1. Init => Atomic!Init
  BY DEF Init, Atomic!Init, Settled, Applied
<1>2. QED
  BY <1>1, TypeCorrect, SaveInvCorrect, StepRefines, PTL
  DEF Spec, UpdatesAreAtomic, Atomic!Spec

(***************************************************************************)
(* What the atomic rules give a user.  A mutation that is allowed shows in *)
(* the rules, and no later one takes it away.                              *)
(***************************************************************************)
LEMMA EntryType ==
  ASSUME NEW rs \in Rules, NEW r \in Requests
  PROVE  r.file \in Files /\ (rs[r.file] # NoRule => rs[r.file] \in Rule)
BY RequestsAssumption DEF Request, Rules

LEMMA NewRuleGrows ==
  ASSUME NEW old \in Rule, NEW r \in Request, r.kind \in {"share", "public"}
  PROVE  LET new == NewRule(old, r) IN
           /\ new \in Rule
           /\ new.owner = old.owner
           /\ old.readers \subseteq new.readers
           /\ old.writers \subseteq new.writers
BY DEF NewRule, Granted, Rule, Request, Kinds, Permissions

LEMMA MutateKeeps ==
  ASSUME NEW rs \in Rules, NEW r \in Requests, NEW q \in Requests, Reflects(rs, q)
  PROVE  Reflects(Mutate(rs, r), q)
<1>1. q.file \in Files /\ rs[q.file] \in Rule
  BY EntryType DEF Reflects
<1>2. CASE Allowed(rs, r) /\ r.file = q.file
  <2>1. r.kind \in {"share", "public"}
    BY <1>2 DEF Allowed, Reflects
  <2>2. Mutate(rs, r)[q.file] = NewRule(rs[q.file], r)
    BY <1>1, <1>2 DEF Mutate, Rules
  <2>3. QED
    BY <1>1, <2>1, <2>2, NewRuleGrows, RequestsAssumption, NoRuleAssumption
    DEF Reflects
<1>3. CASE ~Allowed(rs, r) \/ r.file # q.file
  <2>1. Mutate(rs, r)[q.file] = rs[q.file]
    BY <1>1, <1>3 DEF Mutate, Rules
  <2>2. QED
    BY <2>1 DEF Reflects
<1>4. QED
  BY <1>2, <1>3

LEMMA MutateReflects ==
  ASSUME NEW rs \in Rules, NEW r \in Requests, Allowed(rs, r)
  PROVE  Reflects(Mutate(rs, r), r)
<1>1. r \in Request /\ r.file \in Files
  BY RequestsAssumption DEF Request
<1>2. Mutate(rs, r)[r.file] = NewRule(rs[r.file], r)
  BY <1>1 DEF Mutate, Rules
<1>3. CASE r.kind = "upload"
  <2>1. NewRule(rs[r.file], r).owner = r.user
    BY <1>3 DEF NewRule
  <2>2. NewRule(rs[r.file], r) # NoRule
    BY <1>1, <1>3, ClaimRuleType, NoRuleAssumption
  <2>3. QED
    BY <1>2, <1>3, <2>1, <2>2 DEF Reflects
<1>4. CASE r.kind # "upload"
  <2>1. /\ r.kind \in {"share", "public"}
        /\ rs[r.file] \in Rule
        /\ r.kind = "share" => r.permission \in {"read", "write"}
    BY <1>4, EntryType DEF Allowed
  <2>2. NewRule(rs[r.file], r) # NoRule
    BY <1>1, <2>1, NewRuleGrows, NoRuleAssumption
  <2>3. ASSUME r.kind = "share", r.permission = "read"
        PROVE  r.target \in NewRule(rs[r.file], r).readers
    BY <2>1, <2>3 DEF NewRule, Granted, Rule
  <2>4. ASSUME r.kind = "share", r.permission = "write"
        PROVE  r.target \in NewRule(rs[r.file], r).writers
    BY <2>1, <2>4 DEF NewRule, Granted, Rule
  <2>5. QED
    BY <1>2, <1>4, <2>2, <2>3, <2>4 DEF Reflects
<1>5. QED
  BY <1>3, <1>4

LEMMA SettledType ==
  ASSUME TypeOK, SaveInv
  PROVE  Settled \in Rules
BY DEF TypeOK, SaveInv, LockInv, NoOrphanLock, Settled

\* What was applied shows in the rules, a file has an entry for ever, and only
\* one claim of it was applied.
ClaimOf(r) == r.kind = "upload" /\ Told[r] = "ok"

GrantInv ==
  /\ \A r \in Updates : Told[r] = "ok" => Reflects(Settled, r)
  /\ \A file \in Files : InitRules[file] # NoRule => Settled[file] # NoRule
  /\ \A r \in Requests : ClaimOf(r) => InitRules[r.file] = NoRule
  /\ \A r, q \in Requests : (ClaimOf(r) /\ ClaimOf(q) /\ r.file = q.file) => r = q

LEMMA GrantInvApply ==
  ASSUME Settled \in Rules, GrantInv, NEW r \in Updates, Atomic!Apply(r)
  PROVE  GrantInv'
<1>1. /\ r \in Requests
      /\ Settled' = Mutate(Settled, r)
      /\ Told' = [Told EXCEPT ![r] = Outcome(Settled, r)]
  BY AtomicOperators DEF Atomic!Apply, Told, Updates
<1>2. Told'[r] = "ok" => Allowed(Settled, r)
  BY <1>1 DEF Outcome, Told
<1>3. \A q \in Requests : q # r => Told'[q] = Told[q]
  BY <1>1 DEF Told
<1>4. \A q \in Updates : Told'[q] = "ok" => Reflects(Settled', q)
  <2>1. ASSUME NEW q \in Updates, Told'[q] = "ok", q # r PROVE Reflects(Settled', q)
    BY <1>1, <1>3, <2>1, MutateKeeps DEF GrantInv, Updates
  <2>2. Told'[r] = "ok" => Reflects(Settled', r)
    BY <1>1, <1>2, MutateReflects
  <2>3. QED
    BY <2>1, <2>2
<1>5. \A file \in Files : Settled[file] # NoRule => Settled'[file] # NoRule
  <2>1. ASSUME NEW file \in Files, Allowed(Settled, r), r.file = file
        PROVE  Settled'[file] # NoRule
    BY <1>1, <2>1, MutateReflects DEF Reflects
  <2>2. ASSUME NEW file \in Files, ~Allowed(Settled, r) \/ r.file # file
        PROVE  Settled'[file] = Settled[file]
    BY <1>1, <2>2 DEF Mutate, Rules
  <2>3. QED
    BY <2>1, <2>2
<1>6. ClaimOf(r)' => Settled[r.file] = NoRule
  BY <1>2 DEF ClaimOf, Allowed
<1>7. \A q \in Requests : ClaimOf(q) => q \in Updates /\ Settled[q.file] # NoRule
  BY DEF ClaimOf, GrantInv, Reflects, Updates
<1>8. \A q \in Requests : q # r => (ClaimOf(q)' <=> ClaimOf(q))
  BY <1>3 DEF ClaimOf
<1>9. r.file \in Files
  BY <1>1, RequestsAssumption DEF Request
<1>10. QED
  BY <1>4, <1>5, <1>6, <1>7, <1>8, <1>9 DEF GrantInv

LEMMA GrantInvCorrect ==
  ASSUME QuietNodes
  PROVE  Spec => []GrantInv
<1>1. Init => GrantInv
  BY InitRulesAssumption, TornAssumption
  DEF Init, GrantInv, ClaimOf, Told, Applied, Settled, Updates
<1>2. ASSUME TypeOK, SaveInv, GrantInv, [Atomic!Next]_(Atomic!vars)
      PROVE  GrantInv'
  <2>1. CASE Atomic!Next
    <3>1. PICK r \in Updates : Atomic!Apply(r)
      BY <2>1, AtomicOperators DEF Atomic!Next
    <3>2. QED
      BY <1>2, <3>1, SettledType, GrantInvApply
  <2>2. CASE Settled' = Settled /\ Told' = Told
    BY <1>2, <2>2 DEF GrantInv, ClaimOf
  <2>3. QED
    BY <1>2, <2>1, <2>2 DEF Atomic!vars, Told
<1>3. QED
  BY <1>1, <1>2, TypeCorrect, SaveInvCorrect, StepRefines, PTL DEF Spec

\* With one request per node and no faults, what a user was told stays true: a
\* confirmed claim is the owner of the file, a confirmed grant is among its
\* readers or writers, whatever other nodes do with policies.json.
THEOREM GrantsAreKept ==
  ASSUME QuietNodes
  PROVE  Spec => []AckedGrantsKept
<1>1. GrantInv => AckedGrantsKept
  BY DEF GrantInv, AckedGrantsKept, Told, Applied, Updates
<1>2. QED
  BY <1>1, GrantInvCorrect, PTL

\* mutate() has been called.
OutcomeInv == \A r \in Requests : outcome[r] # "none" => Applied(r) \/ pc[r] = "mkdir"

LEMMA OutcomeInvStep ==
  ASSUME QuietNodes
  PROVE  TypeOK /\ OutcomeInv /\ [Next]_vars => OutcomeInv'
<1> SUFFICES ASSUME TypeOK, OutcomeInv, [Next]_vars PROVE OutcomeInv'
  OBVIOUS
<1> USE DEF OutcomeInv, Applied
<1>1. ASSUME NEW r \in Requests,
             Arrive(r) \/ Reload(r) \/ CheckRead(r) \/ EndTransfer(r) \/ Begin(r)
             \/ TryLock(r) \/ Expire(r) \/ RemoveStale(r) \/ LoadRead(r)
      PROVE  OutcomeInv'
  BY <1>1 DEF TypeOK, Goto, Arrive, Reload, CheckRead, EndTransfer, Begin, TryLock,
     Expire, RemoveStale, LoadRead
<1>2. ASSUME NEW r \in Requests,
             LoadAndMutate(r) \/ SaveOpen(r) \/ SaveWrite(r) \/ SaveFails(r)
             \/ Unlock(r)
      PROVE  OutcomeInv'
  BY <1>2 DEF TypeOK, Goto, LoadAndMutate, SaveOpen, SaveWrite, SaveFails, Unlock
<1>3. /\ \A n \in Nodes : ~Crash(n)
      /\ \A r \in Requests : ~AcquireFails(r) /\ ~UnlockFails(r)
  BY DEF QuietNodes, Crash, AcquireFails, UnlockFails
<1>4. CASE UNCHANGED vars
  BY <1>4 DEF vars
<1>5. QED
  BY <1>1, <1>2, <1>3, <1>4 DEF Next, Step

\* With one request per node and no faults, a file that exists is never
\* claimed, and of all the uploads of a new file only one becomes its owner.
THEOREM OneOwnerPerFile ==
  ASSUME QuietNodes
  PROVE  Spec => []OneClaimPerFile
<1>1. ASSUME SaveInv, GrantInv, OutcomeInv PROVE OneClaimPerFile
  <2>1. ASSUME NEW r \in Requests, r.kind = "upload", outcome[r] = "ok", ~ClaimOf(r)
        PROVE  InSection(r) /\ Settled[r.file] = NoRule
    <3>1. pc[r] = "mkdir"
      BY <1>1, <2>1 DEF OutcomeInv, ClaimOf, Told
    <3>2. lockFile = r /\ rulesFile # Torn
      BY <1>1, <3>1 DEF SaveInv, LockInv, InSection, Section
    <3>3. outcome[r] = Outcome(Settled, r)
      BY <1>1, <3>1, <3>2 DEF SaveInv, Settled
    <3>4. QED
      BY <2>1, <3>1, <3>3 DEF Outcome, Allowed, InSection, Section
  <2>2. \A r \in Requests : ClaimOf(r) => Settled[r.file] # NoRule
    BY <1>1 DEF GrantInv, ClaimOf, Reflects, Updates
  <2>3. \A r \in Requests : r.file \in Files
    BY RequestsAssumption DEF Request
  <2>4. \A r, q \in Requests : InSection(r) /\ InSection(q) => r = q
    BY <1>1 DEF SaveInv, LockInv
  <2>5. QED
    BY <1>1, <2>1, <2>2, <2>3, <2>4 DEF OneClaimPerFile, GrantInv
<1>2. Init => OutcomeInv
  BY DEF Init, OutcomeInv
<1>3. QED
  BY <1>1, <1>2, TypeCorrect, SaveInvCorrect, GrantInvCorrect, OutcomeInvStep, PTL
  DEF Spec
=============================================================================
