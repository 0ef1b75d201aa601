---------------------------- MODULE UploadProofs ----------------------------
(***************************************************************************)
(* Theorems about Upload, for every set of nodes, every number of attempts *)
(* and files of every size.                                                *)
(***************************************************************************)
EXTENDS Upload, TLAPS

Chunk == Sources \cup {Hole}

PCs == {"idle", "waiting"} \cup Answering \cup Locked \cup Terminal

(***************************************************************************)
(* What truncate and write do to the chunks of a file.                     *)
(***************************************************************************)
LEMMA SeqFromFunction ==
  ASSUME NEW S, NEW n \in Nat, NEW f \in [1 .. n -> S]
  PROVE  f \in Seq(S) /\ Len(f) = n
OBVIOUS

LEMMA ResizedType ==
  ASSUME NEW c \in Seq(Chunk), NEW k \in Nat
  PROVE  /\ Resized(c, k) \in Seq(Chunk)
         /\ Len(Resized(c, k)) = k
         /\ \A i \in 1 .. k : i <= Len(c) => Resized(c, k)[i] = c[i]
<1>1. Resized(c, k) \in [1 .. k -> Chunk]
  BY DEF Resized, Chunk
<1>2. QED
  BY <1>1, SeqFromFunction DEF Resized

LEMMA WrittenType ==
  ASSUME NEW c \in Seq(Chunk), NEW p \in Nat, NEW s \in Sources
  PROVE  Written(c, p, s) \in Seq(Chunk)
<1> DEFINE n == IF Len(c) > p THEN Len(c) ELSE p + 1
<1>1. n \in Nat
  OBVIOUS
<1>2. Written(c, p, s) \in [1 .. n -> Chunk]
  BY DEF Written, Chunk
<1>3. QED
  BY <1>1, <1>2, SeqFromFunction

LEMMA WrittenAtEnd ==
  ASSUME NEW c \in Seq(Chunk), NEW s \in Sources
  PROVE  /\ Len(Written(c, Len(c), s)) = Len(c) + 1
         /\ \A i \in 1 .. (Len(c) + 1) :
              Written(c, Len(c), s)[i] = IF i = Len(c) + 1 THEN s ELSE c[i]
<1>1. Len(c) \in Nat
  OBVIOUS
<1>2. Written(c, Len(c), s) \in [1 .. (Len(c) + 1) -> Chunk]
  BY <1>1 DEF Written, Chunk
<1>3. QED
  BY <1>1, <1>2, SeqFromFunction DEF Written

(***************************************************************************)
(* Type correctness.                                                       *)
(***************************************************************************)
LEMMA RequestType ==
  \A r \in Requests : Source(r) \in Sources /\ Size[Source(r)] \in Nat
                      /\ User[Source(r)] \in Users
BY SizeAssumption, UserAssumption DEF Requests, Source

LEMMA CurrentType ==
  ASSUME TypeOK, NEW s \in Sources
  PROVE  Current(s) \in Requests
BY DEF TypeOK, Current, Requests

LEMMA UploadedBytesType ==
  ASSUME TypeOK
  PROVE  UploadedBytes \in Nat
BY DEF TypeOK, UploadedBytes

LEMMA GotoType ==
  ASSUME TypeOK, NEW r \in Requests, NEW label \in PCs, Goto(r, label)
  PROVE  pc' \in [Requests -> PCs]
BY DEF TypeOK, Goto, PCs

LEMMA LeaveType ==
  ASSUME TypeOK, NEW r \in Requests, NEW label \in Terminal, Leave(r, label)
  PROVE  /\ pc' \in [Requests -> PCs]
         /\ chain' \in [Nodes -> Seq(Requests)]
         /\ fd' \in [Requests -> Inodes \cup {None}]
         /\ done' \in [Requests -> Nat]
<1>1. pc' \in [Requests -> PCs]
  BY GotoType DEF Leave, PCs
<1>2. chain' \in [Nodes -> Seq(Requests)]
  <2>1. \A n \in Nodes : chain[n] \in Seq(Requests) /\ Tail(chain[n]) \in Seq(Requests)
    <3> SUFFICES ASSUME NEW n \in Nodes
                 PROVE  chain[n] \in Seq(Requests) /\ Tail(chain[n]) \in Seq(Requests)
      OBVIOUS
    <3>1. PICK q \in Seq(Requests) : chain[n] = q
      BY DEF TypeOK
    <3>2. CASE q # <<>>
      BY <3>1, <3>2
    <3>3. CASE q = <<>>
      BY <3>1, <3>3
    <3>4. QED
      BY <3>2, <3>3
  <2>2. QED
    BY <2>1 DEF Leave, TypeOK
<1>3. QED
  BY <1>1, <1>2 DEF Leave, TypeOK

LEMMA NextAttemptType ==
  ASSUME TypeOK, NEW s \in Sources, NextAttempt(s)
  PROVE  /\ attempt' \in [Sources -> 1 .. MaxAttempts]
         /\ client' \in [Sources -> {"asking", "picked", "pushing", "confirmed",
                                     "refused", "gaveUp"}]
<1>1. CASE attempt[s] < MaxAttempts
  <2>1. attempt[s] + 1 \in 1 .. MaxAttempts
    BY <1>1, MaxAttemptsAssumption DEF TypeOK
  <2>2. QED
    BY <1>1, <2>1 DEF TypeOK, NextAttempt
<1>2. CASE ~(attempt[s] < MaxAttempts)
  BY <1>2 DEF TypeOK, NextAttempt
<1>3. QED
  BY <1>1, <1>2

LEMMA DiesType ==
  ASSUME TypeOK, NEW n, Dies(n)
  PROVE  TypeOK'
<1>1. {"unanswered", "dead"} \subseteq PCs
  BY DEF PCs, Terminal, Failures
<1>2. pc' \in [Requests -> PCs]
  BY <1>1 DEF TypeOK, Dies, PCs
<1>3. chain' \in [Nodes -> Seq(Requests)]
  <2>1. <<>> \in Seq(Requests)
    OBVIOUS
  <2>2. chain' = [chain EXCEPT ![n] = <<>>]
    BY DEF Dies
  <2>3. QED
    BY <2>1, <2>2 DEF TypeOK
<1>4. /\ fd' \in [Requests -> Inodes \cup {None}]
      /\ done' \in [Requests -> Nat]
  BY DEF TypeOK, Dies
<1>5. QED
  BY <1>2, <1>3, <1>4 DEF TypeOK, Dies, disk, side, PCs

LEMMA TypeStep == TypeOK /\ [Next]_vars => TypeOK'
<1> SUFFICES ASSUME TypeOK, [Next]_vars PROVE TypeOK'
  OBVIOUS
<1>p. {"arrived", "checked", "denied", "badOffset", "waiting", "truncated",
       "receiving", "removing", "renaming", "stating", "claiming"} \subseteq PCs
  BY DEF PCs, Answering, Locked, Terminal, Refusals
<1>t. {"aborted", "failed", "complete"} \subseteq Terminal
  BY DEF Terminal, Failures
<1>c. ASSUME NEW i, NEW c, c \in Seq(Chunk),
             content' = [content EXCEPT ![i] = c]
      PROVE  content' \in [Inodes -> Seq(Sources \cup {Hole})]
  BY <1>c DEF TypeOK, Chunk
<1>1. ASSUME NEW s \in Sources, AskState(s) PROVE TypeOK'
  <2>1. done' \in [Requests -> Nat]
    BY <1>1, CurrentType, UploadedBytesType DEF AskState, TypeOK
  <2>2. QED
    BY <1>1, <2>1 DEF AskState, TypeOK, disk
<1>2. ASSUME NEW s \in Sources, Push(s) PROVE TypeOK'
  <2>1. pc' \in [Requests -> PCs]
    BY <1>2, <1>p, CurrentType, GotoType DEF Push
  <2>2. node' \in [Requests -> Nodes \cup {None}]
    BY <1>2, CurrentType DEF Push, TypeOK
  <2>3. QED
    BY <1>2, <2>1, <2>2 DEF Push, TypeOK, disk, PCs
<1>3. ASSUME NEW s \in Sources, Outcome(s) PROVE TypeOK'
  <2>1. /\ attempt' \in [Sources -> 1 .. MaxAttempts]
        /\ client' \in [Sources -> {"asking", "picked", "pushing", "confirmed",
                                    "refused", "gaveUp"}]
    <3>1. CASE NextAttempt(s)
      BY <3>1, NextAttemptType
    <3>2. CASE ~NextAttempt(s)
      BY <1>3, <3>2 DEF Outcome, TypeOK
    <3>3. QED
      BY <3>1, <3>2
  <2>2. QED
    BY <1>3, <2>1 DEF Outcome, TypeOK, disk
<1>4. ASSUME NEW s \in Sources, Disconnect(s) PROVE TypeOK'
  <2>1. NextAttempt(s)
    BY <1>4 DEF Disconnect
  <2>2. socket' \in [Requests -> {"open", "ended", "reset", "unheard"}]
    BY <1>4 DEF Disconnect, TypeOK
  <2>3. QED
    BY <1>4, <2>1, <2>2, NextAttemptType DEF Disconnect, TypeOK, disk
<1>5. ASSUME NEW r \in Requests, CheckWrite(r) PROVE TypeOK'
  <2>1. pc' \in [Requests -> PCs]
    BY <1>5, <1>p, GotoType DEF CheckWrite
  <2>2. QED
    BY <1>5, <2>1 DEF CheckWrite, TypeOK, disk, side, PCs
<1>6. ASSUME NEW r \in Requests, CheckOffset(r) PROVE TypeOK'
  <2>1. pc' \in [Requests -> PCs]
    BY <1>6, <1>p, GotoType DEF CheckOffset
  <2>2. chain' \in [Nodes -> Seq(Requests)]
    <3>1. CASE chain' = chain
      BY <3>1 DEF TypeOK
    <3>2. CASE chain' = [chain EXCEPT ![node[r]] = Append(@, r)]
      <4>1. \A n \in Nodes : Append(chain[n], r) \in Seq(Requests)
        BY DEF TypeOK
      <4>2. QED
        BY <3>2, <4>1 DEF TypeOK
    <3>3. QED
      BY <1>6, <3>1, <3>2 DEF CheckOffset
  <2>3. QED
    BY <1>6, <2>1, <2>2 DEF CheckOffset, TypeOK, disk, side, PCs
<1>7. ASSUME NEW r \in Requests, EndUnheard(r) PROVE TypeOK'
  BY <1>7 DEF EndUnheard, TypeOK, disk, side
<1>8. ASSUME NEW r \in Requests, Truncate(r) PROVE TypeOK'
  <2>1. CASE partFile = None
    BY <1>8, <2>1, <1>t, LeaveType DEF Truncate, TypeOK, side, PCs
  <2>2. CASE partFile # None
    <3>1. Resized(content[partFile], done[r]) \in Seq(Chunk)
      BY <2>2, ResizedType DEF TypeOK, Chunk
    <3>2. content' \in [Inodes -> Seq(Sources \cup {Hole})]
      BY <1>8, <2>2, <3>1, <1>c DEF Truncate
    <3>3. pc' \in [Requests -> PCs]
      BY <1>8, <2>2, <1>p, GotoType DEF Truncate
    <3>4. QED
      BY <1>8, <2>2, <3>2, <3>3 DEF Truncate, TypeOK, side, PCs
  <2>3. QED
    BY <2>1, <2>2
<1>9. ASSUME NEW r \in Requests, OpenAppend(r) PROVE TypeOK'
  <2>1. pc' \in [Requests -> PCs]
    BY <1>9, <1>p, GotoType DEF OpenAppend
  <2>2. QED
    BY <1>9, <2>1 DEF OpenAppend, TypeOK, disk, side, PCs
<1>10. ASSUME NEW r \in Requests, OpenNew(r) PROVE TypeOK'
  <2>1. pc' \in [Requests -> PCs]
    BY <1>10, <1>p, GotoType DEF OpenNew
  <2>2. partFile' \in Inodes
    BY <1>10 DEF OpenNew, NewInode, FreeInodes, TypeOK
  <2>3. content' \in [Inodes -> Seq(Sources \cup {Hole})]
    <3>1. <<>> \in Seq(Chunk)
      OBVIOUS
    <3>2. content' = [content EXCEPT ![partFile'] = <<>>]
      BY <1>10 DEF OpenNew
    <3>3. QED
      BY <1>c, <3>1, <3>2
  <2>4. QED
    BY <1>10, <2>1, <2>2, <2>3 DEF OpenNew, TypeOK, side, PCs
<1>11. ASSUME NEW r \in Requests, Receive(r) PROVE TypeOK'
  <2>1. content' \in [Inodes -> Seq(Sources \cup {Hole})]
    <3>1. \A i \in Inodes : Written(content[i], done[r], Source(r)) \in Seq(Chunk)
      BY WrittenType, RequestType DEF TypeOK, Chunk
    <3>2. QED
      BY <1>11, <3>1 DEF Receive, TypeOK, Chunk
  <2>2. /\ pc' \in [Requests -> PCs]
        /\ fd' \in [Requests -> Inodes \cup {None}]
        /\ done' \in [Requests -> Nat]
    <3>1. done' \in [Requests -> Nat]
      BY <1>11 DEF Receive, TypeOK
    <3>2. CASE AllReceived(r)
      BY <1>11, <1>p, <3>1, <3>2, GotoType DEF Receive, TypeOK
    <3>3. CASE ~AllReceived(r)
      BY <1>11, <3>1, <3>3 DEF Receive, TypeOK, PCs
    <3>4. QED
      BY <3>2, <3>3
  <2>3. QED
    BY <1>11, <2>1, <2>2 DEF Receive, TypeOK, side, PCs
<1>12. ASSUME NEW r \in Requests, Abort(r) PROVE TypeOK'
  BY <1>12, <1>t, LeaveType DEF Abort, TypeOK, disk, side, PCs
<1>13. ASSUME NEW r \in Requests, RemoveFinal(r) PROVE TypeOK'
  <2>1. pc' \in [Requests -> PCs]
    BY <1>13, <1>p, GotoType DEF RemoveFinal
  <2>2. QED
    BY <1>13, <2>1 DEF RemoveFinal, TypeOK, side, PCs
<1>14. ASSUME NEW r \in Requests, Rename(r) PROVE TypeOK'
  <2>1. CASE partFile = None
    BY <1>14, <2>1, <1>t, LeaveType DEF Rename, TypeOK, side, PCs
  <2>2. CASE partFile # None
    BY <1>14, <2>2, <1>p, GotoType DEF Rename, TypeOK, side, PCs
  <2>3. QED
    BY <2>1, <2>2
<1>15. ASSUME NEW r \in Requests, StatFinal(r) PROVE TypeOK'
  <2>1. CASE finalFile = None
    BY <1>15, <2>1, <1>t, LeaveType DEF StatFinal, TypeOK, disk, side, PCs
  <2>2. CASE finalFile # None
    BY <1>15, <2>2, <1>p, GotoType DEF StatFinal, TypeOK, disk, side, PCs
  <2>3. QED
    BY <2>1, <2>2
<1>16. ASSUME NEW r \in Requests, Claim(r) PROVE TypeOK'
  <2>1. owner' \in Users \cup {None}
    BY <1>16, RequestType DEF Claim, Claimed, TypeOK
  <2>2. QED
    BY <1>16, <2>1, <1>t, LeaveType DEF Claim, TypeOK, side, PCs
<1>17. ASSUME NEW n, Dies(n) PROVE TypeOK'
  BY <1>17, DiesType
<1>18. CASE UNCHANGED vars
  BY <1>18 DEF vars, TypeOK
<1>19. QED
  BY <1>1, <1>2, <1>3, <1>4, <1>5, <1>6, <1>7, <1>8, <1>9, <1>10, <1>11, <1>12,
     <1>13, <1>14, <1>15, <1>16, <1>17, <1>18
  DEF Next, Handler, Loop, Crash, StreamFails

\* The type invariant holds of every reachable state.
THEOREM TypeCorrect == Spec => []TypeOK
<1>1. Init => TypeOK
  BY MaxAttemptsAssumption DEF Init, TypeOK
<1>2. QED
  BY <1>1, TypeStep, PTL DEF Spec

(***************************************************************************)
(* The client loop: an attempt that has not been sent is not being served, *)
(* and one that has been sent stays with its node.                         *)
(***************************************************************************)
Sent(r) == pc[r] # "idle"

LoopInv ==
  /\ \A r \in Requests : r[2] > attempt[r[1]] => ~Sent(r)
  /\ \A s \in Sources : client[s] \in {"asking", "picked"} => ~Sent(Current(s))
  /\ \A r \in Requests : Sent(r) => node[r] \in Nodes

\* A step of a node: it sends nothing, and the clients do not move.
NodeStep ==
  \/ \E r \in Requests : Handler(r) \/ Receive(r) \/ EndUnheard(r) \/ StreamFails(r)
  \/ \E n \in Nodes : Crash(n)

LEMMA NodeFrame ==
  ASSUME TypeOK, NodeStep
  PROVE  UNCHANGED side /\ \A q \in Requests : Sent(q)' = Sent(q)
<1>1. ASSUME NEW r \in Requests,
             CheckWrite(r) \/ CheckOffset(r) \/ OpenAppend(r) \/ OpenNew(r)
             \/ RemoveFinal(r) \/ EndUnheard(r) \/ Receive(r)
      PROVE  UNCHANGED side /\ \A q \in Requests : Sent(q)' = Sent(q)
  BY <1>1 DEF CheckWrite, CheckOffset, OpenAppend, OpenNew, RemoveFinal,
     EndUnheard, Receive, Goto, Sent, TypeOK, side
<1>2. ASSUME NEW r \in Requests,
             Truncate(r) \/ Abort(r) \/ Rename(r) \/ StatFinal(r) \/ Claim(r)
      PROVE  UNCHANGED side /\ \A q \in Requests : Sent(q)' = Sent(q)
  BY <1>2 DEF Truncate, Abort, Rename, StatFinal, Claim, Leave, Goto, Sent,
     TypeOK, side
<1>3. ASSUME NEW n, Dies(n)
      PROVE  UNCHANGED side /\ \A q \in Requests : Sent(q)' = Sent(q)
  BY <1>3 DEF Dies, Sent, TypeOK, side
<1>4. QED
  BY <1>1, <1>2, <1>3 DEF NodeStep, Handler, StreamFails, Crash

LEMMA LoopInvStep == TypeOK /\ LoopInv /\ [Next]_vars => LoopInv'
<1> SUFFICES ASSUME TypeOK, LoopInv, [Next]_vars PROVE LoopInv'
  OBVIOUS
<1>r. \A r \in Requests : r[1] \in Sources /\ r[2] \in 1 .. MaxAttempts
                        /\ r = <<r[1], r[2]>>
  BY DEF Requests
<1>c. \A s \in Sources : Current(s) \in Requests
  BY CurrentType
<1>1. CASE NodeStep
  <2>1. /\ UNCHANGED <<client, attempt, node>>
        /\ \A q \in Requests : (pc'[q] = "idle") = (pc[q] = "idle")
    BY <1>1, NodeFrame DEF side, Sent
  <2>2. QED
    BY <1>c, <2>1 DEF LoopInv, Current, Sent
<1>2. ASSUME NEW s \in Sources, AskState(s) PROVE LoopInv'
  BY <1>2 DEF AskState, LoopInv, Current, Sent, TypeOK
<1>3. ASSUME NEW s \in Sources, Push(s) PROVE LoopInv'
  <2>1. \A r \in Requests : r[2] > attempt[r[1]] => r # Current(s)
    BY <1>r DEF Current, TypeOK
  <2>2. \A t \in Sources : t # s => Current(t) # Current(s)
    BY DEF Current
  <2>3. PICK n \in Nodes : node' = [node EXCEPT ![Current(s)] = n]
    BY <1>3 DEF Push
  <2>4. /\ pc' = [pc EXCEPT ![Current(s)] = "arrived"]
        /\ client' = [client EXCEPT ![s] = "pushing"]
        /\ attempt' = attempt
    BY <1>3 DEF Push, Goto
  <2>5. \A r \in Requests : r # Current(s) => (Sent(r)' = Sent(r) /\ node'[r] = node[r])
    BY <2>3, <2>4 DEF Sent, TypeOK
  <2>6. node'[Current(s)] \in Nodes
    BY <1>c, <2>3 DEF TypeOK
  <2>7. \A t \in Sources : client'[t] \in {"asking", "picked"} => ~Sent(Current(t))'
    <3> SUFFICES ASSUME NEW t \in Sources, client'[t] \in {"asking", "picked"}
                 PROVE  pc'[<<t, attempt[t]>>] = "idle"
      BY <2>4 DEF Current, Sent
    <3>1. t # s /\ client[t] \in {"asking", "picked"}
      BY <2>4 DEF TypeOK
    <3>2. pc[Current(t)] = "idle" /\ Current(t) # Current(s)
      BY <2>2, <3>1 DEF LoopInv, Sent
    <3>3. QED
      BY <1>c, <2>4, <3>2 DEF Current, TypeOK
  <2>8. QED
    <3>1. \A r \in Requests : r[2] > attempt'[r[1]] => ~Sent(r)'
      BY <2>1, <2>4, <2>5 DEF LoopInv
    <3>2. \A r \in Requests : Sent(r)' => node'[r] \in Nodes
      BY <2>5, <2>6 DEF LoopInv
    <3>3. QED
      BY <2>7, <3>1, <3>2 DEF LoopInv
<1>4. ASSUME NEW s \in Sources, Outcome(s) \/ Disconnect(s) PROVE LoopInv'
  <2>1. CASE NextAttempt(s)
    <3>1. UNCHANGED <<pc, node>>
      BY <1>4 DEF Outcome, Disconnect
    <3>2. CASE attempt[s] < MaxAttempts
      <4>1. attempt' = [attempt EXCEPT ![s] = @ + 1]
            /\ client' = [client EXCEPT ![s] = "asking"]
        BY <2>1, <3>2 DEF NextAttempt
      <4>2. \A r \in Requests : r[2] > attempt'[r[1]] => r[2] > attempt[r[1]]
        BY <1>r, <4>1 DEF TypeOK
      <4>3. <<s, attempt[s] + 1>> \in Requests
        BY <3>2, MaxAttemptsAssumption DEF Requests, TypeOK
      <4>4. ~Sent(<<s, attempt[s] + 1>>)
        BY <4>3 DEF LoopInv, TypeOK
      <4>5. QED
        BY <3>1, <4>1, <4>2, <4>4 DEF LoopInv, Current, Sent, TypeOK
    <3>3. CASE ~(attempt[s] < MaxAttempts)
      BY <2>1, <3>1, <3>3 DEF NextAttempt, LoopInv, Current, Sent, TypeOK
    <3>4. QED
      BY <3>2, <3>3
  <2>2. CASE ~NextAttempt(s)
    BY <1>4, <2>2 DEF Outcome, Disconnect, LoopInv, Current, Sent, TypeOK
  <2>3. QED
    BY <2>1, <2>2
<1>5. CASE UNCHANGED vars
  BY <1>5 DEF vars, LoopInv, Current, Sent
<1>6. QED
  BY <1>1, <1>2, <1>3, <1>4, <1>5 DEF Next, Loop, NodeStep

LEMMA LoopInvCorrect == Spec => []LoopInv
<1>1. Init => LoopInv
  <2>1. \A s \in Sources : <<s, 1>> \in Requests
    BY MaxAttemptsAssumption DEF Requests
  <2>2. QED
    BY <2>1 DEF Init, LoopInv, Sent, Current
<1>2. QED
  BY <1>1, TypeCorrect, LoopInvStep, PTL DEF Spec

(***************************************************************************)
(* withFileLock(): inductive is that whoever is inside is the head of the  *)
(* chain of its node.                                                      *)
(***************************************************************************)
ChainInv == \A r \in Requests : pc[r] \in Locked => MyTurn(r)

LEMMA ChainLeave ==
  ASSUME TypeOK, ChainInv, NEW r \in Requests, NEW label \in Terminal,
         node[r] \in Nodes, MyTurn(r), Leave(r, label), node' = node
  PROVE  ChainInv'
<1>1. \A q \in Requests : pc'[q] \in Locked => pc[q] \in Locked /\ q # r
  BY DEF Leave, Goto, TypeOK, Locked, Terminal, Refusals, Failures
<1>2. \A q \in Requests : pc'[q] \in Locked => node[q] # node[r]
  BY <1>1 DEF ChainInv, MyTurn
<1>3. QED
  BY <1>1, <1>2 DEF ChainInv, MyTurn, Leave, TypeOK

LEMMA ChainInvStep == TypeOK /\ LoopInv /\ ChainInv /\ [Next]_vars => ChainInv'
<1> SUFFICES ASSUME TypeOK, LoopInv, ChainInv, [Next]_vars PROVE ChainInv'
  OBVIOUS
<1>t. {"aborted", "failed", "complete"} \subseteq Terminal
  BY DEF Terminal, Failures
<1>n. \A r \in Requests : pc[r] # "idle" => node[r] \in Nodes
  BY DEF LoopInv, Sent
<1>1. ASSUME NEW s \in Sources, Loop(s) \/ Disconnect(s) PROVE ChainInv'
  <2>1. CASE Push(s)
    <3>1. Current(s) \in Requests /\ pc[Current(s)] = "idle"
      BY <2>1, CurrentType DEF Push, LoopInv, Sent
    <3>2. QED
      BY <2>1, <3>1 DEF Push, Goto, ChainInv, MyTurn, Locked, TypeOK
  <2>2. CASE ~Push(s)
    BY <1>1, <2>2 DEF Loop, AskState, Outcome, Disconnect, ChainInv, MyTurn
  <2>3. QED
    BY <2>1, <2>2
<1>2. ASSUME NEW r \in Requests,
             CheckWrite(r) \/ EndUnheard(r) \/ OpenAppend(r) \/ OpenNew(r)
             \/ Receive(r) \/ RemoveFinal(r)
      PROVE  ChainInv'
  BY <1>2 DEF CheckWrite, EndUnheard, OpenAppend, OpenNew, Receive,
     RemoveFinal, Goto, ChainInv, MyTurn, Locked, TypeOK, side
<1>3. ASSUME NEW r \in Requests, CheckOffset(r) PROVE ChainInv'
  <2>1. \A q \in Requests : pc'[q] \in Locked => pc[q] \in Locked
    BY <1>3 DEF CheckOffset, Goto, Locked, TypeOK
  <2>2. chain' = chain \/ chain' = [chain EXCEPT ![node[r]] = Append(@, r)]
    BY <1>3 DEF CheckOffset
  <2>3. \A n \in Nodes : chain[n] # <<>> =>
          chain'[n] # <<>> /\ Head(chain'[n]) = Head(chain[n])
    <3>1. \A n \in Nodes : chain[n] # <<>> =>
            Append(chain[n], r) # <<>> /\ Head(Append(chain[n], r)) = Head(chain[n])
      <4> SUFFICES ASSUME NEW n \in Nodes, chain[n] # <<>>
                   PROVE  Append(chain[n], r) # <<>>
                          /\ Head(Append(chain[n], r)) = Head(chain[n])
        OBVIOUS
      <4>1. chain[n] \in Seq(Requests)
        BY DEF TypeOK
      <4>2. QED
        BY <4>1
    <3>2. QED
      BY <2>2, <3>1 DEF TypeOK
  <2>4. \A q \in Requests : pc[q] \in Locked => node[q] \in Nodes
    BY <1>n DEF Locked
  <2>5. QED
    BY <1>3, <2>1, <2>3, <2>4 DEF CheckOffset, ChainInv, MyTurn, side
<1>4. ASSUME NEW r \in Requests,
             Truncate(r) \/ Abort(r) \/ Rename(r) \/ StatFinal(r) \/ Claim(r)
      PROVE  ChainInv'
  <2>1. MyTurn(r) /\ node[r] \in Nodes /\ node' = node
    BY <1>4, <1>n DEF Truncate, Abort, Rename, StatFinal, Claim, ChainInv,
       Locked, side
  <2>2. CASE \E label \in Terminal : Leave(r, label)
    BY <2>1, <2>2, ChainLeave
  <2>3. CASE ~\E label \in Terminal : Leave(r, label)
    <3>1. chain' = chain /\ \E label : Goto(r, label)
      BY <1>4, <1>t, <2>3 DEF Truncate, Abort, Rename, StatFinal, Claim
    <3>2. QED
      BY <2>1, <3>1 DEF Goto, ChainInv, MyTurn, TypeOK
  <2>4. QED
    BY <2>2, <2>3
<1>5. ASSUME NEW n, Dies(n) PROVE ChainInv'
  <2>1. \A q \in Requests :
          pc'[q] \in Locked => pc[q] \in Locked /\ node[q] # n
    BY <1>5 DEF Dies, TypeOK, Locked, Terminal, Refusals, Failures, Answering
  <2>2. QED
    BY <1>5, <2>1 DEF Dies, ChainInv, MyTurn, TypeOK, side
<1>6. CASE UNCHANGED vars
  BY <1>6 DEF vars, ChainInv, MyTurn
<1>7. QED
  BY <1>1, <1>2, <1>3, <1>4, <1>5, <1>6 DEF Next, Handler, StreamFails, Crash

\* One process never runs two uploads of the same name at once, whatever
\* disconnects, resets, failures and crashes the environment comes up with.
THEOREM ChainSerialCorrect == Spec => []ChainSerial
<1>1. Init => ChainInv
  BY DEF Init, ChainInv, Locked
<1>2. ChainInv => ChainSerial
  BY DEF ChainInv, ChainSerial, MyTurn
<1>3. QED
  BY <1>1, <1>2, TypeCorrect, LoopInvCorrect, ChainInvStep, PTL DEF Spec

(***************************************************************************)
(* One upload, cut off and resumed any number of times, on any nodes, with *)
(* node crashes anywhere.  As long as a new attempt begins only after the  *)
(* node has finished with the last one, at most one handler runs, and its  *)
(* position is the end of the .part file.                                  *)
(***************************************************************************)
OneAtATime == "overlap" \notin Faults /\ \E s : Sources = {s}

Live(r) == pc[r] \notin {"idle"} \cup Terminal

Alone ==
  /\ \A r, q \in Requests : (Live(r) /\ Live(q)) => r = q
  /\ \A s \in Sources : client[s] = "picked" => \A r \in Requests : ~Live(r)

Pure(c) == \A j \in 1 .. Len(c) : c[j] \in Sources

DiskInv ==
  /\ \A i \in Inodes : Pure(content[i])
  /\ partFile # None =>
       /\ partFile # finalFile
       /\ \A s \in Sources : Len(content[partFile]) <= Size[s]
  /\ finalFile # None =>
       \A s \in Sources : Len(content[finalFile]) = Size[s]

\* Where the one running handler stands, relative to the .part file.
InPlace(r) ==
  /\ pc[r] \in Answering \cup {"waiting"} => done[r] <= UploadedBytes
  /\ pc[r] \in {"truncated", "receiving"} =>
       partFile # None /\ done[r] = Len(content[partFile])
  /\ pc[r] = "receiving" => fd[r] = partFile
  /\ pc[r] \in {"removing", "renaming"} =>
       partFile # None /\ Len(content[partFile]) = Size[Source(r)]

PlaceInv ==
  /\ \A r \in Requests : InPlace(r)
  /\ \A s \in Sources : client[s] = "picked" => done[Current(s)] <= UploadedBytes

ResumeInv == Alone /\ DiskInv /\ PlaceInv

\* A step of the running handler: nobody else is there to be disturbed.
LEMMA OthersIdle ==
  ASSUME TypeOK, Alone, NEW r \in Requests, Live(r),
         UNCHANGED <<client, attempt>>,
         \A q \in Requests : q # r => pc'[q] = pc[q],
         InPlace(r)'
  PROVE  Alone' /\ PlaceInv'
<1>1. \A q \in Requests : q # r => ~Live(q)
  BY DEF Alone
<1>2. \A q \in Requests : q # r => pc'[q] \in {"idle"} \cup Terminal
  BY <1>1 DEF Live
<1>3. \A s \in Sources : client'[s] # "picked"
  BY DEF Alone
<1>4. \A q \in Requests : q # r => InPlace(q)'
  BY <1>2 DEF InPlace, Answering, Terminal, Refusals, Failures
<1>5. \A q \in Requests : q # r => ~Live(q)'
  BY <1>2 DEF Live
<1>6. PlaceInv'
  BY <1>3, <1>4 DEF PlaceInv
<1>7. Alone'
  BY <1>3, <1>5 DEF Alone
<1>8. QED
  BY <1>6, <1>7

\* The handler returns: the disk stays, and nobody is running.
LEMMA LeaveKeeps ==
  ASSUME TypeOK, ResumeInv, NEW r \in Requests, NEW label \in Terminal, Live(r),
         Leave(r, label), UNCHANGED <<partFile, finalFile, content, side>>
  PROVE  ResumeInv'
<1>1. InPlace(r)'
  BY DEF Leave, Goto, TypeOK, InPlace, Answering, Terminal, Refusals, Failures
<1>2. \A q \in Requests : q # r => pc'[q] = pc[q]
  BY DEF Leave, Goto, TypeOK
<1>3. Alone' /\ PlaceInv'
  BY <1>1, <1>2, OthersIdle DEF ResumeInv, side
<1>4. QED
  BY <1>3 DEF ResumeInv, DiskInv

LEMMA ResumeInvStep ==
  ASSUME OneAtATime
  PROVE  TypeOK /\ LoopInv /\ ResumeInv /\ [Next]_vars => ResumeInv'
<1> SUFFICES ASSUME TypeOK, LoopInv, ResumeInv, [Next]_vars PROVE ResumeInv'
  OBVIOUS
<1>s. PICK s0 : Sources = {s0} /\ Size[s0] \in Nat
  BY SizeAssumption DEF OneAtATime
<1>r. \A r \in Requests : Source(r) = s0 /\ r[1] = s0 /\ r[2] \in 1 .. MaxAttempts
                        /\ r = <<r[1], r[2]>>
  BY <1>s DEF Requests, Source
<1>l. \A i \in Inodes : content[i] \in Seq(Chunk) /\ Len(content[i]) \in Nat
  BY DEF TypeOK, Chunk
<1>p. partFile # None => partFile \in Inodes
  BY DEF TypeOK
<1>u. UploadedBytes \in Nat
  BY UploadedBytesType
<1>t. {"aborted", "failed", "complete"} \subseteq Terminal
  BY DEF Terminal, Failures
<1> DEFINE running == Answering \cup {"waiting"} \cup Locked
<1>v. \A r \in Requests : pc[r] \in running => Live(r)
  BY DEF Live, Answering, Locked, Terminal, Refusals, Failures
<1>1. ASSUME NEW s \in Sources, AskState(s) PROVE ResumeInv'
  <2>1. s = s0
    BY <1>s
  <2>2. \A r \in Requests : ~Live(r)
    <3> SUFFICES ASSUME NEW r \in Requests PROVE ~Live(r)
      OBVIOUS
    <3>1. r[2] > attempt[s] => pc[r] = "idle"
      BY <1>r, <2>1 DEF LoopInv, Sent
    <3>2. r[2] = attempt[s] => pc[r] = "idle"
      BY <1>1, <1>r, <2>1 DEF AskState, LoopInv, Sent, Current
    <3>3. r[2] < attempt[s] => pc[r] \in Terminal
      <4>1. r[2] < attempt[s] => r[2] \in 1 .. (attempt[s] - 1)
        BY <1>r DEF TypeOK
      <4>2. QED
        BY <1>1, <1>r, <2>1, <4>1 DEF AskState, OneAtATime
    <3>4. r[2] \in Nat /\ attempt[s] \in Nat
      BY <1>r, MaxAttemptsAssumption DEF TypeOK
    <3>5. QED
      BY <3>1, <3>2, <3>3, <3>4 DEF Live
  <2>3. done'[Current(s)] <= UploadedBytes
    BY <1>1, <1>u, CurrentType DEF AskState, TypeOK
  <2>4. UNCHANGED <<partFile, finalFile, content, pc, attempt>>
    BY <1>1 DEF AskState, disk
  <2>5. \A r \in Requests : InPlace(r)'
    BY <2>2, <2>4 DEF InPlace, Live, Answering, Terminal, Refusals, Failures
  <2>6. PlaceInv'
    BY <1>s, <2>1, <2>3, <2>4, <2>5 DEF PlaceInv, Current, UploadedBytes
  <2>7. Alone' /\ DiskInv'
    BY <2>2, <2>4 DEF Alone, Live, ResumeInv, DiskInv
  <2>8. QED
    BY <2>6, <2>7 DEF ResumeInv
<1>2. ASSUME NEW s \in Sources, Push(s) PROVE ResumeInv'
  <2>1. s = s0 /\ Current(s) \in Requests /\ client[s] = "picked"
    BY <1>2, <1>s, CurrentType DEF Push
  <2>2. \A r \in Requests : ~Live(r)
    BY <2>1 DEF ResumeInv, Alone
  <2>3. /\ UNCHANGED <<partFile, finalFile, content, done, attempt>>
        /\ pc' = [pc EXCEPT ![Current(s)] = "arrived"]
        /\ client' = [client EXCEPT ![s] = "pushing"]
    BY <1>2 DEF Push, Goto, disk
  <2>4. \A r \in Requests : r # Current(s) => ~Live(r)' /\ InPlace(r)'
    BY <2>1, <2>2, <2>3 DEF InPlace, Live, TypeOK, Answering, Terminal, Refusals,
       Failures
  <2>5. InPlace(Current(s))'
    <3>1. done[Current(s)] <= UploadedBytes
      BY <2>1 DEF ResumeInv, PlaceInv
    <3>2. pc'[Current(s)] = "arrived" /\ UploadedBytes' = UploadedBytes
      BY <2>1, <2>3 DEF TypeOK, UploadedBytes
    <3>3. \A r \in Requests : r = Current(s) => InPlace(r)'
      BY <2>3, <3>1, <3>2 DEF InPlace
    <3>4. /\ pc'[Current(s)] = "arrived"
          /\ done'[Current(s)] <= UploadedBytes'
      BY <2>3, <3>1, <3>2
    <3>5. QED
      BY <2>3, <3>4 DEF InPlace, Current
  <2>6. client'[s0] = "pushing"
    BY <2>1, <2>3, <1>s DEF TypeOK
  <2>7. Alone' /\ DiskInv'
    BY <1>s, <2>3, <2>4, <2>6 DEF Alone, ResumeInv, DiskInv
  <2>8. \A r \in Requests : InPlace(r)'
    BY <2>3, <2>4, <2>5 DEF Current
  <2>9. QED
    BY <1>s, <2>6, <2>7, <2>8 DEF ResumeInv, PlaceInv
<1>3. ASSUME NEW s \in Sources, Outcome(s) \/ Disconnect(s) PROVE ResumeInv'
  <2>1. UNCHANGED <<partFile, finalFile, content, done, pc, fd>>
    BY <1>3 DEF Outcome, Disconnect, disk
  <2>2. client'[s] # "picked" /\ s = s0
    BY <1>3, <1>s DEF Outcome, Disconnect, NextAttempt, TypeOK
  <2>3. Alone' /\ DiskInv'
    BY <1>s, <2>1, <2>2 DEF ResumeInv, Alone, DiskInv, Live
  <2>4. PlaceInv'
    BY <1>s, <2>1, <2>2 DEF ResumeInv, PlaceInv, InPlace, UploadedBytes
  <2>5. QED
    BY <2>3, <2>4 DEF ResumeInv
<1>4. ASSUME NEW r \in Requests,
             CheckWrite(r) \/ CheckOffset(r) \/ EndUnheard(r) \/ OpenAppend(r)
      PROVE  ResumeInv'
  <2>1. Live(r) /\ UNCHANGED <<partFile, finalFile, content, done, client, attempt>>
    BY <1>4, <1>v DEF CheckWrite, CheckOffset, EndUnheard, OpenAppend, disk,
       side, Answering, Locked
  <2>2. \A q \in Requests : q # r => pc'[q] = pc[q]
    BY <1>4 DEF CheckWrite, CheckOffset, EndUnheard, OpenAppend, Goto, TypeOK
  <2>3. InPlace(r)'
    BY <1>4, <2>1 DEF CheckWrite, CheckOffset, EndUnheard, OpenAppend, Goto,
       ResumeInv, PlaceInv, InPlace, UploadedBytes, Answering, TypeOK
  <2>4. Alone' /\ PlaceInv'
    BY <2>1, <2>2, <2>3, OthersIdle DEF ResumeInv
  <2>5. QED
    BY <2>1, <2>4 DEF ResumeInv, DiskInv
<1>5. ASSUME NEW r \in Requests, Truncate(r) PROVE ResumeInv'
  <2>1. Live(r)
    BY <1>5, <1>v DEF Truncate
  <2>2. CASE partFile = None
    BY <1>5, <1>t, <2>1, <2>2, LeaveKeeps DEF Truncate
  <2>3. CASE partFile # None
    <3> DEFINE c == content[partFile]
    <3>1. done[r] \in Nat /\ done[r] <= Len(c)
      BY <1>5, <2>3 DEF Truncate, ResumeInv, PlaceInv, InPlace, UploadedBytes, TypeOK
    <3>2. /\ content' = [content EXCEPT ![partFile] = Resized(c, done[r])]
          /\ pc' = [pc EXCEPT ![r] = "truncated"]
          /\ UNCHANGED <<partFile, finalFile, client, attempt, done>>
      BY <1>5, <2>3 DEF Truncate, Goto, side
    <3>3. content'[partFile] = Resized(c, done[r])
      BY <1>p, <2>3, <3>2 DEF TypeOK
    <3>4. Len(content'[partFile]) = done[r] /\ Pure(content'[partFile])
      <4>1. c \in Seq(Chunk) /\ Len(c) \in Nat /\ Pure(c)
        BY <1>l, <1>p, <2>3 DEF ResumeInv, DiskInv
      <4>2. /\ Len(Resized(c, done[r])) = done[r]
            /\ \A i \in 1 .. done[r] :
                 i <= Len(c) => Resized(c, done[r])[i] = c[i]
        BY <3>1, <4>1, ResizedType
      <4>3. QED
        BY <3>1, <3>3, <4>1, <4>2 DEF Pure
    <3>5. Alone' /\ PlaceInv'
      <4>1. InPlace(r)'
        BY <2>3, <3>2, <3>4 DEF InPlace, Answering, TypeOK
      <4>2. \A q \in Requests : q # r => pc'[q] = pc[q]
        BY <3>2 DEF TypeOK
      <4>3. QED
        BY <2>1, <3>2, <4>1, <4>2, OthersIdle DEF ResumeInv
    <3>6. DiskInv'
      <4>1. \A i \in Inodes : i # partFile => content'[i] = content[i]
        BY <3>2 DEF TypeOK
      <4>2. \A i \in Inodes : Pure(content'[i])
        BY <3>4, <4>1 DEF ResumeInv, DiskInv
      <4>3. Len(content'[partFile]) <= Size[s0]
        BY <1>l, <1>p, <1>s, <2>3, <3>1, <3>4 DEF ResumeInv, DiskInv
      <4>4. finalFile # None => content'[finalFile] = content[finalFile]
        BY <2>3, <4>1 DEF ResumeInv, DiskInv, TypeOK
      <4>5. QED
        BY <1>s, <2>3, <3>2, <4>2, <4>3, <4>4 DEF ResumeInv, DiskInv
    <3>7. QED
      BY <3>5, <3>6 DEF ResumeInv
  <2>4. QED
    BY <2>2, <2>3
<1>6. ASSUME NEW r \in Requests, OpenNew(r) PROVE ResumeInv'
  <2>1. Live(r)
    BY <1>6, <1>v DEF OpenNew
  <2>2. partFile' \in Inodes /\ partFile' # None /\ partFile' # finalFile
    BY <1>6, NoneAssumption
    DEF OpenNew, NewInode, FreeInodes, ResumeInv, DiskInv, TypeOK
  <2>3. /\ content' = [content EXCEPT ![partFile'] = <<>>]
        /\ fd' = [fd EXCEPT ![r] = partFile']
        /\ pc' = [pc EXCEPT ![r] = "receiving"]
        /\ done[r] = 0
        /\ UNCHANGED <<finalFile, client, attempt, done>>
    BY <1>6 DEF OpenNew, Goto, side
  <2>4. content'[partFile'] = <<>> /\ Len(content'[partFile']) = 0
    BY <2>2, <2>3 DEF TypeOK
  <2>5. Alone' /\ PlaceInv'
    <3>1. InPlace(r)'
      BY <2>2, <2>3, <2>4 DEF InPlace, Answering, TypeOK
    <3>2. \A q \in Requests : q # r => pc'[q] = pc[q]
      BY <2>3 DEF TypeOK
    <3>3. QED
      BY <2>1, <2>3, <3>1, <3>2, OthersIdle DEF ResumeInv
  <2>6. DiskInv'
    <3>1. \A i \in Inodes : i # partFile' => content'[i] = content[i]
      BY <2>3 DEF TypeOK
    <3>2. \A i \in Inodes : Pure(content'[i])
      BY <2>4, <3>1 DEF Pure, ResumeInv, DiskInv
    <3>3. finalFile # None => content'[finalFile] = content[finalFile]
      BY <2>2, <3>1 DEF TypeOK
    <3>4. QED
      BY <1>s, <2>2, <2>3, <2>4, <3>2, <3>3 DEF ResumeInv, DiskInv
  <2>7. QED
    BY <2>5, <2>6 DEF ResumeInv
<1>7. ASSUME NEW r \in Requests, Receive(r) PROVE ResumeInv'
  <2> DEFINE c == content[partFile]
  <2>1. Live(r)
    BY <1>7, <1>v DEF Receive, Locked
  <2>2. /\ partFile # None /\ partFile \in Inodes
        /\ fd[r] = partFile /\ done[r] = Len(c) /\ Len(c) < Size[s0]
    BY <1>7, <1>p, <1>r DEF Receive, ResumeInv, PlaceInv, InPlace
  <2>3. /\ content' = [content EXCEPT ![partFile] = Written(c, Len(c), s0)]
        /\ done' = [done EXCEPT ![r] = Len(c) + 1]
        /\ UNCHANGED <<partFile, finalFile, client, attempt>>
    BY <1>7, <1>r, <2>2 DEF Receive, side
  <2>4. content'[partFile] = Written(c, Len(c), s0)
    BY <2>2, <2>3 DEF TypeOK
  <2>5. Len(content'[partFile]) = Len(c) + 1 /\ Pure(content'[partFile])
    <3>1. c \in Seq(Chunk) /\ s0 \in Sources /\ Pure(c)
      BY <1>l, <1>s, <2>2 DEF ResumeInv, DiskInv
    <3>2. Len(c) \in Nat
      BY <1>l, <2>2
    <3>3. QED
      BY <2>4, <3>1, <3>2, WrittenAtEnd DEF Pure
  <2>6. Len(c) \in Nat /\ Len(c) + 1 <= Size[s0]
    BY <1>l, <1>s, <2>2
  <2>7. Alone' /\ PlaceInv'
    <3>1. CASE AllReceived(r)
      <4>1. Len(content'[partFile]) = Size[s0] /\ pc' = [pc EXCEPT ![r] = "removing"]
        BY <1>7, <1>r, <1>s, <2>2, <2>5, <2>6, <3>1 DEF Receive, AllReceived, Goto
      <4>2. InPlace(r)'
        BY <1>r, <2>2, <2>3, <4>1 DEF InPlace, Answering, TypeOK
      <4>3. \A q \in Requests : q # r => pc'[q] = pc[q]
        BY <4>1 DEF TypeOK
      <4>4. QED
        BY <2>1, <2>3, <4>2, <4>3, OthersIdle DEF ResumeInv
    <3>2. CASE ~AllReceived(r)
      <4>1. UNCHANGED <<pc, fd>> /\ pc[r] = "receiving"
        BY <1>7, <3>2 DEF Receive
      <4>2. InPlace(r)'
        BY <2>2, <2>3, <2>5, <4>1 DEF InPlace, Answering, TypeOK
      <4>3. QED
        BY <2>1, <2>3, <4>1, <4>2, OthersIdle DEF ResumeInv
    <3>3. QED
      BY <3>1, <3>2
  <2>8. DiskInv'
    <3>1. \A i \in Inodes : i # partFile => content'[i] = content[i]
      BY <2>3 DEF TypeOK
    <3>2. \A i \in Inodes : Pure(content'[i])
      BY <2>5, <3>1 DEF ResumeInv, DiskInv
    <3>3. finalFile # None => content'[finalFile] = content[finalFile]
      BY <2>2, <3>1 DEF ResumeInv, DiskInv, TypeOK
    <3>4. QED
      BY <1>s, <2>2, <2>3, <2>5, <2>6, <3>2, <3>3 DEF ResumeInv, DiskInv
  <2>9. QED
    BY <2>7, <2>8 DEF ResumeInv
<1>8. ASSUME NEW r \in Requests, Abort(r) \/ Claim(r) PROVE ResumeInv'
  <2>1. Live(r) /\ UNCHANGED <<partFile, finalFile, content, side>>
    BY <1>8, <1>v DEF Abort, Claim, Locked, disk
  <2>2. QED
    BY <1>8, <1>t, <2>1, LeaveKeeps DEF Abort, Claim
<1>9. ASSUME NEW r \in Requests, RemoveFinal(r) PROVE ResumeInv'
  <2>1. Live(r)
    BY <1>9, <1>v DEF RemoveFinal, Locked
  <2>2. \A q \in Requests : q # r => pc'[q] = pc[q]
    BY <1>9 DEF RemoveFinal, Goto, TypeOK
  <2>3. InPlace(r)'
    BY <1>9 DEF RemoveFinal, Goto, ResumeInv, PlaceInv, InPlace, Answering, TypeOK
  <2>4. Alone' /\ PlaceInv'
    BY <1>9, <2>1, <2>2, <2>3, OthersIdle DEF RemoveFinal, ResumeInv, side
  <2>5. QED
    BY <1>9, <2>4 DEF RemoveFinal, ResumeInv, DiskInv
<1>10. ASSUME NEW r \in Requests, Rename(r) PROVE ResumeInv'
  <2>1. Live(r) /\ partFile # None /\ Len(content[partFile]) = Size[s0]
    BY <1>10, <1>r, <1>v DEF Rename, Locked, ResumeInv, PlaceInv, InPlace
  <2>2. /\ finalFile' = partFile /\ partFile' = None
        /\ pc' = [pc EXCEPT ![r] = "stating"]
        /\ UNCHANGED <<content, client, attempt>>
    BY <1>10, <2>1 DEF Rename, Goto, side
  <2>3. InPlace(r)' /\ \A q \in Requests : q # r => pc'[q] = pc[q]
    BY <2>2 DEF InPlace, Answering, TypeOK
  <2>4. Alone' /\ PlaceInv'
    BY <2>1, <2>2, <2>3, OthersIdle DEF ResumeInv
  <2>5. QED
    BY <1>s, <2>1, <2>2, <2>4 DEF ResumeInv, DiskInv
<1>11. ASSUME NEW r \in Requests, StatFinal(r) PROVE ResumeInv'
  <2>1. Live(r) /\ UNCHANGED <<partFile, finalFile, content, side>>
    BY <1>11, <1>v DEF StatFinal, Locked, disk
  <2>2. CASE finalFile = None
    BY <1>11, <1>t, <2>1, <2>2, LeaveKeeps DEF StatFinal
  <2>3. CASE finalFile # None
    <3>1. InPlace(r)' /\ \A q \in Requests : q # r => pc'[q] = pc[q]
      BY <1>11, <2>3 DEF StatFinal, Goto, InPlace, Answering, TypeOK
    <3>2. Alone' /\ PlaceInv'
      BY <2>1, <3>1, OthersIdle DEF ResumeInv, side
    <3>3. QED
      BY <2>1, <3>2 DEF ResumeInv, DiskInv
  <2>4. QED
    BY <2>2, <2>3
<1>12. ASSUME NEW n, Dies(n) PROVE ResumeInv'
  <2>1. UNCHANGED <<partFile, finalFile, content, client, attempt>>
    BY <1>12 DEF Dies, disk, side
  <2>2. \A r \in Requests :
          \/ pc'[r] \in Terminal
          \/ pc'[r] = pc[r] /\ done'[r] = done[r] /\ fd'[r] = fd[r]
    BY <1>12 DEF Dies, TypeOK, Terminal, Failures
  <2>3. \A r \in Requests : pc'[r] \in Terminal \/ pc'[r] = pc[r]
    BY <2>2
  <2>4. Alone'
    BY <2>1, <2>3 DEF ResumeInv, Alone, Live
  <2>5. \A r \in Requests : InPlace(r)'
    BY <2>1, <2>2 DEF ResumeInv, PlaceInv, InPlace, UploadedBytes, Answering,
       Terminal, Refusals, Failures
  <2>6. \A s \in Sources : client'[s] = "picked" =>
          done'[Current(s)] = done[Current(s)]
    <3>1. \A s \in Sources : client[s] = "picked" => pc[Current(s)] = "idle"
      BY DEF LoopInv, Sent
    <3>2. QED
      BY <1>12, <2>1, <3>1, CurrentType DEF Dies, TypeOK
  <2>7. QED
    BY <2>1, <2>4, <2>5, <2>6 DEF ResumeInv, DiskInv, PlaceInv, Current, UploadedBytes
<1>13. CASE UNCHANGED vars
  BY <1>13 DEF vars, ResumeInv, Alone, Live, DiskInv, PlaceInv, InPlace, Current,
     UploadedBytes
<1>14. QED
  BY <1>1, <1>2, <1>3, <1>4, <1>5, <1>6, <1>7, <1>8, <1>9, <1>10, <1>11, <1>12,
     <1>13
  DEF Next, Handler, Loop, StreamFails, Crash

LEMMA ResumeInvCorrect ==
  ASSUME OneAtATime
  PROVE  Spec => []ResumeInv
<1>1. Init => ResumeInv
  <2>1. Init => Alone /\ DiskInv
    BY DEF Init, Alone, Live, DiskInv, Pure
  <2>2. Init => PlaceInv
    BY DEF Init, PlaceInv, InPlace, Answering
  <2>3. QED
    BY <2>1, <2>2 DEF ResumeInv
<1>2. QED
  BY <1>1, TypeCorrect, LoopInvCorrect, ResumeInvStep, PTL DEF Spec

LEMMA FinalFromInvariant ==
  ASSUME OneAtATime, TypeOK, ResumeInv
  PROVE  FinalIsWhole
<1> SUFFICES ASSUME finalFile # None
             PROVE  \E s \in Sources : content[finalFile] = WholeFile(s)
  BY DEF FinalIsWhole
<1>1. PICK s : Sources = {s} /\ Size[s] \in Nat
  BY SizeAssumption DEF OneAtATime
<1>2. content[finalFile] \in Seq(Chunk) /\ finalFile \in Inodes
  BY DEF TypeOK, Chunk
<1>3. Len(content[finalFile]) = Size[s] /\ Pure(content[finalFile])
  BY <1>1, <1>2 DEF ResumeInv, DiskInv
<1>4. WholeFile(s) \in Seq(Sources) /\ Len(WholeFile(s)) = Size[s]
  BY <1>1, SeqFromFunction DEF WholeFile
<1>5. \A i \in 1 .. Size[s] : content[finalFile][i] = WholeFile(s)[i]
  BY <1>1, <1>3 DEF Pure, WholeFile
<1>6. content[finalFile] = WholeFile(s)
  BY <1>2, <1>3, <1>4, <1>5
<1>7. QED
  BY <1>1, <1>6

\* One client that is cut off and comes back, on whatever node, and nodes that
\* die at any point: what has the real name is the local file, chunk for
\* chunk, however long it is and however often it was resumed.
THEOREM ResumedFileIsWhole ==
  ASSUME OneAtATime
  PROVE  Spec => []FinalIsWhole
BY FinalFromInvariant, TypeCorrect, ResumeInvCorrect, PTL

\* Under the same assumption the nodes implement StoredFile: downloads see no
\* file or a whole one, and it never changes behind its name.
THEOREM StoredFileImplemented ==
  ASSUME OneAtATime
  PROVE  Spec => StoredAsWhole
<1> DEFINE Stored == IF finalFile = None THEN None ELSE content[finalFile]
           Wholes == UNION {[1 .. k -> Sources \cup {Hole}] : k \in Lengths}
<1>1. Init => Promise!Init
  BY DEF Init, Promise!Init
<1>2. \A s \in Sources : WholeFile(s) \in Wholes
  <2>1. ASSUME NEW s \in Sources
        PROVE  Size[s] \in Lengths /\ WholeFile(s) \in [1 .. Size[s] -> Sources \cup {Hole}]
    BY DEF Lengths, WholeFile
  <2>2. QED
    BY <2>1
<1>3. ASSUME FinalIsWhole, FinalIsWhole'
      PROVE  [Promise!Next]_Stored
  <2>1. PICK s : Sources = {s}
    BY DEF OneAtATime
  <2>2. Stored = None \/ Stored = WholeFile(s)
    BY <1>3, <2>1 DEF FinalIsWhole
  <2>3. Stored' = None \/ Stored' = WholeFile(s)
    BY <1>3, <2>1 DEF FinalIsWhole, WholeFile
  <2>4. CASE Stored' = Stored
    BY <2>4
  <2>5. CASE Stored = None /\ Stored' = WholeFile(s)
    BY <1>2, <2>1, <2>5 DEF Promise!Next, Promise!Promote
  <2>6. CASE Stored # None /\ Stored' = None
    BY <2>6 DEF Promise!Next, Promise!Remove
  <2>7. QED
    BY <2>2, <2>3, <2>4, <2>5, <2>6
<1>4. QED
  BY <1>1, <1>3, ResumedFileIsWhole, PTL DEF StoredAsWhole, Promise!Spec, Spec

\* Under the same assumption the .part file never has a hole and never mixes
\* files, so its size is the exact resume point.
THEOREM ResumePointIsExact ==
  ASSUME OneAtATime
  PROVE  Spec => []ResumeIsExact
<1>1. TypeOK /\ ResumeInv => ResumeIsExact
  <2> SUFFICES ASSUME TypeOK, ResumeInv, partFile # None
               PROVE  \E s \in Sources : \A i \in 1 .. Len(content[partFile]) :
                        content[partFile][i] = s
    BY DEF ResumeIsExact
  <2>1. PICK s : Sources = {s}
    BY DEF OneAtATime
  <2>2. Pure(content[partFile])
    BY DEF ResumeInv, DiskInv, TypeOK
  <2>3. QED
    BY <2>1, <2>2 DEF Pure
<1>2. QED
  BY <1>1, TypeCorrect, ResumeInvCorrect, PTL
=============================================================================
