--------------------------- MODULE DownloadProofs ---------------------------
(***************************************************************************)
(* Theorems about Download, for every set of nodes and versions, versions  *)
(* of every size, and every number of attempts, runs and faults.           *)
(***************************************************************************)
EXTENDS Download, FiniteSetTheorems, TLAPS

\* The client reads the socket of the request.
Conn == {"waiting", "truncating", "receiving"}

\* The answers after which the client goes on.
Answered == Running \cup Closed \cup {"gone"}

\* Where the client is in its .part file, and where the stream of the attempt
\* under way is.
LoopInv ==
  /\ client \notin Conn => received = 0 /\ fd = None
  /\ client \in {"waiting", "truncating"} => offset = SizeOf(part) /\ received = 0
  /\ client = "truncating" => part # None /\ offset < total
  /\ client = "receiving" =>
       part # None /\ Len(part) = offset + received /\ Len(part) < total
  /\ client \in {"truncating", "receiving"} => pc[request] \in Answered
  /\ client \in Conn =>
       /\ pc[request] \notin {"idle", "aborted"}
       /\ pc[request] \in {"arrived", "found", "opening"} => fd = None
       /\ pc[request] \in {"sending", "completed"} => fd # None
       /\ fd = None => pos = offset

(***************************************************************************)
(* Sequences and types.                                                    *)
(***************************************************************************)
LEMMA NoneFacts ==
  /\ None \notin Versions /\ None \notin Nodes
  /\ None \notin Seq(Chunks)
  /\ <<>> \in Seq(Chunks) /\ <<>> # None
<1>1. <<>> \in Seq(Chunks)
  OBVIOUS
<1>2. QED
  BY <1>1, NoneAssumption

LEMMA PartType ==
  ASSUME TypeOK, part # None
  PROVE  part \in Seq(Chunks) /\ Len(part) \in Nat /\ SizeOf(part) = Len(part)
BY DEF TypeOK, SizeOf, Files

LEMMA SizeType ==
  /\ \A v \in Versions : Size[v] \in Nat /\ Size[v] > 0
  /\ TypeOK => SizeOf(part) \in Nat /\ StoredSize \in Nat
<1>1. \A v \in Versions : Size[v] \in Nat /\ Size[v] > 0
  BY SizeAssumption
<1>2. TypeOK => SizeOf(part) \in Nat
  BY PartType DEF SizeOf
<1>3. QED
  BY <1>1, <1>2 DEF StoredSize, TypeOK

LEMMA GotoType ==
  ASSUME TypeOK, NEW r \in Requests, NEW label \in PCs, Goto(r, label)
  PROVE  pc' \in [Requests -> PCs]
BY DEF TypeOK, Goto

Reports == [started : Nat, completed : Nat, aborted : Nat, live : BOOLEAN]

LEMMA ReportsType ==
  /\ NoDownloads \in Reports
  /\ \A m \in Reports : OnStarted(m) \in Reports /\ OnCompleted(m) \in Reports
                          /\ OnAborted(m) \in Reports
<1>1. NoDownloads \in Reports
  BY DEF NoDownloads, Reports
<1>2. ASSUME NEW m \in Reports PROVE OnStarted(m) \in Reports
  <2>1. m.started + 1 \in Nat /\ TRUE \in BOOLEAN
    BY <1>2 DEF Reports
  <2>2. QED
    BY <1>2, <2>1 DEF Reports, OnStarted
<1>3. ASSUME NEW m \in Reports PROVE OnCompleted(m) \in Reports
  <2>1. m.completed + 1 \in Nat /\ FALSE \in BOOLEAN
    BY <1>3 DEF Reports
  <2>2. QED
    BY <1>3, <2>1 DEF Reports, OnCompleted
<1>4. ASSUME NEW m \in Reports PROVE OnAborted(m) \in Reports
  <2>1. m.aborted + 1 \in Nat /\ FALSE \in BOOLEAN
    BY <1>4 DEF Reports
  <2>2. QED
    BY <1>4, <2>1 DEF Reports, OnAborted
<1>5. QED
  BY <1>1, <1>2, <1>3, <1>4

LEMMA SuccessorType ==
  ASSUME NEW r \in Requests
  PROVE  /\ r[1] \in 1 .. MaxRuns /\ r[2] \in 1 .. MaxAttempts
         /\ r[2] < MaxAttempts => <<r[1], r[2] + 1>> \in Requests
         /\ r[1] < MaxRuns => <<r[1] + 1, 1>> \in Requests
BY BoundsAssumption DEF Requests

LEMMA IndexType == \A r \in Requests : r[1] \in Nat /\ r[2] \in Nat
<1>1. ASSUME NEW k \in 1 .. MaxRuns PROVE k \in Nat
  BY BoundsAssumption
<1>2. ASSUME NEW k \in 1 .. MaxAttempts PROVE k \in Nat
  BY BoundsAssumption
<1>3. QED
  BY <1>1, <1>2, SuccessorType

LEMMA InitType == Init => TypeOK
<1> SUFFICES ASSUME Init PROVE TypeOK
  OBVIOUS
<1>1. request \in Requests /\ stored \in Versions \cup {None}
  BY BoundsAssumption DEF Init, Requests, Cloud!Init
<1>2. part \in Files
  BY DEF Init, Files
<1>3. monitor \in [Nodes -> Reports]
  BY ReportsType DEF Init
<1>4. pc \in [Requests -> PCs] /\ node \in [Requests -> Nodes \cup {None}]
  BY DEF Init, PCs
<1>5. QED
  BY <1>1, <1>2, <1>3, <1>4 DEF Init, TypeOK, Working, Reports

LEMMA HandlerType ==
  ASSUME TypeOK, LoopInv, NEW r \in Requests, Handler(r)
  PROVE  TypeOK'
<1>0. {"denied", "found", "opening", "threw", "sending", "completed", "aborted"}
        \subseteq PCs
  BY DEF PCs, Running, Closed
<1>1. CASE Check(r)
  <2>1. pc' \in [Requests -> PCs]
    BY <1>0, <1>1, GotoType DEF Check
  <2>2. QED
    BY <1>1, <2>1 DEF Check, TypeOK, local, loop, pull
<1>2. CASE Header(r)
  <2>1. pc' \in [Requests -> PCs]
    BY <1>0, <1>2, GotoType DEF Header
  <2>2. total' \in Nat
    BY <1>2, SizeType DEF Header, TypeOK
  <2>3. monitor' \in [Nodes -> Reports]
    BY <1>2, ReportsType DEF Header, TypeOK, Reports
  <2>4. QED
    BY <1>2, <2>1, <2>2, <2>3 DEF Header, TypeOK, local, loop, pull, Reports
<1>3. CASE Open(r)
  <2>1. pc' \in [Requests -> PCs]
    BY <1>0, <1>3, GotoType DEF Open
  <2>2. fd' \in Versions \cup {None}
    BY <1>3 DEF Open, TypeOK
  <2>3. QED
    BY <1>3, <2>1, <2>2 DEF Open, TypeOK, local, loop, pull
<1>4. CASE Send(r)
  BY <1>4 DEF Send, TypeOK, local, loop, server
<1>5. CASE Complete(r)
  <2>1. pc' \in [Requests -> PCs]
    BY <1>0, <1>5, GotoType DEF Complete
  <2>2. monitor' \in [Nodes -> Reports]
    BY <1>5, ReportsType DEF Complete, TypeOK, Reports
  <2>3. QED
    BY <1>5, <2>1, <2>2 DEF Complete, TypeOK, local, loop, pull, Reports
<1>6. CASE Abort(r)
  <2>1. pc' \in [Requests -> PCs]
    BY <1>0, <1>6, GotoType DEF Abort
  <2>2. monitor' \in [Nodes -> Reports]
    BY <1>6, ReportsType DEF Abort, TypeOK, Reports
  <2>3. QED
    BY <1>6, <2>1, <2>2 DEF Abort, TypeOK, local, loop, pull, Reports
<1>7. QED
  BY <1>1, <1>2, <1>3, <1>4, <1>5, <1>6 DEF Handler

LEMMA RetryType ==
  ASSUME TypeOK, Retry
  PROVE  request' \in Requests /\ client' \in Working \cup Finished
BY SuccessorType DEF Retry, TypeOK, Working, Finished

\* What a chunk that arrives does to the .part file.
LEMMA ReceiveFacts ==
  ASSUME TypeOK, LoopInv, Receive
  PROVE  /\ fd \in Versions /\ part \in Seq(Chunks) /\ Len(part) \in Nat
         /\ part' \in Seq(Chunks) /\ Len(part') = Len(part) + 1
         /\ \A i \in 1 .. Len(part') :
              part'[i] = IF i = Len(part) + 1 THEN <<fd, i>> ELSE part[i]
<1>1. /\ part # None /\ part \in Seq(Chunks) /\ Len(part) \in Nat
      /\ offset + received = Len(part)
  BY PartType DEF Receive, LoopInv
<1>2. fd \in Versions
  BY <1>1 DEF Receive, LoopInv, Conn, TypeOK
<1>3. Chunk = <<fd, Len(part) + 1>> /\ Chunk \in Chunks
  BY <1>1, <1>2 DEF Chunk, Chunks
<1>4. part' = Written(part, Len(part), Chunk)
  BY <1>1 DEF Receive
<1>5. part' = [i \in 1 .. Len(part) + 1 |-> IF i = Len(part) + 1 THEN Chunk ELSE part[i]]
  BY <1>1, <1>4 DEF Written
<1>6. part' \in Seq(Chunks) /\ Len(part') = Len(part) + 1
  <2>1. \A i \in 1 .. Len(part) + 1 :
          (IF i = Len(part) + 1 THEN Chunk ELSE part[i]) \in Chunks
    BY <1>1, <1>3
  <2>2. part' \in [1 .. Len(part) + 1 -> Chunks] /\ Len(part) + 1 \in Nat
    BY <1>1, <1>5, <2>1
  <2>3. QED
    BY <1>1, <1>5, <2>2
<1>7. ASSUME NEW i \in 1 .. Len(part')
      PROVE  part'[i] = IF i = Len(part) + 1 THEN <<fd, i>> ELSE part[i]
  BY <1>3, <1>5, <1>6
<1>8. QED
  BY <1>1, <1>2, <1>6, <1>7

\* The truncate drops nothing and adds no hole: the offset is the size that was
\* measured.
LEMMA TruncateFacts ==
  ASSUME TypeOK, LoopInv, Truncate
  PROVE  part' = part
<1>1. part \in Seq(Chunks) /\ offset = Len(part) /\ Len(part) \in Nat
  BY PartType DEF Truncate, LoopInv
<1>2. part' = [i \in 1 .. Len(part) |-> part[i]]
  BY <1>1 DEF Truncate, Resized
<1>3. QED
  BY <1>1, <1>2

LEMMA LoopType ==
  ASSUME TypeOK, LoopInv, Loop
  PROVE  TypeOK'
<1>1. CASE Ask
  <2>1. pc' \in [Requests -> PCs]
    BY <1>1 DEF Ask, Goto, TypeOK, PCs
  <2>2. offset' \in Nat /\ pos' \in Nat
    BY <1>1, SizeType DEF Ask
  <2>3. node' \in [Requests -> Nodes \cup {None}]
    BY <1>1 DEF Ask, TypeOK
  <2>4. touched' \in BOOLEAN
    BY <1>1 DEF Ask
  <2>5. QED
    BY <1>1, <2>1, <2>2, <2>3, <2>4 DEF Ask, TypeOK, pull, local, Working
<1>2. CASE ReadHeader
  <2>1. part' \in Files
    BY <1>2, NoneFacts DEF ReadHeader, TypeOK, Files
  <2>2. QED
    BY <1>2, <2>1 DEF ReadHeader, Over, TypeOK, pull, server, Working, Finished
<1>3. CASE NoAnswer
  <2>1. request' \in Requests /\ client' \in Working \cup Finished
    BY <1>3, RetryType DEF NoAnswer, TypeOK, Finished
  <2>2. faults' \in Nat
    BY <1>3 DEF NoAnswer, Fault, TypeOK
  <2>3. QED
    BY <1>3, <2>1, <2>2 DEF NoAnswer, Over, TypeOK, local, server
<1>4. CASE Truncate
  BY <1>4, TruncateFacts DEF Truncate, TypeOK, pull, server, Working
<1>5. CASE EndUnheard
  <2>1. faults' \in Nat
    BY <1>5 DEF EndUnheard, Fault, TypeOK
  <2>2. QED
    BY <1>5, <2>1 DEF EndUnheard, Over, TypeOK, local, server
<1>6. CASE Receive
  <2>1. part' \in Files
    BY <1>6, ReceiveFacts DEF Files
  <2>2. QED
    BY <1>6, <2>1 DEF Receive, Over, TypeOK, server, Working
<1>7. CASE Cut
  <2>1. request' \in Requests /\ client' \in Working \cup Finished
    BY <1>7, RetryType DEF Cut
  <2>2. faults' \in Nat
    BY <1>7 DEF Cut, Fault, TypeOK
  <2>3. QED
    BY <1>7, <2>1, <2>2 DEF Cut, Over, TypeOK, local, server
<1>8. CASE RemoveTarget
  BY <1>8 DEF RemoveTarget, TypeOK, pull, server, Working, Files
<1>9. CASE RenamePart
  BY <1>9 DEF RenamePart, TypeOK, pull, server, local, Finished, Files
<1>10. QED
  BY <1>1, <1>2, <1>3, <1>4, <1>5, <1>6, <1>7, <1>8, <1>9 DEF Loop

\* The steps of the user and of the uploads.
Outside == Kill \/ Rerun \/ RemoveStored \/ RenameStored

LEMMA OutsideType ==
  ASSUME TypeOK, Outside
  PROVE  TypeOK'
<1>1. CASE Kill
  BY <1>1 DEF Kill, Over, TypeOK, local, server, Finished
<1>2. CASE Rerun
  BY <1>2, SuccessorType DEF Rerun, TypeOK, local, pull, server, Working
<1>3. CASE RemoveStored
  BY <1>3 DEF RemoveStored, Cloud!Remove, TypeOK, local, loop, pull, server
<1>4. CASE RenameStored
  BY <1>4 DEF RenameStored, Cloud!Promote, TypeOK, local, loop, pull, server
<1>5. QED
  BY <1>1, <1>2, <1>3, <1>4 DEF Outside

LEMMA CrashType ==
  ASSUME TypeOK, NEW n \in Nodes, Crash(n)
  PROVE  TypeOK'
<1>1. pc' \in [Requests -> PCs]
  BY DEF Crash, TypeOK, PCs
<1>2. node' \in [Requests -> Nodes \cup {None}]
  BY DEF Crash, TypeOK
<1>3. monitor' \in [Nodes -> Reports]
  BY ReportsType DEF Crash, TypeOK, Reports
<1>4. QED
  BY <1>1, <1>2, <1>3 DEF Crash, Fault, TypeOK, local, loop, pull, Reports

(***************************************************************************)
(* The loop and its stream.                                                *)
(***************************************************************************)
\* A handler moves the state of its own request only.
LEMMA GotoFacts ==
  ASSUME TypeOK, NEW r \in Requests, NEW label, Goto(r, label)
  PROVE  \A q \in Requests : pc'[q] = IF q = r THEN label ELSE pc[q]
BY DEF TypeOK, Goto

LEMMA HandlerLoop ==
  ASSUME TypeOK, LoopInv, NEW r \in Requests, Handler(r)
  PROVE  LoopInv'
<1>0. request \in Requests /\ UNCHANGED <<client, request, offset, received, part>>
  BY DEF Handler, Check, Header, Open, Send, Complete, Abort, local, loop, pull, TypeOK
<1>1. CASE Check(r)
  BY <1>0, <1>1, GotoFacts DEF Check, pull, LoopInv, SizeOf, Answered, Running, Closed
<1>2. CASE Header(r)
  <2>1. \A q \in Requests : pc'[q] = IF q = r THEN "opening" ELSE pc[q]
    BY <1>2, GotoFacts DEF Header
  <2>2. CASE client \in Conn /\ r = request
    BY <1>0, <1>2, <2>1, <2>2 DEF Header, LoopInv, SizeOf, Answered, Running, Closed, Conn
  <2>3. CASE ~(client \in Conn /\ r = request)
    BY <1>0, <1>2, <2>1, <2>3
       DEF Header, Connected, LoopInv, SizeOf, Answered, Running, Closed, Conn
  <2>4. QED
    BY <2>2, <2>3
<1>3. CASE Open(r)
  <2>1. CASE client \in Conn /\ r = request
    BY <1>0, <1>3, <2>1, GotoFacts, NoneFacts
       DEF Open, Connected, LoopInv, SizeOf, Answered, Running, Closed, Conn, TypeOK
  <2>2. CASE ~(client \in Conn /\ r = request)
    BY <1>0, <1>3, <2>2, GotoFacts
       DEF Open, Connected, LoopInv, SizeOf, Answered, Running, Closed, Conn
  <2>3. QED
    BY <2>1, <2>2
<1>4. CASE Send(r)
  BY <1>0, <1>4 DEF Send, Connected, server, LoopInv, SizeOf, Conn
<1>5. CASE Complete(r)
  BY <1>0, <1>5, GotoFacts DEF Complete, pull, LoopInv, SizeOf, Answered, Running, Closed
<1>6. CASE Abort(r)
  BY <1>0, <1>6, GotoFacts
     DEF Abort, pull, Connected, LoopInv, SizeOf, Answered, Running, Closed, Conn
<1>7. QED
  BY <1>1, <1>2, <1>3, <1>4, <1>5, <1>6 DEF Handler

LEMMA LoopLoop ==
  ASSUME TypeOK, LoopInv, Loop
  PROVE  LoopInv'
<1> USE DEF LoopInv, Conn, Over
<1>1. CASE Ask
  <2>1. pc'[request] = "arrived" /\ request' = request
    BY <1>1, GotoFacts DEF Ask, TypeOK
  <2>2. QED
    BY <1>1, <2>1 DEF Ask, local, SizeOf
<1>2. CASE ReadHeader
  <2>1. CASE client' \in {"refused", "removing"}
    BY <1>2, <2>1 DEF ReadHeader
  <2>2. CASE client' \in {"truncating", "receiving"}
    <3>1. /\ client = "waiting" /\ pc[request] \in Answered /\ ~NothingLeft
          /\ UNCHANGED <<stored, target, request, pull, server, faults, touched>>
          /\ \/ offset > 0 /\ client' = "truncating" /\ part' = part
             \/ offset = 0 /\ client' = "receiving" /\ part' = <<>>
      BY <1>2, <2>2 DEF ReadHeader, Answered
    <3>2. offset < total /\ offset \in Nat /\ total \in Nat
      BY <3>1 DEF NothingLeft, TypeOK
    <3>3. offset > 0 => part # None
      BY <3>1 DEF SizeOf
    <3>4. QED
      BY <3>1, <3>2, <3>3, NoneFacts DEF pull, server, SizeOf
  <2>3. QED
    BY <1>2, <2>1, <2>2 DEF ReadHeader
<1>3. CASE NoAnswer \/ Cut
  BY <1>3 DEF NoAnswer, Cut, Retry
<1>4. CASE Truncate
  BY <1>4, TruncateFacts, PartType DEF Truncate, pull, server, SizeOf, TypeOK
<1>5. CASE EndUnheard \/ RemoveTarget \/ RenamePart
  BY <1>5 DEF EndUnheard, RemoveTarget, RenamePart, pull
<1>6. CASE Receive
  <2>1. CASE client' = "removing"
    BY <1>6, <2>1 DEF Receive
  <2>2. CASE client' # "removing"
    <3>1. /\ ~(received + 1 >= total - offset) /\ received' = received + 1
          /\ UNCHANGED <<client, request, pc, offset, total, fd, pos>>
      BY <1>6, <2>2 DEF Receive, AllReceived, server
    <3>2. /\ part' # None /\ Len(part') = Len(part) + 1 /\ Len(part) \in Nat
          /\ Len(part) = offset + received
      BY <1>6, ReceiveFacts, NoneFacts DEF Receive
    <3>3. offset \in Nat /\ received \in Nat /\ total \in Nat
      BY DEF TypeOK
    <3>4. client' = "receiving" =>
            part' # None /\ Len(part') = offset' + received' /\ Len(part') < total'
      BY <3>1, <3>2, <3>3
    <3>5. QED
      BY <1>6, <3>1, <3>4 DEF Receive
  <2>3. QED
    BY <2>1, <2>2
<1>7. QED
  BY <1>1, <1>2, <1>3, <1>4, <1>5, <1>6 DEF Loop

LEMMA OutsideLoop ==
  ASSUME TypeOK, LoopInv, Outside
  PROVE  LoopInv'
BY DEF Outside, Kill, Rerun, RemoveStored, RenameStored, local, loop, pull, server,
       Over, Working, Finished, LoopInv, Conn, SizeOf

LEMMA CrashLoop ==
  ASSUME TypeOK, LoopInv, NEW n \in Nodes, Crash(n)
  PROVE  LoopInv'
<1>1. /\ request \in Requests
      /\ UNCHANGED <<client, request, part, offset, received, total, fd, pos>>
  BY DEF Crash, local, loop, pull, TypeOK
<1>2. \/ pc'[request] = pc[request]
      \/ pc[request] \in {"arrived", "found"} /\ pc'[request] = "unanswered"
      \/ pc[request] \in Running /\ pc'[request] = "gone"
  BY <1>1 DEF Crash
<1>3. QED
  BY <1>1, <1>2 DEF LoopInv, Conn, SizeOf, Answered, Running, Closed

LEMMA TypeAndLoopStep == TypeOK /\ LoopInv /\ [Next]_vars => TypeOK' /\ LoopInv'
<1> SUFFICES ASSUME TypeOK, LoopInv, [Next]_vars PROVE TypeOK' /\ LoopInv'
  OBVIOUS
<1>1. CASE UNCHANGED vars
  BY <1>1 DEF vars, local, loop, pull, server, TypeOK, LoopInv, SizeOf
<1>2. CASE Next
  BY <1>2, HandlerType, HandlerLoop, LoopType, LoopLoop, OutsideType, OutsideLoop,
     CrashType, CrashLoop DEF Next, Outside
<1>3. QED
  BY <1>1, <1>2

LEMMA TypeAndLoop == Spec => [](TypeOK /\ LoopInv)
<1>1. Init => LoopInv
  BY DEF Init, LoopInv, Conn
<1>2. QED
  BY <1>1, InitType, TypeAndLoopStep, PTL DEF Spec

\* Every variable keeps its shape: an attempt never goes beyond the limit, and
\* no chunk is taken from a stream that is not open.
THEOREM TypeCorrect == Spec => []TypeOK
BY TypeAndLoop, PTL

(***************************************************************************)
(* The .part file is a resume point.                                       *)
(***************************************************************************)
LEMMA ExactStep ==
  ASSUME TypeOK, LoopInv, PartIsExact, [Next]_vars
  PROVE  PartIsExact'
<1>1. CASE UNCHANGED part
  BY <1>1 DEF PartIsExact
<1>2. CASE Receive
  <2>1. part \in Seq(Chunks) /\ part # None
    BY <1>2 DEF LoopInv, Receive, TypeOK, Files, Chunks
  <2>2. ASSUME NEW i \in 1 .. Len(part') PROVE part'[i] \in Versions \X {i}
    <3>1. part'[i] = IF i = Len(part) + 1 THEN <<fd, i>> ELSE part[i]
      BY <1>2, ReceiveFacts
    <3>2. Len(part') = Len(part) + 1 /\ Len(part) \in Nat
      BY <1>2, ReceiveFacts
    <3>3. i = Len(part) + 1 \/ i \in 1 .. Len(part)
      BY <3>2
    <3>4. fd \in Versions
      BY <1>2, ReceiveFacts
    <3>5. QED
      BY <2>1, <3>1, <3>3, <3>4 DEF PartIsExact
  <2>3. QED
    BY <2>2 DEF PartIsExact
<1>3. CASE ReadHeader \/ Truncate \/ RenamePart
  BY <1>3, TruncateFacts DEF ReadHeader, RenamePart, local, PartIsExact
<1>4. QED
  BY <1>1, <1>2, <1>3
     DEF Next, vars, local, loop, pull, server, Handler, Check, Header, Open, Send,
         Complete, Abort, Loop, Ask, NoAnswer, EndUnheard, Cut, RemoveTarget, Kill,
         Rerun, RemoveStored, RenameStored, Crash

\* For versions of any size, the size of the .part file is where the next
\* attempt may go on, after any drops, kills, crashes and replacements: the
\* offset that was asked for, the place where the read stream starts and the
\* place where the write stream starts fit each other, and leave no hole.
THEOREM ResumePointIsExact == Spec => []PartIsExact
<1>1. Init => PartIsExact
  BY DEF Init, PartIsExact
<1>2. QED
  BY <1>1, ExactStep, TypeAndLoop, PTL DEF Spec

(***************************************************************************)
(* What gets the real name.                                                *)
(***************************************************************************)
PrefixOf(v) ==
  Len(part) <= Size[v] /\ \A i \in 1 .. Len(part) : part[i] = <<v, i>>

HasChunks == part # None /\ Len(part) > 0

\* Unless the file was touched: the .part file is the head of one version, and
\* that is the stored one or the one that the stream is open on; the size in
\* the header is that version's.
WholeInv ==
  ~touched =>
    /\ part # None => \E v \in Versions : PrefixOf(v)
    /\ client \in Conn =>
         /\ pc[request] # "threw"
         /\ fd = None /\ HasChunks => part[1][1] = stored
         /\ pc[request] = "found" => stored # None
         /\ fd = None /\ pc[request] \in {"opening", "gone"} =>
              stored # None /\ total = Size[stored]
         /\ fd # None => total = Size[fd] /\ (HasChunks => part[1][1] = fd)
    /\ client \in {"removing", "renaming"} => \E v \in Versions : part = Whole(v)

LEMMA PrefixVersion ==
  ASSUME TypeOK, HasChunks, NEW v \in Versions, PrefixOf(v)
  PROVE  part[1][1] = v
BY PartType DEF HasChunks, PrefixOf

LEMMA PrefixIsWhole ==
  ASSUME TypeOK, part # None, NEW v \in Versions, PrefixOf(v), Len(part) >= Size[v]
  PROVE  part = Whole(v)
<1>1. part \in Seq(Chunks) /\ Len(part) = Size[v]
  BY PartType, SizeType DEF PrefixOf
<1>2. \A i \in 1 .. Len(part) : part[i] = <<v, i>>
  BY DEF PrefixOf
<1>3. part = [i \in 1 .. Len(part) |-> part[i]]
  BY <1>1
<1>4. QED
  BY <1>1, <1>2, <1>3 DEF Whole

LEMMA HandlerWhole ==
  ASSUME TypeOK, LoopInv, WholeInv, NEW r \in Requests, Handler(r)
  PROVE  WholeInv'
<1>0. /\ request \in Requests
      /\ UNCHANGED <<stored, client, request, part, touched>>
  BY DEF Handler, Check, Header, Open, Send, Complete, Abort, local, loop, pull, TypeOK
<1>1. SUFFICES ASSUME ~touched, client \in Conn
               PROVE  /\ pc'[request] # "threw"
                      /\ fd' = None /\ HasChunks => part[1][1] = stored
                      /\ pc'[request] = "found" => stored # None
                      /\ fd' = None /\ pc'[request] \in {"opening", "gone"} =>
                           stored # None /\ total' = Size[stored]
                      /\ fd' # None => total' = Size[fd'] /\ (HasChunks => part[1][1] = fd')
  BY <1>0 DEF WholeInv, HasChunks, PrefixOf
<1>2. CASE Check(r)
  BY <1>0, <1>1, <1>2, GotoFacts DEF Check, pull, WholeInv
<1>3. CASE Header(r)
  <2>1. \A q \in Requests : pc'[q] = IF q = r THEN "opening" ELSE pc[q]
    BY <1>3, GotoFacts DEF Header
  <2>2. CASE r = request
    <3>1. Connected(r) /\ stored # None /\ fd = None /\ fd' = fd
      BY <1>1, <1>3, <2>2 DEF Header, Connected, Conn, WholeInv, LoopInv
    <3>2. total' = Size[stored]
      BY <1>3, <3>1 DEF Header, StoredSize
    <3>3. QED
      BY <1>0, <1>1, <2>1, <2>2, <3>1, <3>2 DEF WholeInv
  <2>3. CASE r # request
    BY <1>0, <1>1, <1>3, <2>1, <2>3 DEF Header, Connected, WholeInv
  <2>4. QED
    BY <2>2, <2>3
<1>4. CASE Open(r)
  <2>1. CASE r = request
    <3>1. Connected(r) /\ fd = None /\ stored # None /\ total = Size[stored]
      BY <1>1, <1>4, <2>1 DEF Open, Connected, Conn, WholeInv, LoopInv
    <3>2. fd' = stored /\ total' = total /\ pc'[request] = "sending"
      BY <1>0, <1>4, <2>1, <3>1, GotoFacts DEF Open
    <3>3. QED
      BY <1>1, <3>1, <3>2 DEF WholeInv
  <2>2. CASE r # request
    BY <1>0, <1>1, <1>4, <2>2, GotoFacts DEF Open, Connected, WholeInv
  <2>3. QED
    BY <2>1, <2>2
<1>5. CASE Send(r)
  BY <1>0, <1>1, <1>5 DEF Send, server, WholeInv
<1>6. CASE Complete(r) \/ Abort(r)
  BY <1>0, <1>1, <1>6, GotoFacts DEF Complete, Abort, pull, WholeInv
<1>7. QED
  BY <1>2, <1>3, <1>4, <1>5, <1>6 DEF Handler

LEMMA AskWhole ==
  ASSUME TypeOK, LoopInv, WholeInv, Ask
  PROVE  WholeInv'
<1>1. /\ UNCHANGED <<stored, part, request>> /\ client' = "waiting" /\ fd' = None
      /\ request \in Requests /\ pc'[request] = "arrived"
  BY GotoFacts DEF Ask, local, LoopInv, Conn, TypeOK
<1>2. ASSUME ~touched', part # None PROVE \E v \in Versions : PrefixOf(v)
  <2>1. CASE SizeOf(part) > 0
    BY <1>2, <2>1 DEF Ask, WholeInv
  <2>2. CASE ~(SizeOf(part) > 0)
    <3>1. Len(part) = 0
      BY <1>2, <2>2, PartType
    <3>2. \A v \in Versions : PrefixOf(v)
      BY <3>1, SizeType DEF PrefixOf
    <3>3. QED
      BY <3>2, VersionsAssumption
  <2>3. QED
    BY <2>1, <2>2
<1>3. ASSUME ~touched', HasChunks PROVE part[1][1] = stored
  <2>1. SizeOf(part) > 0
    BY <1>3 DEF HasChunks, SizeOf
  <2>2. QED
    BY <1>3, <2>1 DEF Ask
<1>4. QED
  BY <1>1, <1>2, <1>3 DEF WholeInv, HasChunks, PrefixOf

LEMMA ReadHeaderWhole ==
  ASSUME TypeOK, LoopInv, WholeInv, ReadHeader
  PROVE  WholeInv'
<1> SUFFICES ASSUME ~touched PROVE WholeInv'
  BY DEF ReadHeader, WholeInv
<1>1. /\ client = "waiting" /\ request \in Requests /\ offset = SizeOf(part)
      /\ UNCHANGED <<stored, request, pc, touched>>
      /\ client' \in {"truncating", "receiving"} => UNCHANGED <<fd, total>>
  BY DEF ReadHeader, pull, server, LoopInv, TypeOK
<1>2. CASE client' = "refused"
  BY <1>1, <1>2 DEF ReadHeader, WholeInv, Conn, PrefixOf, Answered
<1>3. CASE client' = "removing"
  <2>1. pc[request] \in Answered /\ NothingLeft /\ part' = part
    BY <1>3 DEF ReadHeader, Answered
  <2>2. \E v \in Versions : total = Size[v] /\ (HasChunks => part[1][1] = v)
    <3>1. CASE fd # None
      BY <1>1, <3>1 DEF WholeInv, Conn, TypeOK
    <3>2. CASE fd = None
      <4>1. pc[request] \in {"opening", "gone"}
        BY <1>1, <2>1, <3>2 DEF WholeInv, LoopInv, Conn, Answered, Running, Closed
      <4>2. QED
        BY <1>1, <3>2, <4>1 DEF WholeInv, Conn, TypeOK
    <3>3. QED
      BY <3>1, <3>2
  <2>3. PICK v \in Versions : total = Size[v] /\ (HasChunks => part[1][1] = v)
    BY <2>2
  <2>4. part # None /\ HasChunks /\ Len(part) >= Size[v]
    BY <1>1, <2>1, <2>3, SizeType, PartType DEF NothingLeft, SizeOf, HasChunks, TypeOK
  <2>5. PrefixOf(v)
    BY <2>3, <2>4, PrefixVersion DEF WholeInv
  <2>6. part = Whole(v)
    BY <2>4, <2>5, PrefixIsWhole
  <2>7. QED
    BY <1>1, <1>3, <2>1, <2>6 DEF WholeInv, Conn, PrefixOf, HasChunks
<1>4. CASE client' \in {"truncating", "receiving"} /\ part' = part
  BY <1>1, <1>4 DEF WholeInv, Conn, PrefixOf, HasChunks
<1>5. CASE client' = "receiving" /\ part' = <<>>
  <2>1. Len(part') = 0
    BY <1>5
  <2>2. \E v \in Versions : 0 <= Size[v]
    BY SizeType, VersionsAssumption
  <2>3. \E v \in Versions : PrefixOf(v)'
    BY <1>5, <2>1, <2>2 DEF PrefixOf
  <2>4. ~HasChunks'
    BY <2>1 DEF HasChunks
  <2>5. QED
    BY <1>1, <1>5, <2>3, <2>4 DEF WholeInv, Conn
<1>6. QED
  BY <1>2, <1>3, <1>4, <1>5 DEF ReadHeader

LEMMA ReceiveWhole ==
  ASSUME TypeOK, LoopInv, WholeInv, Receive
  PROVE  WholeInv'
<1> SUFFICES ASSUME ~touched PROVE WholeInv'
  BY DEF Receive, WholeInv
<1>1. /\ client = "receiving" /\ request \in Requests
      /\ UNCHANGED <<stored, request, pc, touched>>
      /\ \/ client' = "removing" /\ received + 1 >= total - offset
         \/ client' = "receiving" /\ UNCHANGED <<fd, total>>
  BY DEF Receive, AllReceived, server, TypeOK
<1>2. /\ fd \in Versions /\ fd # None /\ part # None /\ part \in Seq(Chunks)
      /\ Len(part) \in Nat /\ Len(part') = Len(part) + 1
      /\ total = Size[fd] /\ Len(part) < Size[fd] /\ Size[fd] \in Nat
      /\ HasChunks => part[1][1] = fd
  BY <1>1, ReceiveFacts, NoneFacts, SizeType DEF WholeInv, LoopInv, Conn
<1>3. \A i \in 1 .. Len(part) : part[i] = <<fd, i>>
  <2>1. CASE HasChunks
    BY <1>2, <2>1, PrefixVersion DEF WholeInv, PrefixOf
  <2>2. CASE ~HasChunks
    BY <1>2, <2>2 DEF HasChunks
  <2>3. QED
    BY <2>1, <2>2
<1>4. ASSUME NEW i \in 1 .. Len(part') PROVE part'[i] = <<fd, i>>
  <2>1. i = Len(part) + 1 \/ i \in 1 .. Len(part)
    BY <1>2
  <2>2. part'[i] = IF i = Len(part) + 1 THEN <<fd, i>> ELSE part[i]
    BY ReceiveFacts
  <2>3. QED
    BY <1>3, <2>1, <2>2
<1>5. ASSUME NEW v \in Versions, v = fd PROVE PrefixOf(v)'
  BY <1>2, <1>4, <1>5 DEF PrefixOf
<1>6. part'[1][1] = fd
  <2>1. 1 \in 1 .. Len(part')
    BY <1>2
  <2>2. QED
    BY <1>4, <2>1
<1>7. client' = "removing" => part' = Whole(fd)
  <2>1. SUFFICES ASSUME client' = "removing" PROVE part' = Whole(fd)
    OBVIOUS
  <2>2. Len(part') = Size[fd]
    <3>1. /\ received + 1 >= total - offset /\ Len(part) = offset + received
          /\ received \in Nat /\ offset \in Nat
      BY <1>1, <2>1 DEF LoopInv, TypeOK
    <3>2. QED
      BY <1>2, <3>1
  <2>3. part' \in Seq(Chunks)
    BY ReceiveFacts
  <2>4. part' = [i \in 1 .. Len(part') |-> part'[i]]
    BY <2>3
  <2>5. QED
    BY <1>4, <2>2, <2>4 DEF Whole
<1>8. QED
  BY <1>1, <1>2, <1>5, <1>6, <1>7 DEF WholeInv, Conn, PrefixOf

LEMMA LoopWhole ==
  ASSUME TypeOK, LoopInv, WholeInv, Loop
  PROVE  WholeInv'
<1>1. CASE Ask \/ ReadHeader \/ Receive
  BY <1>1, AskWhole, ReadHeaderWhole, ReceiveWhole
<1>2. CASE NoAnswer \/ Cut \/ EndUnheard
  <2>1. client' \notin Conn \cup {"removing", "renaming"} /\ UNCHANGED <<part, touched>>
    BY <1>2 DEF NoAnswer, Cut, EndUnheard, Retry, local, Conn
  <2>2. QED
    BY <2>1 DEF WholeInv, PrefixOf
<1>3. CASE Truncate
  <2>1. /\ part' = part /\ client = "truncating" /\ client' = "receiving"
        /\ UNCHANGED <<stored, request, pc, fd, total, touched>>
    BY <1>3, TruncateFacts DEF Truncate, pull, server
  <2>2. QED
    BY <2>1 DEF WholeInv, Conn, PrefixOf, HasChunks
<1>4. CASE RemoveTarget
  BY <1>4 DEF RemoveTarget, WholeInv, Conn, PrefixOf
<1>5. CASE RenamePart
  <2>1. client' \notin Conn \cup {"removing", "renaming"} /\ touched' = touched
        /\ part' = None
    BY <1>5 DEF RenamePart, Conn, local
  <2>2. QED
    BY <2>1 DEF WholeInv
<1>6. QED
  BY <1>1, <1>2, <1>3, <1>4, <1>5 DEF Loop

LEMMA OutsideWhole ==
  ASSUME TypeOK, LoopInv, WholeInv, Outside
  PROVE  WholeInv'
<1>1. CASE Kill \/ Rerun
  <2>1. client' \notin Conn \cup {"removing", "renaming"} /\ UNCHANGED <<part, touched>>
    BY <1>1 DEF Kill, Rerun, local, Conn
  <2>2. QED
    BY <2>1 DEF WholeInv, PrefixOf
<1>2. CASE RemoveStored
  <2>1. UNCHANGED <<part, client, request, pc, fd, total>>
    BY <1>2 DEF RemoveStored, local, loop, pull, server
  <2>2. ~touched' => ~touched /\ ~Matters
    BY <1>2 DEF RemoveStored
  <2>3. ~Matters /\ client \in Conn =>
          client = "receiving" /\ fd # None /\ pc[request] # "found"
    BY DEF Matters, Connected, LoopInv, Conn
  <2>4. QED
    BY <2>1, <2>2, <2>3 DEF WholeInv, Conn, PrefixOf, HasChunks
<1>3. CASE RenameStored
  <2>1. stored = None /\ UNCHANGED <<part, client, request, pc, fd, total, touched>>
    BY <1>3 DEF RenameStored, Cloud!Promote, local, loop, pull, server
  <2>2. ASSUME ~touched, client \in Conn, fd = None
        PROVE  ~HasChunks /\ pc[request] \notin {"found", "opening", "gone"}
    <3>1. HasChunks => part[1][1] \in Versions
      BY <2>2, PrefixVersion DEF HasChunks, WholeInv
    <3>2. QED
      BY <2>1, <2>2, <3>1, NoneFacts DEF WholeInv
  <2>3. client \in Conn /\ pc[request] = "found" => fd = None
    BY DEF LoopInv
  <2>4. QED
    BY <2>1, <2>2, <2>3 DEF WholeInv, PrefixOf, HasChunks
<1>4. QED
  BY <1>1, <1>2, <1>3 DEF Outside

LEMMA CrashWhole ==
  ASSUME TypeOK, LoopInv, WholeInv, NEW n \in Nodes, Crash(n)
  PROVE  WholeInv'
<1>1. /\ request \in Requests
      /\ UNCHANGED <<stored, client, request, part, total, fd, touched>>
  BY DEF Crash, local, loop, pull, TypeOK
<1>2. \/ pc'[request] = pc[request]
      \/ pc'[request] = "unanswered"
      \/ pc[request] \in Running /\ pc'[request] = "gone"
  BY <1>1 DEF Crash
<1>3. client \in Conn /\ fd = None /\ pc[request] \in Running => pc[request] = "opening"
  BY DEF LoopInv, Running
<1>4. QED
  BY <1>1, <1>2, <1>3 DEF WholeInv, PrefixOf, HasChunks

LEMMA WholeStep == TypeOK /\ LoopInv /\ WholeInv /\ [Next]_vars => WholeInv'
<1> SUFFICES ASSUME TypeOK, LoopInv, WholeInv, [Next]_vars PROVE WholeInv'
  OBVIOUS
<1>1. CASE UNCHANGED vars
  BY <1>1 DEF vars, local, loop, pull, server, WholeInv, PrefixOf, HasChunks
<1>2. CASE Next
  BY <1>2, HandlerWhole, LoopWhole, OutsideWhole, CrashWhole DEF Next, Outside
<1>3. QED
  BY <1>1, <1>2

\* For versions of any size, any number of nodes, attempts, runs and faults:
\* a half-downloaded file does not get the real name, unless the stored file
\* was replaced between two attempts or before the stream was open.
THEOREM RenamedFileIsWhole == Spec => []RenamedIsWhole
<1>1. Init => WholeInv
  BY NoneFacts DEF Init, WholeInv, Conn
<1>2. WholeInv => RenamedIsWhole
  BY DEF WholeInv, RenamedIsWhole
<1>3. QED
  BY <1>1, <1>2, WholeStep, TypeAndLoop, PTL DEF Spec

(***************************************************************************)
(* What the monitor counted.                                               *)
(***************************************************************************)
Later(r) == r[1] > request[1] \/ (r[1] = request[1] /\ r[2] > request[2])

\* A request is started once, and one that is served has a process.
FreshInv ==
  /\ \A r \in Requests : Later(r) => pc[r] = "idle"
  /\ client = "asking" => pc[request] = "idle"
  /\ \A r \in Requests : pc[r] \in {"arrived", "found"} \cup Running => node[r] \in Nodes

LEMMA FreshStep ==
  ASSUME TypeOK, FreshInv, [Next]_vars
  PROVE  FreshInv'
<1>0. request \in Requests
  BY DEF TypeOK
<1>1. ASSUME NEW r \in Requests, Handler(r) PROVE FreshInv'
  <2>1. PICK label : /\ Goto(r, label) \/ (pc' = pc /\ label = pc[r])
                     /\ label \in {"found"} \cup Running => pc[r] \in {"arrived", "found"} \cup Running
    BY <1>1 DEF Handler, Check, Header, Open, Send, Complete, Abort, server, Running
  <2>2. pc[r] # "idle" /\ client' = client /\ request' = request /\ node' = node
    BY <1>1 DEF Handler, Check, Header, Open, Send, Complete, Abort, loop, server
  <2>3. label # "arrived"
    BY <1>1, <2>1 DEF Handler, Check, Header, Open, Send, Complete, Abort, server, Goto, TypeOK
  <2>4. QED
    BY <1>0, <2>1, <2>2, <2>3, GotoFacts DEF FreshInv, Later
<1>2. CASE Ask
  <2>1. PICK n \in Nodes : node' = [node EXCEPT ![request] = n]
    BY <1>2 DEF Ask
  <2>2. \A q \in Requests : pc'[q] = IF q = request THEN "arrived" ELSE pc[q]
    BY <1>0, <1>2, GotoFacts DEF Ask
  <2>3. \A q \in Requests : node'[q] = IF q = request THEN n ELSE node[q]
    BY <2>1 DEF TypeOK
  <2>4. client' = "waiting" /\ request' = request /\ ~Later(request)
    BY <1>0, <1>2, IndexType DEF Ask, Later
  <2>5. QED
    BY <1>0, <2>2, <2>3, <2>4 DEF FreshInv, Later
<1>3. CASE NoAnswer \/ Cut
  <2>1. /\ pc' = pc /\ node' = node
        /\ \/ client' = "asking" /\ request' = <<request[1], request[2] + 1>>
              /\ request[2] < MaxAttempts
           \/ client' # "asking" /\ request' = request
    BY <1>3 DEF NoAnswer, Cut, Retry, server
  <2>2. CASE request' = request /\ client' # "asking"
    BY <2>1, <2>2 DEF FreshInv, Later
  <2>3. CASE request' = <<request[1], request[2] + 1>> /\ request[2] < MaxAttempts
    <3>1. request' \in Requests /\ request'[1] = request[1] /\ request'[2] = request[2] + 1
          /\ request[1] \in Nat /\ request[2] \in Nat
      BY <1>0, <2>3, SuccessorType, IndexType
    <3>2. Later(request')
      BY <3>1 DEF Later
    <3>3. \A r \in Requests : Later(r)' => Later(r)
      <4>1. TAKE r \in Requests
      <4>2. r[1] \in Nat /\ r[2] \in Nat
        BY IndexType
      <4>3. QED
        BY <3>1, <4>2 DEF Later
    <3>4. QED
      BY <2>1, <3>1, <3>2, <3>3 DEF FreshInv
  <2>4. QED
    BY <2>1, <2>2, <2>3
<1>4. CASE Rerun
  <2>1. /\ request' = <<request[1] + 1, 1>> /\ request[1] < MaxRuns
        /\ pc' = pc /\ node' = node
    BY <1>4 DEF Rerun, server
  <2>2. request' \in Requests /\ request'[1] = request[1] + 1
        /\ request[1] \in Nat /\ request[2] \in Nat
    BY <1>0, <2>1, SuccessorType, IndexType
  <2>3. Later(request')
    BY <2>2 DEF Later
  <2>4. \A r \in Requests : Later(r)' => Later(r)
    <3>1. TAKE r \in Requests
    <3>2. r[1] \in Nat /\ r[2] \in Nat
      BY IndexType
    <3>3. QED
      BY <2>2, <3>2 DEF Later
  <2>5. QED
    BY <2>1, <2>2, <2>3, <2>4 DEF FreshInv
<1>5. CASE \/ ReadHeader \/ Truncate \/ EndUnheard \/ Receive \/ RemoveTarget
          \/ RenamePart \/ Kill \/ RemoveStored \/ RenameStored \/ UNCHANGED vars
  <2>1. /\ pc' = pc /\ node' = node /\ request' = request
        /\ client' = client \/ client' # "asking"
    BY <1>5 DEF ReadHeader, Truncate, EndUnheard, Receive, RemoveTarget, RenamePart,
                Kill, RemoveStored, RenameStored, vars, loop, server
  <2>2. QED
    BY <2>1 DEF FreshInv, Later
<1>6. ASSUME NEW n \in Nodes, Crash(n) PROVE FreshInv'
  <2>1. ASSUME NEW r \in Requests
        PROVE  /\ pc[r] = "idle" => pc'[r] = "idle"
               /\ pc'[r] \in {"arrived", "found"} \cup Running =>
                    pc'[r] = pc[r] /\ node'[r] = node[r]
    BY <1>6 DEF Crash, Running
  <2>2. client' = client /\ request' = request
    BY <1>6 DEF Crash, loop
  <2>3. QED
    BY <1>0, <2>1, <2>2 DEF FreshInv, Later
<1>7. QED
  BY <1>1, <1>2, <1>3, <1>4, <1>5, <1>6 DEF Next, Loop

LEMMA Fresh == Spec => [](TypeOK /\ LoopInv /\ FreshInv)
<1>1. Init => FreshInv
  <2>1. Init => request \in Requests
    BY BoundsAssumption DEF Init, Requests
  <2>2. QED
    BY <2>1 DEF Init, FreshInv, Running
<1>2. QED
  BY <1>1, FreshStep, TypeAndLoop, PTL DEF Spec

Unended(n) == Serving(n, Running \cup {"threw"})

LEMMA UnendedFinite ==
  ASSUME NEW n PROVE IsFiniteSet(Unended(n)) /\ Cardinality(Unended(n)) \in Nat
<1>1. IsFiniteSet(Requests)
  <2>1. 1 \in Int /\ MaxRuns \in Int /\ MaxAttempts \in Int
    BY BoundsAssumption
  <2>2. IsFiniteSet(1 .. MaxRuns) /\ IsFiniteSet(1 .. MaxAttempts)
    BY <2>1, FS_Interval
  <2>3. QED
    BY <2>2, FS_Product DEF Requests
<1>2. Unended(n) \subseteq Requests
  BY DEF Unended, Serving
<1>3. QED
  BY <1>1, <1>2, FS_Subset, FS_CardinalityType

LEMMA CountersByUnended ==
  CountersAddUp <=>
    \A n \in Nodes : monitor[n].started = monitor[n].completed + monitor[n].aborted
                                            + Cardinality(Unended(n))
BY DEF CountersAddUp, Unended

\* A step that publishes nothing.
Silent ==
  /\ monitor' = monitor /\ node' = node
  /\ \A r \in Requests :
       \/ pc'[r] = pc[r]
       \/ pc[r] \in Running /\ pc'[r] \in Running \cup {"threw"}
       \/ pc[r] \notin Running \cup Closed /\ pc'[r] \notin Running \cup Closed

LEMMA SameUnended ==
  ASSUME CountersAddUp, LiveListExplained, Silent
  PROVE  CountersAddUp' /\ LiveListExplained'
<1>1. \A n \in Nodes : Serving(n, Running \cup {"threw"})' = Serving(n, Running \cup {"threw"})
  BY DEF Silent, Serving, Running, Closed
<1>2. CountersAddUp'
  BY <1>1 DEF CountersAddUp, Silent
<1>3. ASSUME NEW n \in Nodes
      PROVE  /\ Serving(n, Running)' \subseteq Serving(n, Running)
             /\ Serving(n, {"completed", "aborted"}) \subseteq Serving(n, {"completed", "aborted"})'
  BY DEF Silent, Serving, Running, Closed
<1>4. LiveListExplained'
  BY <1>1, <1>3 DEF LiveListExplained, Silent
<1>5. QED
  BY <1>2, <1>4

LEMMA StartedStep ==
  ASSUME TypeOK, FreshInv, CountersAddUp, LiveListExplained, NEW r \in Requests, Header(r)
  PROVE  CountersAddUp' /\ LiveListExplained'
<1>1. /\ node[r] \in Nodes /\ node' = node /\ pc[r] = "found"
      /\ \A q \in Requests : pc'[q] = IF q = r THEN "opening" ELSE pc[q]
  BY GotoFacts DEF Header, FreshInv
<1>2. ASSUME NEW n \in Nodes
      PROVE  monitor'[n] = IF n = node[r] THEN OnStarted(monitor[n]) ELSE monitor[n]
  BY <1>1 DEF Header, TypeOK
<1>3. ASSUME NEW n \in Nodes, n = node[r]
      PROVE  Unended(n)' = Unended(n) \cup {r} /\ r \notin Unended(n)
  BY <1>1, <1>3 DEF Unended, Serving, Running
<1>4. ASSUME NEW n \in Nodes, n # node[r] PROVE Unended(n)' = Unended(n)
  BY <1>1, <1>4 DEF Unended, Serving
<1>5. ASSUME NEW n \in Nodes, n = node[r]
      PROVE  Cardinality(Unended(n)') = Cardinality(Unended(n)) + 1
  BY <1>3, <1>5, UnendedFinite, FS_AddElement
<1>6. ASSUME NEW n \in Nodes
      PROVE  monitor'[n].started = monitor'[n].completed + monitor'[n].aborted
                                     + Cardinality(Unended(n)')
  <2>0. /\ monitor[n].started = monitor[n].completed + monitor[n].aborted
                                   + Cardinality(Unended(n))
        /\ monitor[n] \in Reports /\ Cardinality(Unended(n)) \in Nat
    BY CountersByUnended, UnendedFinite DEF TypeOK, Reports
  <2>1. CASE n = node[r]
    <3>1. /\ monitor'[n].started = monitor[n].started + 1
          /\ monitor'[n].completed = monitor[n].completed
          /\ monitor'[n].aborted = monitor[n].aborted
      BY <1>2, <2>0, <2>1 DEF OnStarted, Reports
    <3>2. Cardinality(Unended(n)') = Cardinality(Unended(n)) + 1
      BY <1>5, <2>1
    <3>3. monitor[n].started \in Nat /\ monitor[n].completed \in Nat /\ monitor[n].aborted \in Nat
      BY <2>0 DEF Reports
    <3>4. QED
      BY <2>0, <3>1, <3>2, <3>3
  <2>2. CASE n # node[r]
    BY <1>2, <1>4, <2>0, <2>2
  <2>3. QED
    BY <2>1, <2>2
<1>7. CountersAddUp'
  BY <1>6 DEF CountersAddUp, Unended
<1>8. ASSUME NEW n \in Nodes
      PROVE  /\ monitor'[n].live => Unended(n)' # {}
             /\ (~monitor'[n].live /\ Serving(n, Running)' # {}) =>
                  Serving(n, {"completed", "aborted"})' # {}
  <2>1. CASE n = node[r]
    <3>1. monitor'[n].live = TRUE
      BY <1>2, <2>1 DEF OnStarted, TypeOK
    <3>2. QED
      BY <1>3, <2>1, <3>1
  <2>2. CASE n # node[r]
    BY <1>1, <1>2, <1>4, <2>2 DEF LiveListExplained, Serving, Unended
  <2>3. QED
    BY <2>1, <2>2
<1>9. LiveListExplained'
  BY <1>8 DEF LiveListExplained, Unended
<1>10. QED
  BY <1>7, <1>9

LEMMA EndedStep ==
  ASSUME TypeOK, FreshInv, CountersAddUp, LiveListExplained,
         NEW r \in Requests, Complete(r) \/ Abort(r)
  PROVE  CountersAddUp' /\ LiveListExplained'
<1>1. PICK label \in {"completed", "aborted"} :
        /\ \A q \in Requests : pc'[q] = IF q = r THEN label ELSE pc[q]
        /\ monitor' = [monitor EXCEPT ![node[r]] = IF label = "completed"
                                         THEN OnCompleted(@) ELSE OnAborted(@)]
  BY GotoFacts DEF Complete, Abort
<1>2. node[r] \in Nodes /\ node' = node /\ pc[r] = "sending"
  BY DEF Complete, Abort, FreshInv, Running
<1>3. ASSUME NEW n \in Nodes
      PROVE  monitor'[n] = IF n = node[r]
                             THEN IF label = "completed" THEN OnCompleted(monitor[n])
                                                         ELSE OnAborted(monitor[n])
                             ELSE monitor[n]
  BY <1>1, <1>2 DEF TypeOK
<1>4. ASSUME NEW n \in Nodes, n = node[r]
      PROVE  Unended(n)' = Unended(n) \ {r} /\ r \in Unended(n)
  BY <1>1, <1>2, <1>4 DEF Unended, Serving, Running
<1>5. ASSUME NEW n \in Nodes, n # node[r] PROVE Unended(n)' = Unended(n)
  BY <1>1, <1>2, <1>5 DEF Unended, Serving
<1>6. ASSUME NEW n \in Nodes, n = node[r]
      PROVE  Cardinality(Unended(n)') = Cardinality(Unended(n)) - 1
  BY <1>4, <1>6, UnendedFinite, FS_RemoveElement
<1>7. ASSUME NEW n \in Nodes
      PROVE  monitor'[n].started = monitor'[n].completed + monitor'[n].aborted
                                     + Cardinality(Unended(n)')
  <2>0. /\ monitor[n].started = monitor[n].completed + monitor[n].aborted
                                   + Cardinality(Unended(n))
        /\ monitor[n] \in Reports /\ Cardinality(Unended(n)) \in Nat
    BY CountersByUnended, UnendedFinite DEF TypeOK, Reports
  <2>1. CASE n = node[r]
    <3>1. /\ monitor'[n].started = monitor[n].started
          /\ \/ /\ monitor'[n].completed = monitor[n].completed + 1
                /\ monitor'[n].aborted = monitor[n].aborted
             \/ /\ monitor'[n].completed = monitor[n].completed
                /\ monitor'[n].aborted = monitor[n].aborted + 1
      BY <1>3, <2>0, <2>1 DEF OnCompleted, OnAborted, Reports
    <3>2. Cardinality(Unended(n)') = Cardinality(Unended(n)) - 1
      BY <1>6, <2>1
    <3>3. monitor[n].started \in Nat /\ monitor[n].completed \in Nat /\ monitor[n].aborted \in Nat
      BY <2>0 DEF Reports
    <3>4. QED
      BY <2>0, <3>1, <3>2, <3>3
  <2>2. CASE n # node[r]
    BY <1>3, <1>5, <2>0, <2>2
  <2>3. QED
    BY <2>1, <2>2
<1>8. CountersAddUp'
  BY <1>7 DEF CountersAddUp, Unended
<1>9. ASSUME NEW n \in Nodes
      PROVE  /\ monitor'[n].live => Unended(n)' # {}
             /\ (~monitor'[n].live /\ Serving(n, Running)' # {}) =>
                  Serving(n, {"completed", "aborted"})' # {}
  <2>1. CASE n = node[r]
    <3>1. monitor'[n].live = FALSE
      BY <1>3, <2>1 DEF OnCompleted, OnAborted, TypeOK
    <3>2. r \in Serving(n, {"completed", "aborted"})'
      BY <1>1, <1>2, <2>1 DEF Serving
    <3>3. QED
      BY <3>1, <3>2
  <2>2. CASE n # node[r]
    BY <1>1, <1>2, <1>3, <1>5, <2>2 DEF LiveListExplained, Serving, Unended
  <2>3. QED
    BY <2>1, <2>2
<1>10. LiveListExplained'
  BY <1>9 DEF LiveListExplained, Unended
<1>11. QED
  BY <1>8, <1>10

LEMMA CrashCounted ==
  ASSUME TypeOK, CountersAddUp, LiveListExplained, NEW n \in Nodes, Crash(n)
  PROVE  CountersAddUp' /\ LiveListExplained'
<1>1. ASSUME NEW r \in Requests
      PROVE  /\ node'[r] = IF node[r] = n THEN None ELSE node[r]
             /\ node[r] # n => pc'[r] = pc[r]
  BY DEF Crash, TypeOK
<1>2. \A m \in Nodes : monitor'[m] = IF m = n THEN NoDownloads ELSE monitor[m]
  BY DEF Crash, TypeOK
<1>3. ASSUME NEW places PROVE Serving(n, places)' = {}
  BY <1>1, NoneFacts DEF Serving
<1>4. ASSUME NEW m \in Nodes, m # n, NEW places
      PROVE  Serving(m, places)' = Serving(m, places)
  BY <1>1, <1>4, NoneFacts DEF Serving
<1>5. Cardinality({}) = 0
  BY FS_EmptySet
<1>6. CountersAddUp'
  BY <1>2, <1>3, <1>4, <1>5 DEF CountersAddUp, NoDownloads
<1>7. LiveListExplained'
  BY <1>2, <1>3, <1>4 DEF LiveListExplained, NoDownloads
<1>8. QED
  BY <1>6, <1>7

LEMMA CountedStep ==
  ASSUME TypeOK, FreshInv, CountersAddUp, LiveListExplained, [Next]_vars
  PROVE  CountersAddUp' /\ LiveListExplained'
<1>1. ASSUME NEW r \in Requests, Handler(r) PROVE CountersAddUp' /\ LiveListExplained'
  <2>1. CASE Header(r)
    BY <2>1, StartedStep
  <2>2. CASE Complete(r) \/ Abort(r)
    BY <2>2, EndedStep
  <2>3. CASE Check(r) \/ Open(r) \/ Send(r)
    <3>1. monitor' = monitor /\ node' = node
      BY <2>3 DEF Check, Open, Send, server
    <3>2. ASSUME NEW q \in Requests
          PROVE  \/ pc'[q] = pc[q]
                 \/ pc[q] \in Running /\ pc'[q] \in Running \cup {"threw"}
                 \/ pc[q] \notin Running \cup Closed /\ pc'[q] \notin Running \cup Closed
      BY <2>3, GotoFacts DEF Check, Open, Send, server, Running, Closed
    <3>3. QED
      BY <3>1, <3>2, SameUnended DEF Silent
  <2>4. QED
    BY <1>1, <2>1, <2>2, <2>3 DEF Handler
<1>2. CASE Ask
  <2>1. PICK n \in Nodes : node' = [node EXCEPT ![request] = n]
    BY <1>2 DEF Ask
  <2>2. /\ request \in Requests /\ pc[request] = "idle" /\ monitor' = monitor
        /\ \A q \in Requests : pc'[q] = IF q = request THEN "arrived" ELSE pc[q]
    BY <1>2, GotoFacts DEF Ask, FreshInv, TypeOK
  <2>3. \A q \in Requests : node'[q] = IF q = request THEN n ELSE node[q]
    BY <2>1 DEF TypeOK
  <2>4. ASSUME NEW m \in Nodes, NEW places, "idle" \notin places, "arrived" \notin places
        PROVE  Serving(m, places)' = Serving(m, places)
    BY <2>2, <2>3, <2>4 DEF Serving
  <2>5. \A m \in Nodes :
          /\ Serving(m, Running \cup {"threw"})' = Serving(m, Running \cup {"threw"})
          /\ Serving(m, Running)' = Serving(m, Running)
          /\ Serving(m, {"completed", "aborted"})' = Serving(m, {"completed", "aborted"})
    BY <2>4 DEF Running
  <2>6. QED
    BY <2>2, <2>5 DEF CountersAddUp, LiveListExplained
<1>3. ASSUME NEW n \in Nodes, Crash(n) PROVE CountersAddUp' /\ LiveListExplained'
  BY <1>3, CrashCounted
<1>4. CASE UNCHANGED server
  BY <1>4, SameUnended DEF server, Silent
<1>5. QED
  BY <1>1, <1>2, <1>3, <1>4
     DEF Next, vars, Loop, ReadHeader, NoAnswer, Truncate, EndUnheard, Receive, Cut,
         RemoveTarget, RenamePart, Kill, Rerun, RemoveStored, RenameStored

LEMMA Counted == Spec => [](CountersAddUp /\ LiveListExplained)
<1>1. ASSUME Init PROVE CountersAddUp /\ LiveListExplained
  <2>1. ASSUME NEW n \in Nodes
        PROVE  /\ Serving(n, Running \cup {"threw"}) = {} /\ Serving(n, Running) = {}
               /\ monitor[n] = NoDownloads
    BY <1>1 DEF Init, Serving, Running
  <2>2. Cardinality({}) = 0
    BY FS_EmptySet
  <2>3. CountersAddUp
    BY <2>1, <2>2 DEF CountersAddUp, NoDownloads
  <2>4. LiveListExplained
    BY <2>1 DEF LiveListExplained, NoDownloads
  <2>5. QED
    BY <2>3, <2>4
<1>2. QED
  BY <1>1, CountedStep, Fresh, PTL DEF Spec

\* For any number of nodes, requests and faults, every download that a node
\* reported as started is reported as ended, still runs, or threw.
THEOREM CountersAddUpAlways == Spec => []CountersAddUp
BY Counted, PTL

\* For any number of nodes, requests and faults, an entry in the table of live
\* transfers stands for a download that runs or threw, and a running one is
\* missing only after another one of the same user and file has ended.
THEOREM LiveListExplainedAlways == Spec => []LiveListExplained
BY Counted, PTL
=============================================================================
