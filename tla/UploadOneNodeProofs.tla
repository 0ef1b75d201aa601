------------------------- MODULE UploadOneNodeProofs -------------------------
(***************************************************************************)
(* Theorems about Upload when one node serves the storage directory, for   *)
(* any number of clients that upload different files under the same name,  *)
(* and for attempts that overlap because a node has not noticed yet that   *)
(* its client is gone.  What keeps them apart is the promise chain of      *)
(* withFileLock() (src/src/server/storage.js) and nothing else.            *)
(***************************************************************************)
EXTENDS UploadProofs

OneNode == \A n, m \in Nodes : n = m

(***************************************************************************)
(* The directory as the request inside withFileLock() finds it.  Inductive *)
(* is that every stage of handleUpload relies on what the stage before it  *)
(* left, and that no stream is open outside receiveBytes().                *)
(***************************************************************************)
PartHolds(k) == partFile # None /\ Len(content[partFile]) = k

Placed(r) ==
  /\ fd[r] = IF pc[r] = "receiving" THEN partFile ELSE None
  /\ pc[r] \in {"truncated", "receiving"} => PartHolds(done[r])
  /\ pc[r] \in {"removing", "renaming"} => PartHolds(Size[Source(r)])
  /\ pc[r] = "renaming" => finalFile = None
  /\ pc[r] \in {"stating", "claiming"} => finalFile # None

FilesInv ==
  /\ partFile # None => partFile # finalFile
  /\ \A r \in Requests : Placed(r)

\* The chain of the one node lets a single request in.
Inside(r) == pc[r] \in Locked \/ MyTurn(r)

LEMMA OneInside ==
  ASSUME OneNode, TypeOK, LoopInv, ChainInv,
         NEW r \in Requests, pc[r] # "idle", Inside(r)
  PROVE  \A q \in Requests : q # r => pc[q] \notin Locked
<1> SUFFICES ASSUME NEW q \in Requests, pc[q] \in Locked PROVE q = r
  OBVIOUS
<1>1. pc[q] # "idle"
  BY DEF Locked
<1>2. node[q] \in Nodes /\ node[r] \in Nodes
  BY <1>1 DEF LoopInv, Sent
<1>3. node[q] = node[r]
  BY <1>2 DEF OneNode
<1>4. MyTurn(q) /\ MyTurn(r)
  BY DEF ChainInv, Inside
<1>5. QED
  BY <1>3, <1>4 DEF MyTurn

\* A step that leaves the files alone, and lets requests only go on outside
\* the lock, or leave it.
LEMMA FilesKept ==
  ASSUME TypeOK, FilesInv, UNCHANGED <<partFile, finalFile, content>>,
         \A q \in Requests :
           \/ pc'[q] = pc[q] /\ done'[q] = done[q] /\ fd'[q] = fd[q]
           \/ pc'[q] \notin Locked /\ fd'[q] = None
  PROVE  FilesInv'
<1> SUFFICES ASSUME NEW q \in Requests PROVE Placed(q)'
  BY DEF FilesInv
<1>1. CASE pc'[q] = pc[q] /\ done'[q] = done[q] /\ fd'[q] = fd[q]
  BY <1>1 DEF FilesInv, Placed, PartHolds
<1>2. CASE pc'[q] \notin Locked /\ fd'[q] = None
  BY <1>2 DEF Placed, Locked
<1>3. QED
  BY <1>1, <1>2

\* The request r inside the lock moves: the others have no stake in the files.
LEMMA FilesMoved ==
  ASSUME TypeOK, FilesInv, NEW r \in Requests,
         \A q \in Requests : q # r =>
           pc[q] \notin Locked /\ pc'[q] = pc[q] /\ fd'[q] = fd[q],
         partFile' # None => partFile' # finalFile',
         Placed(r)'
  PROVE  FilesInv'
<1> SUFFICES ASSUME NEW q \in Requests, q # r PROVE Placed(q)'
  BY DEF FilesInv
<1>1. pc[q] \notin Locked /\ pc'[q] = pc[q] /\ fd'[q] = fd[q]
  OBVIOUS
<1>2. fd[q] = None
  BY <1>1 DEF FilesInv, Placed, Locked
<1>3. QED
  BY <1>1, <1>2 DEF Placed, Locked

LEMMA FilesInvStep ==
  ASSUME OneNode
  PROVE  TypeOK /\ LoopInv /\ ChainInv /\ FilesInv /\ [Next]_vars => FilesInv'
<1> SUFFICES ASSUME TypeOK, LoopInv, ChainInv, FilesInv, [Next]_vars
             PROVE  FilesInv'
  OBVIOUS
<1>l. \A i \in Inodes : content[i] \in Seq(Chunk) /\ Len(content[i]) \in Nat
  BY DEF TypeOK, Chunk
<1>p. partFile # None => partFile \in Inodes
  BY DEF TypeOK
<1>c. \A s \in Sources : Current(s) \in Requests
  BY CurrentType
<1>o. ASSUME NEW r \in Requests, Inside(r), pc[r] # "idle"
      PROVE  \A q \in Requests : q # r => pc[q] \notin Locked
  BY <1>o, OneInside
<1>1. ASSUME NEW s \in Sources, Loop(s) \/ Disconnect(s) PROVE FilesInv'
  <2>1. UNCHANGED <<partFile, finalFile, content, fd>>
    BY <1>1 DEF Loop, AskState, Push, Outcome, Disconnect, disk
  <2>2. CASE AskState(s)
    <3>1. pc[Current(s)] = "idle"
      BY <2>2, <1>c DEF AskState, LoopInv, Sent
    <3>2. fd[Current(s)] = None
      BY <3>1, <1>c DEF FilesInv, Placed
    <3>3. \A q \in Requests : pc'[q] = pc[q] /\ (q # Current(s) => done'[q] = done[q])
      BY <2>2 DEF AskState, TypeOK
    <3>4. QED
      BY <2>1, <3>1, <3>2, <3>3, FilesKept DEF Locked
  <2>3. CASE Push(s)
    <3>1. pc[Current(s)] = "idle"
      BY <2>3, <1>c DEF Push, LoopInv, Sent
    <3>2. fd[Current(s)] = None
      BY <3>1, <1>c DEF FilesInv, Placed
    <3>3. /\ pc'[Current(s)] = "arrived"
          /\ \A q \in Requests : done'[q] = done[q] /\ (q # Current(s) => pc'[q] = pc[q])
      BY <2>3, <1>c DEF Push, Goto, TypeOK
    <3>4. QED
      BY <2>1, <3>2, <3>3, FilesKept DEF Locked
  <2>4. CASE Outcome(s) \/ Disconnect(s)
    BY <2>1, <2>4, FilesKept DEF Outcome, Disconnect
  <2>5. QED
    BY <1>1, <2>2, <2>3, <2>4 DEF Loop
<1>2. ASSUME NEW r \in Requests, CheckWrite(r) \/ CheckOffset(r) \/ EndUnheard(r)
      PROVE  FilesInv'
  <2>1. UNCHANGED <<partFile, finalFile, content, fd, done>>
    BY <1>2 DEF CheckWrite, CheckOffset, EndUnheard, disk
  <2>2. \A q \in Requests :
          pc'[q] = pc[q] \/ (pc[q] # "receiving" /\ pc'[q] \notin Locked)
    BY <1>2 DEF CheckWrite, CheckOffset, EndUnheard, Goto, TypeOK, Locked
  <2>3. QED
    BY <2>1, <2>2, FilesKept DEF FilesInv, Placed
<1>3. ASSUME NEW r \in Requests, NEW label \in Terminal, Leave(r, label),
             UNCHANGED <<partFile, finalFile, content>>
      PROVE  FilesInv'
  BY <1>3, FilesKept DEF Leave, Goto, TypeOK, Terminal, Refusals, Failures, Locked
<1>4. ASSUME NEW r \in Requests, Truncate(r), partFile # None PROVE FilesInv'
  <2>1. /\ content' = [content EXCEPT ![partFile] = Resized(@, done[r])]
        /\ pc' = [pc EXCEPT ![r] = "truncated"]
        /\ UNCHANGED <<partFile, finalFile, fd, done>>
        /\ Inside(r) /\ pc[r] = "waiting"
    BY <1>4 DEF Truncate, Goto, Inside
  <2>2. Len(content'[partFile]) = done[r]
    BY <1>4, <1>p, <1>l, <2>1, ResizedType DEF TypeOK
  <2>3. Placed(r)'
    BY <1>4, <2>1, <2>2 DEF Placed, PartHolds, FilesInv, TypeOK
  <2>4. QED
    BY <1>o, <2>1, <2>3, FilesMoved DEF FilesInv, TypeOK
<1>5. ASSUME NEW r \in Requests, OpenAppend(r) PROVE FilesInv'
  <2>1. /\ UNCHANGED <<partFile, finalFile, content, done>>
        /\ fd' = [fd EXCEPT ![r] = partFile]
        /\ pc' = [pc EXCEPT ![r] = "receiving"]
        /\ Inside(r) /\ pc[r] = "truncated"
    BY <1>5 DEF OpenAppend, Goto, disk, Inside, Locked
  <2>2. Placed(r)'
    BY <2>1 DEF Placed, PartHolds, FilesInv, TypeOK
  <2>3. QED
    BY <1>o, <2>1, <2>2, FilesMoved DEF FilesInv, TypeOK
<1>6. ASSUME NEW r \in Requests, OpenNew(r) PROVE FilesInv'
  <2>1. partFile' \in Inodes /\ partFile' # None /\ partFile' # finalFile
    BY <1>6, NoneAssumption DEF OpenNew, NewInode, FreeInodes, FilesInv, TypeOK
  <2>2. /\ content' = [content EXCEPT ![partFile'] = <<>>]
        /\ fd' = [fd EXCEPT ![r] = partFile']
        /\ pc' = [pc EXCEPT ![r] = "receiving"]
        /\ done[r] = 0
        /\ UNCHANGED <<finalFile, done>>
        /\ Inside(r) /\ pc[r] = "waiting"
    BY <1>6 DEF OpenNew, Goto, Inside
  <2>3. Len(content'[partFile']) = 0
    BY <2>1, <2>2 DEF TypeOK
  <2>4. Placed(r)'
    BY <2>1, <2>2, <2>3 DEF Placed, PartHolds, TypeOK
  <2>5. QED
    BY <1>o, <2>1, <2>2, <2>4, FilesMoved DEF TypeOK
<1>7. ASSUME NEW r \in Requests, Receive(r) PROVE FilesInv'
  <2> DEFINE c == content[partFile]
  <2>1. /\ partFile # None /\ partFile \in Inodes /\ c \in Seq(Chunk)
        /\ Len(c) \in Nat /\ fd[r] = partFile /\ done[r] = Len(c)
        /\ Size[Source(r)] \in Nat /\ Source(r) \in Sources
        /\ Len(c) < Size[Source(r)]
        /\ Inside(r) /\ pc[r] = "receiving"
    BY <1>7, <1>p, <1>l, RequestType
    DEF Receive, FilesInv, Placed, PartHolds, Inside, Locked
  <2>2. /\ content' = [content EXCEPT ![partFile] = Written(c, Len(c), Source(r))]
        /\ done' = [done EXCEPT ![r] = Len(c) + 1]
        /\ UNCHANGED <<partFile, finalFile>>
    BY <1>7, <2>1 DEF Receive
  <2>3. Len(content'[partFile]) = Len(c) + 1
    BY <2>1, <2>2, WrittenAtEnd DEF TypeOK
  <2>4. CASE AllReceived(r)
    <3>1. Len(content'[partFile]) = Size[Source(r)]
      BY <2>1, <2>3, <2>4 DEF AllReceived
    <3>2. pc' = [pc EXCEPT ![r] = "removing"] /\ fd' = [fd EXCEPT ![r] = None]
      BY <1>7, <2>4 DEF Receive, Goto
    <3>3. Placed(r)'
      BY <2>1, <2>2, <3>1, <3>2 DEF Placed, PartHolds, TypeOK
    <3>4. QED
      BY <1>o, <2>1, <2>2, <3>2, <3>3, FilesMoved DEF FilesInv, TypeOK
  <2>5. CASE ~AllReceived(r)
    <3>1. UNCHANGED <<pc, fd>>
      BY <1>7, <2>5 DEF Receive
    <3>2. Placed(r)'
      BY <2>1, <2>2, <2>3, <3>1 DEF Placed, PartHolds, TypeOK
    <3>3. QED
      BY <1>o, <2>1, <2>2, <3>1, <3>2, FilesMoved DEF FilesInv, TypeOK
  <2>6. QED
    BY <2>4, <2>5
<1>8. ASSUME NEW r \in Requests, RemoveFinal(r) PROVE FilesInv'
  <2>1. /\ UNCHANGED <<partFile, content, done, fd>> /\ finalFile' = None
        /\ pc' = [pc EXCEPT ![r] = "renaming"]
        /\ Inside(r) /\ pc[r] = "removing"
    BY <1>8 DEF RemoveFinal, Goto, Inside, Locked
  <2>2. Placed(r)'
    BY <2>1 DEF Placed, PartHolds, FilesInv, TypeOK
  <2>3. QED
    BY <1>o, <2>1, <2>2, FilesMoved DEF TypeOK
<1>9. ASSUME NEW r \in Requests, Rename(r) PROVE FilesInv'
  <2>1. partFile # None /\ pc[r] = "renaming" /\ Inside(r)
    BY <1>9 DEF Rename, FilesInv, Placed, PartHolds, Inside, Locked
  <2>2. /\ finalFile' = partFile /\ partFile' = None
        /\ UNCHANGED <<fd, done>>
        /\ pc' = [pc EXCEPT ![r] = "stating"]
    BY <1>9, <2>1 DEF Rename, Goto
  <2>3. Placed(r)'
    BY <2>1, <2>2 DEF Placed, FilesInv, TypeOK
  <2>4. QED
    BY <1>o, <2>1, <2>2, <2>3, FilesMoved DEF TypeOK
<1>10. ASSUME NEW r \in Requests, StatFinal(r) PROVE FilesInv'
  <2>1. finalFile # None /\ pc[r] = "stating" /\ Inside(r)
    BY <1>10 DEF StatFinal, FilesInv, Placed, Inside, Locked
  <2>2. /\ UNCHANGED <<partFile, finalFile, content, fd, done>>
        /\ pc' = [pc EXCEPT ![r] = "claiming"]
    BY <1>10, <2>1 DEF StatFinal, Goto, disk
  <2>3. Placed(r)'
    BY <2>1, <2>2 DEF Placed, FilesInv, TypeOK
  <2>4. QED
    BY <1>o, <2>1, <2>2, <2>3, FilesMoved DEF FilesInv, TypeOK
<1>11. ASSUME NEW n, Dies(n) PROVE FilesInv'
  <2>1. UNCHANGED <<partFile, finalFile, content>>
    BY <1>11 DEF Dies, disk
  <2>2. \A q \in Requests :
          \/ pc'[q] = pc[q] /\ done'[q] = done[q] /\ fd'[q] = fd[q]
          \/ pc'[q] \notin Locked /\ fd'[q] = None
    BY <1>11 DEF Dies, TypeOK, Locked
  <2>3. QED
    BY <2>1, <2>2, FilesKept
<1>12. CASE UNCHANGED vars
  BY <1>12, FilesKept DEF vars
<1>13. ASSUME NEW r \in Requests,
              (Truncate(r) /\ partFile = None) \/ Abort(r) \/ Claim(r)
       PROVE  FilesInv'
  BY <1>3, <1>13 DEF Truncate, Abort, Claim, disk, Terminal, Failures
<1>14. QED
  BY <1>1, <1>2, <1>4, <1>5, <1>6, <1>7, <1>8, <1>9, <1>10, <1>11, <1>12, <1>13
  DEF Next, Handler, StreamFails, Crash

LEMMA FilesInvCorrect ==
  ASSUME OneNode
  PROVE  Spec => [](TypeOK /\ LoopInv /\ ChainInv /\ FilesInv)
<1>1. Init => ChainInv /\ FilesInv
  BY DEF Init, ChainInv, FilesInv, Placed, Locked
<1>2. QED
  BY <1>1, TypeCorrect, LoopInvCorrect, ChainInvStep, FilesInvStep, PTL DEF Spec

\* What the node reports as resume_at when a connection is lost is the size of
\* <name>.part, whichever client's upload is cut off, with others queued behind
\* it and whatever was written or abandoned before.
THEOREM ResumePointReported ==
  ASSUME OneNode
  PROVE  Spec => []AbortIsResumePoint
<1>1. FilesInv => AbortIsResumePoint
  BY DEF FilesInv, Placed, PartHolds, AbortIsResumePoint
<1>2. QED
  BY <1>1, FilesInvCorrect, PTL

\* When finalize() runs, <name>.part is there and as long as the local file of
\* the client whose last byte has just arrived.
THEOREM FinalizeFindsPart ==
  ASSUME OneNode
  PROVE  Spec => []CompleteOnDisk
<1>1. FilesInv => CompleteOnDisk
  BY DEF FilesInv, Placed, PartHolds, CompleteOnDisk
<1>2. QED
  BY <1>1, FilesInvCorrect, PTL
(***************************************************************************)
(* The promise to downloads.  Files are only written under <name>.part,    *)
(* which is not the inode of <name>.                                       *)
(***************************************************************************)
LEMMA FinalUntouched ==
  ASSUME OneNode, TypeOK, FilesInv, [Next]_vars,
         \A r \in Requests : ~RemoveFinal(r) /\ ~Rename(r)
  PROVE  finalFile' = finalFile
         /\ (finalFile # None => content'[finalFile] = content[finalFile])
<1>1. ASSUME NEW s \in Sources, Loop(s) \/ Disconnect(s)
      PROVE  UNCHANGED <<finalFile, content>>
  BY <1>1 DEF Loop, AskState, Push, Outcome, Disconnect, disk
<1>2. ASSUME NEW r \in Requests,
             CheckWrite(r) \/ CheckOffset(r) \/ EndUnheard(r) \/ OpenAppend(r)
             \/ Abort(r) \/ StatFinal(r) \/ Claim(r)
      PROVE  UNCHANGED <<finalFile, content>>
  BY <1>2 DEF CheckWrite, CheckOffset, EndUnheard, OpenAppend, Abort, StatFinal,
     Claim, disk
<1>3. ASSUME NEW r \in Requests, Truncate(r) \/ OpenNew(r) \/ Receive(r)
      PROVE  /\ finalFile' = finalFile
             /\ finalFile # None => content'[finalFile] = content[finalFile]
  <2>1. CASE Truncate(r)
    BY <2>1 DEF Truncate, FilesInv, TypeOK
  <2>2. CASE OpenNew(r)
    <3>1. partFile' # finalFile
      BY <2>2 DEF OpenNew, NewInode, FreeInodes, FilesInv
    <3>2. QED
      BY <2>2, <3>1 DEF OpenNew, TypeOK
  <2>3. CASE Receive(r)
    <3>1. fd[r] # finalFile
      BY <2>3 DEF Receive, FilesInv, Placed, PartHolds
    <3>2. QED
      BY <2>3, <3>1 DEF Receive, TypeOK
  <2>4. QED
    BY <1>3, <2>1, <2>2, <2>3
<1>4. ASSUME NEW n, Dies(n) PROVE UNCHANGED <<finalFile, content>>
  BY <1>4 DEF Dies, disk
<1>5. CASE UNCHANGED vars
  BY <1>5 DEF vars
<1>6. QED
  BY <1>1, <1>2, <1>3, <1>4, <1>5 DEF Next, Handler, StreamFails, Crash

\* The node implements StoredFile: a file gets its real name at the length of
\* something that somebody uploads, and not a byte of it changes until finalize()
\* of a later upload removes it.
THEOREM OneNodeStoresWholes ==
  ASSUME OneNode
  PROVE  Spec => StoredAsWhole
<1> DEFINE Stored == IF finalFile = None THEN None ELSE content[finalFile]
           Wholes == UNION {[1 .. k -> Sources \cup {Hole}] : k \in Lengths}
<1>1. Init => Promise!Init
  BY DEF Init, Promise!Init
<1>2. ASSUME TypeOK, FilesInv, [Next]_vars
      PROVE  [Promise!Next]_Stored
  <2>1. ASSUME NEW r \in Requests, RemoveFinal(r) PROVE [Promise!Next]_Stored
    <3>1. Stored' = None
      BY <2>1 DEF RemoveFinal
    <3>2. QED
      BY <3>1 DEF Promise!Next, Promise!Remove
  <2>2. ASSUME NEW r \in Requests, Rename(r) PROVE [Promise!Next]_Stored
    <3>1. /\ finalFile = None /\ partFile # None /\ partFile \in Inodes
          /\ Len(content[partFile]) = Size[Source(r)]
      BY <1>2, <2>2 DEF Rename, FilesInv, Placed, PartHolds, TypeOK
    <3>2. Stored = None /\ Stored' = content[partFile]
      BY <2>2, <3>1 DEF Rename
    <3>3. content[partFile] \in Seq(Chunk)
      BY <1>2, <3>1 DEF TypeOK, Chunk
    <3>4. content[partFile] \in [1 .. Size[Source(r)] -> Sources \cup {Hole}]
      BY <3>1, <3>3 DEF Chunk
    <3>5. Size[Source(r)] \in Lengths
      BY RequestType DEF Lengths
    <3>6. Stored' \in Wholes
      BY <3>2, <3>4, <3>5
    <3>7. QED
      BY <3>2, <3>6 DEF Promise!Next, Promise!Promote
  <2>3. CASE \A r \in Requests : ~RemoveFinal(r) /\ ~Rename(r)
    <3>1. Stored' = Stored
      BY <1>2, <2>3, FinalUntouched
    <3>2. QED
      BY <3>1
  <2>4. QED
    BY <2>1, <2>2, <2>3
<1>3. QED
  BY <1>1, <1>2, FilesInvCorrect, PTL DEF StoredAsWhole, Promise!Spec, Spec

(***************************************************************************)
(* What a crash would break: a process that dies between the rm and the    *)
(* rename of finalize() loses the file that was there.  A failing write    *)
(* stream kills the process as well, but only while it holds the lock.     *)
(***************************************************************************)
NoCrash == OneNode /\ "crash" \notin Faults

Replacing == \E r \in Requests : pc[r] = "renaming"

Acknowledged ==
  (\E r \in Requests : pc[r] = "complete") \/ (\E s \in Sources : client[s] = "confirmed")

ConfirmInv == Acknowledged => finalFile # None \/ Replacing

\* A write stream that fails takes nobody down who is in finalize().
LEMMA StreamFailsAlone ==
  ASSUME NoCrash, TypeOK, LoopInv, ChainInv, NEW r \in Requests, StreamFails(r)
  PROVE  ~Replacing
<1>1. pc[r] \in {"truncated", "receiving"}
  BY DEF StreamFails
<1>2. Inside(r) /\ pc[r] # "idle"
  BY <1>1 DEF Inside, Locked
<1>3. \A q \in Requests : q # r => pc[q] \notin Locked
  BY <1>2, OneInside DEF NoCrash
<1>4. QED
  BY <1>1, <1>3 DEF Replacing, Locked

\* Everything but the last steps of an upload: nobody is confirmed by it, and
\* finalize() and policy.claim() of others are where they were.
Elsewhere ==
  \/ \E s \in Sources : Loop(s) \/ Disconnect(s)
  \/ \E r \in Requests :
        \/ CheckWrite(r) \/ CheckOffset(r) \/ EndUnheard(r) \/ Truncate(r)
        \/ OpenAppend(r) \/ OpenNew(r) \/ Receive(r) \/ Abort(r)
  \/ UNCHANGED vars

LEMMA ElsewhereKeeps ==
  ASSUME TypeOK, LoopInv, Elsewhere
  PROVE  /\ Acknowledged' => Acknowledged
         /\ Replacing => Replacing'
         /\ finalFile' = finalFile
<1> DEFINE ending == {"renaming", "stating", "claiming", "complete"}
<1>1. ASSUME UNCHANGED <<finalFile, client>>,
             \A q \in Requests : pc'[q] = pc[q]
                                  \/ (pc[q] \notin ending /\ pc'[q] \notin ending)
      PROVE  /\ Acknowledged' => Acknowledged
             /\ Replacing => Replacing'
  BY <1>1 DEF Acknowledged, Replacing
<1>2. ASSUME NEW s \in Sources, AskState(s) \/ Push(s) \/ Outcome(s) \/ Disconnect(s)
      PROVE  /\ Acknowledged' => Acknowledged
             /\ Replacing => Replacing'
             /\ finalFile' = finalFile
  <2>1. finalFile' = finalFile
    BY <1>2 DEF AskState, Push, Outcome, Disconnect, disk
  <2>2. \A q \in Requests : pc'[q] = pc[q]
                             \/ (pc[q] \notin ending /\ pc'[q] \notin ending)
    <3>1. CASE Push(s)
      <4>1. pc[Current(s)] = "idle"
        BY <3>1, CurrentType DEF Push, LoopInv, Sent
      <4>2. QED
        BY <3>1, <4>1 DEF Push, Goto, TypeOK
    <3>2. CASE ~Push(s)
      BY <1>2, <3>2 DEF AskState, Outcome, Disconnect
    <3>3. QED
      BY <3>1, <3>2
  <2>3. Acknowledged' => Acknowledged
    <3>1. CASE pc[Current(s)] = "complete"
      BY <3>1, CurrentType DEF Acknowledged
    <3>2. CASE pc[Current(s)] # "complete"
      <4>1. \A t \in Sources : client'[t] = "confirmed" => client[t] = "confirmed"
        BY <1>2, <3>2 DEF AskState, Push, Outcome, Disconnect, NextAttempt, TypeOK
      <4>2. QED
        BY <2>2, <4>1 DEF Acknowledged
    <3>3. QED
      BY <3>1, <3>2
  <2>4. QED
    BY <2>1, <2>2, <2>3 DEF Replacing
<1>3. ASSUME NEW r \in Requests,
             CheckWrite(r) \/ CheckOffset(r) \/ EndUnheard(r) \/ Truncate(r)
             \/ OpenAppend(r) \/ OpenNew(r) \/ Receive(r) \/ Abort(r)
      PROVE  /\ UNCHANGED <<finalFile, client>>
             /\ \A q \in Requests : pc'[q] = pc[q]
                                     \/ (pc[q] \notin ending /\ pc'[q] \notin ending)
  BY <1>3 DEF CheckWrite, CheckOffset, EndUnheard, Truncate, OpenAppend, OpenNew,
     Receive, Abort, Leave, Goto, TypeOK, Answering, disk, side
<1>4. CASE UNCHANGED vars
  BY <1>1, <1>4 DEF vars
<1>5. CASE \E s \in Sources : Loop(s) \/ Disconnect(s)
  BY <1>2, <1>5 DEF Loop
<1>6. CASE \E r \in Requests :
             \/ CheckWrite(r) \/ CheckOffset(r) \/ EndUnheard(r) \/ Truncate(r)
             \/ OpenAppend(r) \/ OpenNew(r) \/ Receive(r) \/ Abort(r)
  <2>1. /\ UNCHANGED <<finalFile, client>>
        /\ \A q \in Requests : pc'[q] = pc[q]
                                \/ (pc[q] \notin ending /\ pc'[q] \notin ending)
    BY <1>3, <1>6
  <2>2. QED
    BY <1>1, <2>1
<1>7. QED
  BY <1>4, <1>5, <1>6 DEF Elsewhere

LEMMA NextWithoutCrash ==
  ASSUME NoCrash, [Next]_vars
  PROVE  \/ Elsewhere
         \/ \E r \in Requests : \/ RemoveFinal(r) \/ Rename(r) \/ StatFinal(r)
                                \/ Claim(r) \/ StreamFails(r)
BY DEF NoCrash, Next, Handler, Crash, Elsewhere

LEMMA ConfirmInvStep ==
  ASSUME NoCrash
  PROVE  TypeOK /\ LoopInv /\ ChainInv /\ FilesInv /\ ConfirmInv /\ [Next]_vars
           => ConfirmInv'
<1> SUFFICES ASSUME TypeOK, LoopInv, ChainInv, FilesInv, ConfirmInv, [Next]_vars
             PROVE  ConfirmInv'
  OBVIOUS
<1>1. CASE Elsewhere
  BY <1>1, ElsewhereKeeps DEF ConfirmInv
<1>2. ASSUME NEW r \in Requests, RemoveFinal(r) PROVE ConfirmInv'
  <2>1. pc'[r] = "renaming"
    BY <1>2 DEF RemoveFinal, Goto, TypeOK
  <2>2. QED
    BY <2>1 DEF ConfirmInv, Replacing
<1>3. ASSUME NEW r \in Requests, Rename(r) PROVE ConfirmInv'
  BY <1>3 DEF Rename, FilesInv, Placed, PartHolds, ConfirmInv
<1>4. ASSUME NEW r \in Requests, StatFinal(r) \/ Claim(r) PROVE ConfirmInv'
  BY <1>4 DEF StatFinal, Claim, disk, FilesInv, Placed, ConfirmInv
<1>5. ASSUME NEW r \in Requests, StreamFails(r) PROVE ConfirmInv'
  <2>1. Acknowledged' => Acknowledged
    BY <1>5 DEF StreamFails, Dies, side, Acknowledged, TypeOK, Terminal
  <2>2. finalFile' = finalFile
    BY <1>5 DEF StreamFails, Dies, disk
  <2>3. QED
    BY <1>5, <2>1, <2>2, StreamFailsAlone DEF ConfirmInv
<1>6. QED
  BY <1>1, <1>2, <1>3, <1>4, <1>5, NextWithoutCrash

\* As long as the process is not killed, a file whose upload was confirmed to
\* anybody is there, or is being replaced by the rename that comes next.
THEOREM ConfirmedFileStays ==
  ASSUME NoCrash
  PROVE  Spec => []ConfirmedStays
<1>1. Init => ConfirmInv
  BY DEF Init, ConfirmInv, Acknowledged
<1>2. ConfirmInv => ConfirmedStays
  BY DEF ConfirmInv, ConfirmedStays, Acknowledged, Replacing
<1>3. OneNode
  BY DEF NoCrash
<1>4. QED
  BY <1>1, <1>2, <1>3, FilesInvCorrect, ConfirmInvStep, PTL DEF Spec
=============================================================================
