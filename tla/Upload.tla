------------------------------- MODULE Upload -------------------------------
(***************************************************************************)
(* Uploads of one file name: src/src/server/storage.js, handleUpload of    *)
(* src/src/server/handlers.js and the retry loop of src/src/client/client.js *)
(* (upload, _push).  Several node processes share one storage directory;   *)
(* each has its own promise chain for the name.                            *)
(*                                                                         *)
(* The directory has two entries, <name>.part and <name>; each refers to   *)
(* an inode, because a write stream stays on its inode when the entry is   *)
(* renamed or removed.  The content of an inode is a sequence of chunks,   *)
(* and a chunk is known by the local file it comes from; its position in   *)
(* that file is its position in the sequence.  The policy is the atomic    *)
(* one of AtomicRules, reduced to the owner of the name.                   *)
(***************************************************************************)
EXTENDS Naturals, Sequences, FiniteSets

CONSTANTS
  Nodes,
  Sources,      \* local files that clients upload under the same name
  Size,         \* Size[s]: chunks in s
  User,         \* User[s]: who uploads s
  Users,
  Writers,      \* the users that the owner has given write access
  MaxAttempts,  \* RETRIES + 1
  Faults,       \* what the environment may do, a subset of FaultKinds
  Inodes,
  None,         \* no inode, no node, no owner
  Hole          \* a chunk nobody has written

\* "drop":    a connection ends, what was sent before still arrives
\* "reset":   a connection is reset
\* "crash":   a node process is killed and started again
\* "overlap": a client comes back before the node has noticed it was gone
\* "ioerror": a write stream fails (a full disk, no file handle left)
\* "noclaim": claim() rejects
\* "reload":  a reload() of another request undoes a claim before it is saved
FaultKinds == {"drop", "reset", "crash", "overlap", "ioerror", "noclaim", "reload"}

ASSUME SizeAssumption        == Size \in [Sources -> Nat]
ASSUME UserAssumption        == User \in [Sources -> Users] /\ Writers \subseteq Users
ASSUME MaxAttemptsAssumption == MaxAttempts \in Nat \ {0}
ASSUME UploadFaultsAssumption == Faults \subseteq FaultKinds
ASSUME NoneAssumption        == None \notin Inodes \cup Nodes \cup Users
ASSUME HoleAssumption        == Hole \notin Sources

\* <<s, k>> is the k-th attempt to upload s.
Requests == Sources \X (1 .. MaxAttempts)
Source(r) == r[1]

VARIABLES
  partFile,    \* the inode of <name>.part
  finalFile,   \* the inode of <name>
  content,     \* content[i]: the chunks of inode i
  owner,       \* the owner of the name in the rules
  chain,       \* chain[n]: the calls of withFileLock on node n, the head runs
  node,        \* the node that serves a request
  done,        \* offset + received: where its next chunk goes
  pc,          \* where the handler of a request is
  fd,          \* the inode its write stream is open on
  socket,      \* the connection as the node sees it
  client,      \* where the retry loop of a client is
  attempt      \* its loop variable

vars == <<partFile, finalFile, content, owner, chain, node, done, pc, fd, socket,
          client, attempt>>
disk == <<partFile, finalFile, content, owner>>
side == <<client, attempt, node>>   \* what only the client changes

Answering == {"arrived", "checked"}                    \* no reply sent yet
Locked    == {"truncated", "receiving", "removing", "renaming", "stating",
              "claiming"}                              \* inside withFileLock
Refusals  == {"denied", "badOffset"}
Failures  == {"aborted", "failed", "dead", "unanswered"}
Terminal  == {"complete"} \cup Refusals \cup Failures

Goto(r, label) == pc' = [pc EXCEPT ![r] = label]

Init ==
  /\ partFile = None /\ finalFile = None
  /\ content  = [i \in Inodes |-> <<>>]
  /\ owner    = None
  /\ chain    = [n \in Nodes |-> <<>>]
  /\ node     = [r \in Requests |-> None]
  /\ done     = [r \in Requests |-> 0]
  /\ pc       = [r \in Requests |-> "idle"]
  /\ fd       = [r \in Requests |-> None]
  /\ socket   = [r \in Requests |-> "open"]
  /\ client   = [s \in Sources |-> "asking"]
  /\ attempt  = [s \in Sources |-> 1]

(***************************************************************************)
(* The disk.                                                               *)
(***************************************************************************)
\* (mutant: one too many)
UploadedBytesOffByOne ==
  IF partFile = None THEN 0 ELSE Len(content[partFile]) + 1

UploadedBytes == IF partFile = None THEN 0 ELSE Len(content[partFile])

\* (mutant: what is behind the resume point stays)
NotResized(c, k) == c

\* truncate() also extends a file that is too short.
Resized(c, k) == [i \in 1 .. k |-> IF i <= Len(c) THEN c[i] ELSE Hole]

\* A chunk written behind the first p chunks, wherever the file ends.
Written(c, p, s) ==
  [i \in 1 .. (IF Len(c) > p THEN Len(c) ELSE p + 1) |->
     IF i = p + 1 THEN s ELSE IF i <= Len(c) THEN c[i] ELSE Hole]

FreeInodes == Inodes \ ({partFile, finalFile} \cup {fd[r] : r \in Requests})
NewInode   == CHOOSE i \in FreeInodes : TRUE

(***************************************************************************)
(* The client.                                                             *)
(***************************************************************************)
Current(s) == <<s, attempt[s]>>

\* (mutant: no limit on the retries)
NextAttemptUnlimited(s) ==
  /\ attempt' = [attempt EXCEPT ![s] = @ + 1]
  /\ client'  = [client EXCEPT ![s] = "asking"]

\* The next round of the loop, or "upload failed after n attempts".
NextAttempt(s) ==
  IF attempt[s] < MaxAttempts
    THEN /\ attempt' = [attempt EXCEPT ![s] = @ + 1]
         /\ client'  = [client EXCEPT ![s] = "asking"]
    ELSE /\ client'  = [client EXCEPT ![s] = "gaveUp"]
         /\ UNCHANGED attempt

\* STAT: a node that dies before it answers counts as "nothing uploaded".
AskState(s) ==
  /\ client[s] = "asking"
  /\ "overlap" \notin Faults =>
       \A k \in 1 .. (attempt[s] - 1) : pc[<<s, k>>] \in Terminal
  /\ \E size \in {UploadedBytes} \cup {x \in {0} : "crash" \in Faults} :
       done' = [done EXCEPT ![Current(s)] = size]
  /\ client' = [client EXCEPT ![s] = "picked"]
  /\ UNCHANGED <<disk, chain, node, pc, fd, socket, attempt>>

\* WHERE may name any node; the header is sent to it.
Push(s) ==
  /\ client[s] = "picked"
  /\ \E n \in Nodes : node' = [node EXCEPT ![Current(s)] = n]
  /\ Goto(Current(s), "arrived")
  /\ client' = [client EXCEPT ![s] = "pushing"]
  /\ UNCHANGED <<disk, chain, done, fd, socket, attempt>>

\* The outcome reaches the client: confirmed, refused, or try again.
Outcome(s) ==
  LET r == Current(s) IN
  /\ client[s] = "pushing"
  /\ socket[r] = "open"
  /\ \/ /\ pc[r] = "complete"
        /\ client' = [client EXCEPT ![s] = "confirmed"]
        /\ UNCHANGED attempt
     \/ /\ pc[r] \in Refusals \cup {"unanswered"}   \* null counts as a refusal
        /\ client' = [client EXCEPT ![s] = "refused"]
        /\ UNCHANGED attempt
     \/ /\ pc[r] \in Failures
        /\ NextAttempt(s)
  /\ UNCHANGED <<disk, chain, node, done, pc, fd, socket>>

\* The connection is lost, or the client is killed and started again.
Disconnect(s) ==
  LET r == Current(s) IN
  /\ client[s] = "pushing"
  /\ socket[r] = "open"
  /\ \/ "drop" \in Faults /\ socket' = [socket EXCEPT ![r] = "ended"]
     \/ "reset" \in Faults /\ socket' = [socket EXCEPT ![r] = "reset"]
  /\ NextAttempt(s)
  /\ UNCHANGED <<disk, chain, node, done, pc, fd>>

(***************************************************************************)
(* handleUpload up to the file lock.                                       *)
(***************************************************************************)
CanWrite(r) ==
  LET user == User[Source(r)] IN owner \in {None, user} \/ user \in Writers

CheckWrite(r) ==
  /\ pc[r] = "arrived"
  /\ Goto(r, IF CanWrite(r) THEN "checked" ELSE "denied")
  /\ UNCHANGED <<disk, side, chain, done, fd, socket>>

\* The ok header is sent and withFileLock() called without an await between.
CheckOffset(r) ==
  /\ pc[r] = "checked"
  /\ IF done[r] > UploadedBytes
       THEN Goto(r, "badOffset") /\ UNCHANGED chain
       ELSE Goto(r, "waiting") /\ chain' = [chain EXCEPT ![node[r]] = Append(@, r)]
  /\ UNCHANGED <<disk, side, done, fd, socket>>

\* The connection is over before receiveBytes listens, and nobody but
\* handleConnection hears of it: a reset, or the 'end' of a paused socket with
\* nothing unread.  receiveBytes will get no event any more.
EndUnheard(r) ==
  /\ socket[r] \in {"ended", "reset"}
  /\ pc[r] \in Answering \cup {"waiting", "truncated"}
  /\ socket' = [socket EXCEPT ![r] = "unheard"]
  /\ UNCHANGED <<disk, side, chain, done, pc, fd>>

(***************************************************************************)
(* Inside withFileLock().                                                  *)
(***************************************************************************)
\* (mutant: no chain, or one that does not wait)
MyTurnNoChain(r) == TRUE

MyTurn(r) == chain[node[r]] # <<>> /\ Head(chain[node[r]]) = r

\* The callback returns or throws, and the next in the chain may run.
Leave(r, label) ==
  /\ Goto(r, label)
  /\ chain' = [chain EXCEPT ![node[r]] = Tail(@)]
  /\ fd'   = [fd EXCEPT ![r] = None]
  /\ done' = [done EXCEPT ![r] = 0]

\* openForAppend, offset > 0: truncate rejects when there is no .part.
Truncate(r) ==
  /\ pc[r] = "waiting" /\ MyTurn(r) /\ done[r] > 0
  /\ IF partFile = None
       THEN Leave(r, "failed") /\ UNCHANGED content
       ELSE /\ content' = [content EXCEPT ![partFile] = Resized(@, done[r])]
            /\ Goto(r, "truncated")
            /\ UNCHANGED <<chain, done, fd>>
  /\ UNCHANGED <<partFile, finalFile, owner, side, socket>>

\* The stream opens <name>.part with 'r+'.
OpenAppend(r) ==
  /\ pc[r] = "truncated"
  /\ partFile # None
  /\ fd' = [fd EXCEPT ![r] = partFile]
  /\ Goto(r, "receiving")
  /\ UNCHANGED <<disk, side, chain, done, socket>>

\* offset = 0: the stream opens <name>.part with 'w'.
OpenNew(r) ==
  /\ pc[r] = "waiting" /\ MyTurn(r) /\ done[r] = 0
  /\ partFile = None => FreeInodes # {}
  /\ partFile' = IF partFile = None THEN NewInode ELSE partFile
  /\ content'  = [content EXCEPT ![partFile'] = <<>>]
  /\ fd'       = [fd EXCEPT ![r] = partFile']
  /\ Goto(r, "receiving")
  /\ UNCHANGED <<finalFile, owner, side, chain, done, socket>>

\* (mutant: receiveBytes resolves one chunk early)
AllReceivedEarly(r) == done[r] + 2 >= Size[Source(r)]

\* The chunk that arrives is the last one.
AllReceived(r) == done[r] + 1 >= Size[Source(r)]

\* receiveBytes: a chunk arrives and is written.  It resolves only there, so
\* a body of no chunks is waited for for ever.
Receive(r) ==
  /\ pc[r] = "receiving"
  /\ socket[r] # "unheard"
  /\ done[r] < Size[Source(r)]
  /\ content' = [content EXCEPT ![fd[r]] = Written(@, done[r], Source(r))]
  /\ done' = [done EXCEPT ![r] = @ + 1]
  /\ IF AllReceived(r)
       THEN Goto(r, "removing") /\ fd' = [fd EXCEPT ![r] = None]
       ELSE UNCHANGED <<pc, fd>>
  /\ UNCHANGED <<partFile, finalFile, owner, side, chain, socket>>

\* (mutant: no 'end' listener)
LostByResetOnly(r) == socket[r] = "reset"

Lost(r) == socket[r] \in {"ended", "reset"}

\* 'end' or a reset: what arrived stays in <name>.part.
Abort(r) ==
  /\ pc[r] = "receiving"
  /\ Lost(r)
  /\ Leave(r, "aborted")
  /\ UNCHANGED <<disk, side, socket>>

\* finalize(): rm of <name>, rename of <name>.part to it, stat of <name>.
RemoveFinal(r) ==
  /\ pc[r] = "removing"
  /\ finalFile' = None
  /\ Goto(r, "renaming")
  /\ UNCHANGED <<partFile, content, owner, side, chain, done, fd, socket>>

Rename(r) ==
  /\ pc[r] = "renaming"
  /\ IF partFile = None
       THEN Leave(r, "failed") /\ UNCHANGED <<partFile, finalFile>>
       ELSE /\ finalFile' = partFile
            /\ partFile'  = None
            /\ Goto(r, "stating")
            /\ UNCHANGED <<chain, done, fd>>
  /\ UNCHANGED <<content, owner, side, socket>>

StatFinal(r) ==
  /\ pc[r] = "stating"
  /\ IF finalFile = None
       THEN Leave(r, "failed")
       ELSE Goto(r, "claiming") /\ UNCHANGED <<chain, done, fd>>
  /\ UNCHANGED <<disk, side, socket>>

Claimed(r) == IF owner = None THEN User[Source(r)] ELSE owner

\* policy.claim(), and the confirmation.  A claim that rejects may have been
\* saved: PolicyStore has the steps.
Claim(r) ==
  /\ pc[r] = "claiming"
  /\ \/ owner' = Claimed(r) /\ Leave(r, "complete")
     \/ "reload" \in Faults /\ owner' = owner /\ Leave(r, "complete")
     \/ "noclaim" \in Faults /\ owner' \in {owner, Claimed(r)} /\ Leave(r, "failed")
  /\ UNCHANGED <<partFile, finalFile, content, side, socket>>

(***************************************************************************)
(* A node process dies and is started again.                               *)
(***************************************************************************)
Dies(n) ==
  LET killed(r) == node[r] = n /\ pc[r] \notin {"idle"} \cup Terminal IN
  /\ pc' = [r \in Requests |->
              CASE killed(r) /\ pc[r] \in Answering -> "unanswered"
                [] killed(r) /\ pc[r] \notin Answering -> "dead"
                [] OTHER -> pc[r]]
  /\ fd'   = [r \in Requests |-> IF killed(r) THEN None ELSE fd[r]]
  /\ done' = [r \in Requests |-> IF killed(r) THEN 0 ELSE done[r]]
  /\ chain' = [chain EXCEPT ![n] = <<>>]
  /\ UNCHANGED <<disk, side, socket>>

Crash(n) == "crash" \in Faults /\ Dies(n)

\* Nobody listens for the 'error' of the write stream, be it an 'r+' stream
\* that finds no <name>.part or a write that fails: the process dies.
StreamFails(r) ==
  /\ \/ pc[r] = "truncated" /\ partFile = None
     \/ pc[r] \in {"truncated", "receiving"} /\ "ioerror" \in Faults
  /\ Dies(node[r])

Handler(r) ==
  \/ CheckWrite(r) \/ CheckOffset(r)
  \/ Truncate(r) \/ OpenAppend(r) \/ OpenNew(r)
  \/ Abort(r)
  \/ RemoveFinal(r) \/ Rename(r) \/ StatFinal(r) \/ Claim(r)

Loop(s) == AskState(s) \/ Push(s) \/ Outcome(s)

Next ==
  \/ \E r \in Requests : Handler(r) \/ Receive(r) \/ EndUnheard(r) \/ StreamFails(r)
  \/ \E s \in Sources : Loop(s) \/ Disconnect(s)
  \/ \E n \in Nodes : Crash(n)

Spec == Init /\ [][Next]_vars

\* The event loops run every ready callback.  A client goes on sending as long
\* as it is connected; how much it sent before it went is not known.
FairSpec ==
  /\ Spec
  /\ \A r \in Requests : WF_vars(Handler(r) \/ (socket[r] = "open" /\ Receive(r)))
  /\ \A s \in Sources : WF_vars(Loop(s))

-----------------------------------------------------------------------------
(***************************************************************************)
(* Properties.                                                             *)
(***************************************************************************)
\* Every variable has the shape the code gives it.
TypeOK ==
  /\ partFile \in Inodes \cup {None} /\ finalFile \in Inodes \cup {None}
  /\ content  \in [Inodes -> Seq(Sources \cup {Hole})]
  /\ owner    \in Users \cup {None}
  /\ chain    \in [Nodes -> Seq(Requests)]
  /\ node     \in [Requests -> Nodes \cup {None}]
  /\ done     \in [Requests -> Nat]
  /\ pc       \in [Requests -> {"idle", "waiting"} \cup Answering \cup Locked
                                 \cup Terminal]
  /\ fd       \in [Requests -> Inodes \cup {None}]
  /\ socket   \in [Requests -> {"open", "ended", "reset", "unheard"}]
  /\ client   \in [Sources -> {"asking", "picked", "pushing", "confirmed",
                                "refused", "gaveUp"}]
  /\ attempt  \in [Sources -> 1 .. MaxAttempts]

\* withFileLock(): one process never runs two uploads of the name at once,
\* whatever drops, is reset, throws or dies.
ChainSerial ==
  \A r, q \in Requests :
    (pc[r] \in Locked /\ pc[q] \in Locked /\ node[r] = node[q]) => r = q

WholeFile(s) == [i \in 1 .. Size[s] |-> s]

\* A half-written file is never served as complete: what has the real name
\* is, chunk for chunk, a file that somebody uploaded.
FinalIsWhole ==
  finalFile # None => \E s \in Sources : content[finalFile] = WholeFile(s)

\* The size of the .part file is the resume point: nobody is told to go on
\* behind a chunk that is missing.
ResumeIsExact ==
  partFile # None =>
    \E s \in Sources : \A i \in 1 .. Len(content[partFile]) :
      content[partFile][i] = s

\* When the last byte has arrived the .part file is there and as long as the
\* local file, however many uploads of the name were queued or cut off.
CompleteOnDisk ==
  \A r \in Requests : pc[r] \in {"removing", "renaming"} =>
    partFile # None /\ Len(content[partFile]) = Size[Source(r)]

\* What upload.aborted reports as resume_at is the size of the .part file.
AbortIsResumePoint ==
  \A r \in Requests : pc[r] = "receiving" =>
    partFile # None /\ Len(content[partFile]) = done[r]

Lengths == {Size[s] : s \in Sources}

\* What downloads rely on (StoredFile): a file gets its real name when it is as
\* long as what somebody uploads, no write or truncate reaches its bytes from
\* then on, and it is replaced by way of no file at all.
Promise == INSTANCE StoredFile WITH
  Wholes <- UNION {[1 .. k -> Sources \cup {Hole}] : k \in Lengths},
  NoFile <- None,
  stored <- IF finalFile = None THEN None ELSE content[finalFile]

StoredAsWhole == Promise!Spec

\* Once an upload was confirmed, <name> exists; it is missing only while a
\* later upload is between the rm and the rename of finalize().
ConfirmedStays ==
  (\E s \in Sources : client[s] = "confirmed") =>
    finalFile # None \/ \E r \in Requests : pc[r] = "renaming"

Settled(s) == client[s] \in {"confirmed", "refused", "gaveUp"}

\* receiveBytes waits for an event that does not come: there is nothing left to
\* send, since a dead node left the .part file complete, or the connection was
\* over before it listened.
Stuck == \E r \in Requests :
  pc[r] = "receiving" /\ (done[r] = Size[Source(r)] \/ socket[r] = "unheard")

\* Every upload is confirmed, refused, or given up after the retries, unless a
\* receiveBytes hangs for good, which also holds the chain of the name.
SettlesUnlessStuck == \A s \in Sources : <>Settled(s) \/ <>[]Stuck
=============================================================================
