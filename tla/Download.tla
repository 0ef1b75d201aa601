------------------------------ MODULE Download ------------------------------
(***************************************************************************)
(* Downloads of one file by one user: download() and _pull() of            *)
(* src/src/client/client.js, handleDownload of src/src/server/handlers.js, *)
(* and what src/src/server/monitor.js makes of its events, while uploads   *)
(* replace the stored file (finalize() of src/src/server/storage.js).      *)
(*                                                                         *)
(* A chunk is <<version, position>>, as the node reads it.  A read stream  *)
(* stays on the version that it opened.  The client keeps <target>.part    *)
(* between attempts and between runs; a run that is killed has lost what   *)
(* was not yet written, which is the same as not having received it.       *)
(***************************************************************************)
EXTENDS Naturals, Sequences, FiniteSets

CONSTANTS
  Nodes,
  Versions,     \* the files that uploads store under the name
  Size,         \* Size[v]: chunks in version v
  MaxAttempts,  \* RETRIES + 1
  MaxRuns,      \* bound on how often the user starts the download
  MaxFaults,    \* bound on the number of faults
  Faults,       \* what the environment may do, a subset of FaultKinds
  None,         \* no file, no node
  Hole          \* a chunk nobody has written

\* "drop":  a connection breaks
\* "crash": a node process is killed and started again
FaultKinds == {"drop", "crash"}

Chunks == (Versions \X (Nat \ {0})) \cup {Hole}

ASSUME VersionsAssumption == Versions # {}
ASSUME SizeAssumption == Size \in [Versions -> Nat \ {0}]
ASSUME BoundsAssumption ==
  MaxAttempts \in Nat \ {0} /\ MaxRuns \in Nat \ {0} /\ MaxFaults \in Nat
ASSUME DownloadFaultsAssumption == Faults \subseteq FaultKinds
ASSUME NoneAssumption == None \notin Versions \cup Nodes \cup Seq(Chunks)
ASSUME HoleAssumption == Hole \notin Versions \X Nat

\* <<n, k>> is the k-th attempt of the n-th run.
Requests == (1 .. MaxRuns) \X (1 .. MaxAttempts)

VARIABLES
  stored,    \* the version that has the real name on the storage disk
  part,      \* <target>.part of the client
  target,    \* the finished copy is there
  client,    \* where the loop of download() is
  request,   \* the attempt under way
  offset,    \* of the _pull() under way: the resume point,
  received,  \* the counter of receiveBytes(),
  total,     \* the size in the ok header,
  fd,        \* the version that the node's read stream is open on,
  pos,       \* and CountingStream.count, which goes on from the offset
  pc,        \* where the handler of a request is
  node,      \* the process that serves it, None when it died
  monitor,   \* what the monitor of each node shows of these downloads
  faults,
  touched    \* history: the file was replaced in a way that can matter

local  == <<part, target>>
loop   == <<client, request>>
pull   == <<offset, received, total, fd, pos>>
server == <<pc, node, monitor>>
vars   == <<stored, local, loop, pull, server, faults, touched>>

Working  == {"asking", "waiting", "truncating", "receiving", "removing",
             "renaming"}
Finished == {"done", "refused", "gaveUp", "failed", "killed"}
Running  == {"opening", "sending"}                  \* download.started is out
Closed   == {"completed", "aborted", "threw"}       \* socket.end() was called
PCs      == {"idle", "arrived", "found", "denied", "unanswered", "gone"}
              \cup Running \cup Closed

Goto(r, label) == pc' = [pc EXCEPT ![r] = label]

\* The environment does something bad.
Fault(kind) == kind \in Faults /\ faults < MaxFaults /\ faults' = faults + 1

\* (mutant: one too many)
SizeOfLater(file) == IF file = None THEN 0 ELSE Len(file) + 1

SizeOf(file) == IF file = None THEN 0 ELSE Len(file)

\* truncate(): what lies behind is dropped, what is missing is a hole.
Resized(file, k) == [i \in 1 .. k |-> IF i <= Len(file) THEN file[i] ELSE Hole]

\* A chunk written behind the first k chunks, wherever the file ends.
Written(file, k, chunk) ==
  [i \in 1 .. (IF Len(file) > k THEN Len(file) ELSE k + 1) |->
     IF i = k + 1 THEN chunk ELSE IF i <= Len(file) THEN file[i] ELSE Hole]

Cloud == INSTANCE StoredFile WITH Wholes <- Versions, NoFile <- None

NoDownloads == [started |-> 0, completed |-> 0, aborted |-> 0, live |-> FALSE]

Init ==
  /\ Cloud!Init
  /\ part = None /\ target = FALSE
  /\ client = "asking" /\ request = <<1, 1>>
  /\ offset = 0 /\ received = 0 /\ total = 0 /\ fd = None /\ pos = 0
  /\ pc    = [r \in Requests |-> "idle"]
  /\ node  = [r \in Requests |-> None]
  /\ monitor = [n \in Nodes |-> NoDownloads]
  /\ faults = 0
  /\ touched = FALSE

(***************************************************************************)
(* The monitor: one entry of the table of live transfers, because all the  *)
(* requests have the same user, file and kind.  A dead process has none.   *)
(***************************************************************************)
OnStarted(m) == [m EXCEPT !.started = @ + 1, !.live = TRUE]

\* (mutant: the entry stays)
OnCompletedKept(m) == [m EXCEPT !.completed = @ + 1]

OnCompleted(m) == [m EXCEPT !.completed = @ + 1, !.live = FALSE]

\* (mutant: no case for download.aborted)
OnAbortedIgnored(m) == m

OnAborted(m) == [m EXCEPT !.aborted = @ + 1, !.live = FALSE]

\* The client of a request reads its socket; afterwards it is destroyed.
Connected(r) ==
  r = request /\ client \in {"waiting", "truncating", "receiving"}

(***************************************************************************)
(* Uploads of the same name: whatever StoredFile allows, at any time.      *)
(***************************************************************************)
\* It makes a difference to an attempt under way, unless its stream is on the old
\* version already.
Matters ==
  Connected(request) /\ ~(client = "receiving" /\ pc[request] \in {"sending", "completed"})

RemoveStored ==
  /\ Cloud!Remove
  /\ touched' = (touched \/ Matters)
  /\ UNCHANGED <<local, loop, pull, server, faults>>

RenameStored ==
  /\ Cloud!Promote
  /\ UNCHANGED <<local, loop, pull, server, faults, touched>>

(***************************************************************************)
(* handleDownload.  Of a handler whose client is gone only the end matters. *)
(***************************************************************************)
\* reload(), exists(), canRead(): one answer, whichever says no.
Check(r) ==
  /\ pc[r] = "arrived"
  /\ \/ stored # None /\ Goto(r, "found")
     \/ Goto(r, "denied")
  /\ UNCHANGED <<stored, local, loop, pull, node, monitor, faults, touched>>

\* storage.size(): 0 for a file that is gone by now.
StoredSize == IF stored = None THEN 0 ELSE Size[stored]

Header(r) ==
  /\ pc[r] = "found"
  /\ total' = IF Connected(r) THEN StoredSize ELSE total
  /\ monitor' = [monitor EXCEPT ![node[r]] = OnStarted(@)]
  /\ Goto(r, "opening")
  /\ UNCHANGED <<stored, local, loop, offset, received, fd, pos, node, faults, touched>>

\* A file that is gone makes the handler throw: no event.
Open(r) ==
  /\ pc[r] = "opening"
  /\ IF stored = None
       THEN Goto(r, "threw") /\ UNCHANGED fd
       ELSE Goto(r, "sending") /\ fd' = IF Connected(r) THEN stored ELSE fd
  /\ UNCHANGED <<stored, local, loop, offset, received, total, pos, node, monitor, faults,
                 touched>>

Send(r) ==
  /\ pc[r] = "sending" /\ Connected(r)
  /\ pos < Size[fd]
  /\ pos' = pos + 1
  /\ UNCHANGED <<stored, local, loop, offset, received, total, fd, server, faults, touched>>

\* The rest may also go into the buffers of a connection that is gone.
Complete(r) ==
  /\ pc[r] = "sending"
  /\ Connected(r) => pos >= Size[fd]
  /\ Goto(r, "completed")
  /\ monitor' = [monitor EXCEPT ![node[r]] = OnCompleted(@)]
  /\ UNCHANGED <<stored, local, loop, pull, node, faults, touched>>

\* The node may notice that the client is gone before the file is through.
Abort(r) ==
  /\ pc[r] = "sending"
  /\ ~Connected(r)
  /\ Goto(r, "aborted")
  /\ monitor' = [monitor EXCEPT ![node[r]] = OnAborted(@)]
  /\ UNCHANGED <<stored, local, loop, pull, node, faults, touched>>

Handler(r) == Check(r) \/ Header(r) \/ Open(r) \/ Send(r) \/ Complete(r) \/ Abort(r)

(***************************************************************************)
(* download() and _pull().                                                 *)
(***************************************************************************)
\* The .part file is measured, a node is chosen, the request is sent.
Ask ==
  /\ client = "asking"
  /\ offset' = SizeOf(part) /\ pos' = offset'
  /\ \E n \in Nodes : node' = [node EXCEPT ![request] = n]
  /\ Goto(request, "arrived")
  /\ client' = "waiting"
  /\ touched' = (offset' > 0 /\ (touched \/ part[1][1] # stored))
  /\ UNCHANGED <<stored, local, request, received, total, fd, monitor, faults>>

\* _pull() has come to its end, or to where it waits for ever.
Over == offset' = 0 /\ received' = 0 /\ total' = 0 /\ fd' = None /\ pos' = 0

\* (mutant: no limit on the retries)
RetryUnlimited ==
  client' = "asking" /\ request' = <<request[1], request[2] + 1>>

Retry ==
  IF request[2] < MaxAttempts
    THEN client' = "asking" /\ request' = <<request[1], request[2] + 1>>
    ELSE client' = "gaveUp" /\ UNCHANGED request

\* The process of a request died: what it sent last may be lost.
Died(r) == pc[r] \in {"unanswered", "gone"} \/ (pc[r] # "idle" /\ node[r] = None)

NothingLeft == total <= offset

\* The answer, by readJsonLine().
ReadHeader ==
  /\ client = "waiting"
  /\ \/ /\ pc[request] = "denied"
        /\ client' = "refused" /\ Over
        /\ UNCHANGED part
     \/ /\ pc[request] \in Running \cup Closed \cup {"gone"}
        /\ \/ /\ NothingLeft
              /\ client' = "removing" /\ Over
              /\ UNCHANGED part
           \/ /\ ~NothingLeft /\ offset > 0
              /\ client' = "truncating"
              /\ UNCHANGED <<part, pull>>
           \/ /\ ~NothingLeft /\ offset = 0
              /\ client' = "receiving" /\ part' = <<>>
              /\ UNCHANGED pull
  /\ UNCHANGED <<stored, target, request, server, faults, touched>>

\* An orderly end before the answer counts as a refusal, a reset is retried.
NoAnswer ==
  /\ client = "waiting"
  /\ Fault("drop") \/ (Died(request) /\ UNCHANGED faults)
  /\ Retry \/ (client' = "refused" /\ UNCHANGED request)
  /\ Over
  /\ UNCHANGED <<stored, local, server, touched>>

Truncate ==
  /\ client = "truncating"
  /\ part' = Resized(part, offset)
  /\ client' = "receiving"
  /\ UNCHANGED <<stored, target, request, pull, server, faults, touched>>

\* The end of the connection comes during the truncate, when nobody listens: a
\* reset, or an orderly end with nothing before it left to read.  receiveBytes()
\* then waits for a socket that is through.
EndUnheard ==
  /\ client = "truncating"
  /\ \/ Fault("drop")
     \/ Died(request) /\ UNCHANGED faults
     \/ pc[request] \in Closed /\ pos = offset /\ UNCHANGED faults
  /\ client' = "hung" /\ Over
  /\ UNCHANGED <<stored, local, request, server, touched>>

\* (mutant: the read stream starts at 0 whatever was asked for)
ChunkFromStart == <<fd, received + 1>>

\* What the node sent at this place of the body: its read stream started at the
\* offset of the request.
Chunk == <<fd, offset + received + 1>>

\* (mutant: one chunk early)
AllReceivedEarly(k) == k + 1 >= total - offset

\* receiveBytes(socket, file, total - offset).
AllReceived(k) == k >= total - offset

\* The write stream started at the offset as well.
Receive ==
  /\ client = "receiving"
  /\ offset + received < pos
  /\ part' = Written(part, offset + received, Chunk)
  /\ IF AllReceived(received + 1)
       THEN client' = "removing" /\ Over
       ELSE received' = received + 1 /\ UNCHANGED <<client, offset, total, fd, pos>>
  /\ UNCHANGED <<stored, target, request, server, faults, touched>>

\* (mutant: no 'end' listener)
BodyEndedNever == FALSE

\* The node has ended the connection and everything it sent was read.
BodyEnded == pc[request] \in Closed /\ offset + received >= pos

\* PartialTransferError.
Cut ==
  /\ client = "receiving"
  /\ Fault("drop") \/ ((Died(request) \/ BodyEnded) /\ UNCHANGED faults)
  /\ Retry /\ Over
  /\ UNCHANGED <<stored, local, server, touched>>

RemoveTarget ==
  /\ client = "removing"
  /\ target' = FALSE
  /\ client' = "renaming"
  /\ UNCHANGED <<stored, part, request, pull, server, faults, touched>>

\* ENOENT leaves the loop as an error.
RenamePart ==
  /\ client = "renaming"
  /\ IF part = None
       THEN client' = "failed" /\ UNCHANGED local
       ELSE client' = "done" /\ target' = TRUE /\ part' = None
  /\ UNCHANGED <<stored, request, pull, server, faults, touched>>

\* The user kills the client, also one that hangs.
Kill ==
  /\ client \in Working \cup {"hung"}
  /\ client' = "killed" /\ Over
  /\ UNCHANGED <<stored, local, request, server, faults, touched>>

\* The same command again.
Rerun ==
  /\ client \in Finished
  /\ request[1] < MaxRuns
  /\ request' = <<request[1] + 1, 1>>
  /\ client' = "asking"
  /\ UNCHANGED <<stored, local, pull, server, faults, touched>>

(***************************************************************************)
(* A node process dies and is started again.                               *)
(***************************************************************************)
Crash(n) ==
  /\ Fault("crash")
  /\ pc' = [r \in Requests |->
              CASE node[r] = n /\ pc[r] \in {"arrived", "found"} -> "unanswered"
                [] node[r] = n /\ pc[r] \in Running -> "gone"
                [] OTHER -> pc[r]]
  /\ node' = [r \in Requests |-> IF node[r] = n THEN None ELSE node[r]]
  /\ monitor' = [monitor EXCEPT ![n] = NoDownloads]
  /\ UNCHANGED <<stored, local, loop, pull, touched>>

Loop ==
  \/ Ask \/ ReadHeader \/ NoAnswer \/ Truncate \/ EndUnheard \/ Receive \/ Cut
  \/ RemoveTarget \/ RenamePart

Next ==
  \/ \E r \in Requests : Handler(r)
  \/ Loop \/ Kill \/ Rerun
  \/ RemoveStored \/ RenameStored
  \/ \E n \in Nodes : Crash(n)

Spec == Init /\ [][Next]_vars

\* The event loops run every ready callback; no fault is needed to go on.
FairSpec ==
  Spec /\ WF_vars(Loop /\ UNCHANGED faults) /\ WF_vars(\E r \in Requests : Handler(r))

-----------------------------------------------------------------------------
(***************************************************************************)
(* Properties.                                                             *)
(***************************************************************************)
Files == Seq(Chunks) \cup {None}

\* Every variable has the shape the code gives it.
TypeOK ==
  /\ stored \in Versions \cup {None}
  /\ part \in Files /\ target \in BOOLEAN
  /\ client \in Working \cup Finished \cup {"hung"}
  /\ request \in Requests /\ offset \in Nat /\ received \in Nat
  /\ pc \in [Requests -> PCs] /\ node \in [Requests -> Nodes \cup {None}]
  /\ total \in Nat /\ fd \in Versions \cup {None} /\ pos \in Nat
  /\ monitor \in [Nodes -> [started : Nat, completed : Nat, aborted : Nat,
                            live : BOOLEAN]]
  /\ faults \in Nat /\ touched \in BOOLEAN

\* The size of the client's .part file is a resume point: without a hole, what
\* is at position i of it was at position i of some version, after any drops,
\* kills, crashes and replacements.
PartIsExact ==
  part # None => \A i \in 1 .. Len(part) : part[i] \in Versions \X {i}

Whole(v) == [i \in 1 .. Size[v] |-> <<v, i>>]

\* A half-downloaded file is never taken for the real thing: what is about to
\* get the real name is one whole version, unless the stored file was replaced
\* before the stream of an attempt was open, or between two attempts.
RenamedIsWhole ==
  (client \in {"removing", "renaming"} /\ ~touched) =>
    \E v \in Versions : part = Whole(v)

\* Every download ends, unless the connection ends unheard while a resumed
\* download truncates its .part file.
DownloadEnds == <>[](client \in Finished \cup {"hung"})

Serving(n, places) == {r \in Requests : node[r] = n /\ pc[r] \in places}

\* What the monitor counted adds up: every download that was started has been
\* completed or aborted, still runs, or is one whose handler threw.
CountersAddUp ==
  \A n \in Nodes :
    monitor[n].started = monitor[n].completed + monitor[n].aborted
                           + Cardinality(Serving(n, Running \cup {"threw"}))

\* The table of live transfers shows a download only when one runs, or one
\* threw; and it misses a running one only because another one of the same
\* user and file has ended.
LiveListExplained ==
  \A n \in Nodes :
    /\ monitor[n].live => Serving(n, Running \cup {"threw"}) # {}
    /\ (~monitor[n].live /\ Serving(n, Running) # {}) =>
         Serving(n, {"completed", "aborted"}) # {}
=============================================================================
