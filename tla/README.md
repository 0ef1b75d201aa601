# A verification project for File_System_Lab

File_System_Lab is a small "local cloud": three Node.js storage nodes over one
shared directory, a balancer that tells a client which node to talk to, a client
that uploads and downloads with resume and retries, and a dashboard. This
directory holds TLA+ models of it, TLC configurations that check them on small
instances, and TLAPS proofs of the properties that matter most.

Paths such as `policy.js:57` are relative to `src/src/server/`, `src/src/client/`,
`src/src/balancer/`, `src/src/common/` and `src/src/dashboard/`.

## 1. Inventory

| Part | State it keeps | Operations | Modelled by |
|---|---|---|---|
| Sharing policy, `policy.js` | `_rules`, `_queue` per process; `policies.json` and its lock file on disk | `reload`, `claim`, `share`, `setPublic`, `canRead`, `canWrite`, `visibleTo` | `SharingRules`, `AtomicRules`, `PolicyStore` |
| Storage, `storage.js` | `<name>.part`, `<name>`; a promise chain per name and process | `uploadedBytes`, `withFileLock`, `openForAppend`, `finalize`; `exists`, `size`, `createReadStream` (also `listFiles`; `delete` has no caller) | `StoredFile`, `Upload`, `Download` |
| Handlers, `handlers.js` | none of their own | UPLOAD, DOWNLOAD, LIST, STAT, SHARE, PUBLIC, PING | `Upload`, `Download`, `PolicyStore`, `Failover` |
| Node process, `node.js` | `_active`, `_served` | `handleConnection`, start, stop | `Failover` (counters, crash, restart), `Status` (start, stop) |
| Wire protocol, `protocol.js` | position in the stream, pause flag, file buffer | `sendJson`, `readJsonLine`, `receiveBytes` | `Transfer` |
| Balancer, `balancer.js` | per node `alive`, `active`, `served`, `pending`; `balancer.json` | `pick`, `checkAll`, health loop, `writeStatus` | `Failover`, `Status` |
| Client, `client.js` | attempt number, local `.part` | `upload`, `download`, metadata requests | `Upload`, `Download` (bytes), `Failover` (time), `Transfer` (receiving) |
| Monitor, `monitor.js` | counters, table of live transfers, status file | `onEvent`, `writeStatus`, `removeStatusFile` | `Download` (events), `Status` (file) |
| Dashboard, `dashboard.js`, `index.html` | none | `collectStatus`, `draw` | `Status` (the badges) |
| Event bus, `events.js` | listeners | `publish` | `Download` (a synchronous call) |
| Configuration, start script, benchmark | constants | | not modelled |

How they interact. A client asks the balancer (`WHERE`), connects to the node it is
told and sends one JSON line; an upload or download body follows on the same
connection. The nodes never talk to each other: they share the directory, that is
`policies.json`, its lock file, and the `.part` and final files. Inside a node every
`await` is a point where another request may run. The balancer learns of the nodes
only by a ping every two seconds. Handlers publish events on a synchronous bus; the
monitor turns them into a status file that the dashboard reads.

What is hard here: requests of one process that interleave at an `await`; processes
that race on the shared directory; a node that is killed between two disk
operations; a connection that is dropped or reset, noticed late, or not at all; a
client's retries racing the balancer's stale view; and flow control, where a lost
wake-up stops a transfer for ever. `PROJECT.json` lists every such hazard with its
line and the properties that watch it.

What makes each part correct:

* policy: no confirmed claim or grant is lost, a file has one first owner, only
  somebody with write access overwrites, no request waits for ever for the lock;
* storage: what has the real name is a whole file, the length of `.part` is the
  resume point, a stored file is replaced only as a whole;
* protocol: the file is exactly the body, memory is bounded, a transfer ends;
* balancer and client: a dead node is dropped in time, a burst is spread, one crash
  does not use up the attempts of a transfer (that it ends none at all is what the
  documents say, and false: finding 4);
* download: the client's `.part` is an exact resume point, a half-downloaded file is
  never taken for the real thing, every run of the command ends;
* monitor and dashboard: what was started is accounted for, a dead node turns red by
  the age of its file alone, and the page is right once things have settled.

## 2. The modules

**SharingRules** — the rules as a function from files to records, the three
permission queries and the three mutations. Pure operators, used by both policy
modules.

**StoredFile** — what the storage promises of one name: a file is stored as a whole,
does not change while it has the real name, and is replaced by removing it first.

**AtomicRules** — what the store promises: each claim, share and visibility change
takes effect in one step on top of all earlier ones.

**PolicyStore** — `policy.js` and its use in the handlers, one action per stretch of
code between two awaits. `rules[n]` is `this._rules`, `queue[n]` the promise chain,
`rulesFile` and `lockFile` the disk. A save is two steps, because `writeFile`
truncates first; `Torn` is what a reader finds in between. `_load` is two steps
(`readFile`, then the assignment), and so is `_save` (`mkdir`, then the
serialisation of whatever `this._rules` is by then). `Faults` switches crashes, waits
longer than `LOCK_TIMEOUT_MS`, and failing disk operations on and off: those on
`policies.json` ("ioerror"), and those on the lock file ("lockerror"), which is the open
that fails with something else than `EEXIST`, the `rm` of a waiter, and the `close` and
`rm` of the `finally`. The last two leave the lock file behind (`UnlockFails`). The
deadline of a waiter is one for its whole wait: after the `continue` it has still
passed (`pc = "late"`), and the next lock file it meets is removed at once.
`UpdatesAreAtomic` is the refinement of `AtomicRules`: an update takes effect when
its save starts.

**Upload** — one file name. `partFile` and `finalFile` are directory entries that
refer to inodes, since a write stream stays on its inode after a rename; an inode's
content is a sequence of chunks, each known by the local file it comes from.
Handlers go through the permission check, the offset check, the chain, truncate,
open, the chunks, `rm`, `rename`, `stat`, `claim`; the client's loop asks for the
state, is given any node, pushes, and retries. The policy is reduced to the owner of
the name, with a fixed set of `Writers`; `claim` rejects under the fault "noclaim", and
under "reload" another request's `reload` undoes it before it is saved (finding 1). A
connection that is over before `receiveBytes` listens, by a reset or by an orderly end
with nothing left to read, may become "unheard" (`EndUnheard`): `receiveBytes` gets no
event any more. The loop's order of calls is the
code's; which of them is inside the `try` is in `Failover`. `StreamFails` is an error
of the `.part` stream (a full disk, or no file to resume): nobody listens for it, and
the process dies. `StoredAsWhole` is the refinement of `StoredFile`: the `rm` of
`finalize` is its `Remove`, the `rename` its `Promote`.

**Transfer** — one direction of one connection. Units of the stream are numbered, so
"the file is the body" can be said directly. `next` is what was taken from the socket
less what was given back by `unshift`; `flowing` is `pause`/`resume`; `buffered` and
`needDrain` are the file stream. `phase = "between"` is the time between
`readJsonLine` and `receiveBytes`, when only the empty listener of
`handleConnection` is there: a reset, or the `'end'` that a paused socket with nothing
unread emits at once, is lost there (`EndUnheard`).

**Download** — one user, one file, any number of runs of the command. A chunk is
<<version, position>> as the node reads it, so that a mixture of two versions can be
told from a whole file. The three places where an offset is used are apart: the length
of `.part` when it is measured (`SizeOf`), the start of the node's read stream (`Chunk`,
`pos`) and the truncate and start of the client's write stream (`Resized`, `Written`);
that they fit together is what `PartIsExact` says. `request` is <<run, attempt>>; the
handler of every request keeps its own `pc`, because it may outlive its client. The
header (`size`, `download.started`) and the opening of the read stream are two steps,
and an upload of the same name may come between them: the stored file begins as
`StoredFile!Init` and takes its `Remove` and `Promote` at any time, with no other guard.
The events are part of the step that publishes them: `publish` is a synchronous call,
and all requests of the model share one entry of the monitor's table, since its key is
user, file and kind. `touched` is a history variable: the stored file was replaced
between two attempts, or before the stream of the attempt was open.

**Status** — the nodes' status files, `balancer.json`, the life of the processes, and
what the page makes of them, in ticks of 500 ms. A file is its age; `temp` is the
snapshot in the temporary file while `_writing` is set, and a write takes less than a
tick unless the disk is slow. `asked` are the pings of a round that are not answered: a
node that hangs accepts the connection and answers nothing until `PING_TIMEOUT_MS`.
`Stale`, `Reachable`, `ShownUp` and `BalancerShown` are the expressions of
`collectStatus` and `draw`. `off` and `steady` are history variables.

**Failover** — the balancer's entries, the health rounds, the nodes' connection
counters and the clients' loops, in ticks of 500 ms (`RETRY_PAUSE` 3,
`HEALTH_INTERVAL` 4). A message takes less than a tick, a transfer any number of
ticks: a tick passes only when nobody has a message to handle. A dead node refuses
connections at once, as a closed port on the same host does. `served`, which only
breaks ties, is replaced by a free choice. Among the outcomes of a client, "thrown" is
an error that left the loop (the STAT of `client.js:143` is outside its `try`), "noReply"
a refusal for want of an answer (`client.js:180`), "refused" one that was answered,
"failed" the last attempt used up. `burst` and `deadFor` are history
variables that the properties need.

The modules meet at their abstractions, not in one product: `Upload` takes the
policy as atomic, which `PolicyStore` shows for requests that do not share a process
and refutes otherwise; `Upload` and `Download` take a chunk as received in order or lost
with the connection, which `Transfer` shows, and let the balancer name any node, of
which `Failover` has a subset; `Download` assumes of the stored file what `StoredFile`
promises, since the only steps that change it are the two actions of `StoredFile`, and
that promise is proved of `Upload` for one node (`OneNodeStoresWholes`) and, where no
attempts overlap, for all (`StoredFileImplemented`). A finding in a lower module is not
repeated in a higher one, except that a claim may be lost.

## 3. The runs

| Run | Instance | Shows |
|---|---|---|
| PolicySerial | 4 nodes, one request each: two claims of one new file, a grant, a download it does not admit (22,465 states) | the store refines `AtomicRules`, keeps confirmed grants, gives a file one owner |
| PolicyCrash | 2 nodes, two requests queued on one and one on the other, 1 crash, slow holders, failing operations on the rules and on the lock file (351,507 states) | the queue is serial across restarts; a lock file outlives its section only by a crash or because it could not be removed; every request is answered or dies with its node |
| UploadResume | 2 nodes, 3 attempts that do not overlap, file of 3 chunks, drops, resets, crashes, claims that fail (413,100 states) | the final file is whole, the resume point exact, uploads settle but for two cases |
| UploadOneNode | 1 node, two users with different files of one name, 2 attempts each that may overlap, drops, disk errors, claims undone by a reload (3,453,015 states) | the chain is serial and protects the length of `.part`; a confirmed file stays; the stored file refines `StoredFile` |
| Transfer | header that fits or is too long, bodies of 0, 1 and 9 units, chunks of up to 3, high-water mark 5 (2,766 states) | content, bounds and progress of one transfer |
| Failover | 3 nodes, an uploading and a downloading client, 4 attempts, 1 crash (2,291,805 states) | the dead node is dropped, bursts are spread, four attempts suffice |
| Download | 1 node, files of 3 and of 2 chunks that replace each other, 2 runs of 2 attempts, kills of the client at any step, 1 fault of drop and crash (1,529,740 states) | no hole in `.part`, only a whole version gets the real name, but for two cases; the monitor adds up; downloads end or hang in the one way named |
| Status | 2 nodes and the balancer, 2 faults of kill, stop, hang, slow and failing disk (1,874,926 states) | red by age alone, right within 6 s |
| PolicyLostGrant | violation of `AckedGrantsKept` | a grant is lost to a listing on the same node |
| PolicyTornRead | violation of `OnlyWritersOverwrite` | a truncated `policies.json` opens every file |
| UploadTwoNodes | violation of `FinalIsWhole` | two nodes write one `.part` |
| FailoverCrash | violation of `CrashIsSurvived` | the refused STAT of an upload is not retried |

Bounds, and why they are enough.

* *Requests per node* (PolicyStore). The queue's hazards need two requests in one
  process and a third elsewhere (`CrashWithQueue`); the lock's need two processes.
  `OnePerNode` has four processes, so that a lost update can skip a save.
* *MaxCrashes 1*: it leaves a lock file behind, or kills a waiter with a queue behind
  it; the slow holders give a second waiter a lock file to remove.
* *Chunks 2 and 3*: a file has a first, an inner and a last chunk, and a truncate can
  leave a proper prefix. *MaxAttempts* 2 and 3 stand for the code's 4: the first
  attempt, one that resumes, and one that resumes what was resumed. *Inodes*: one
  for every stream that can be open, and the two entries.
* *Transfer*: the body of 9 is longer than the buffer and than three chunks, one chunk
  may hold the end of the header and the start of the body, or the end of the body
  and what follows; `MaxHeader` 3 separates the two headers.
* *Failover*: the constants are the code's own, reduced by a common factor; one crash
  is what the property speaks of, the crashed node may come back at any time. The
  nodes are interchangeable (`NodeSymmetry`): nothing in the module tells them apart,
  no temporal property is checked in that run.
* *Download*: one version is shorter, so that a resume point may lie inside it, at its
  end or behind it. Two attempts in a run and two runs are every way to meet an
  older `.part`. One fault, since a kill of the client is not counted as one: it is
  bounded by the number of runs. One node: the nodes share nothing but the stored file,
  and a crash and restart gives a client what a second node would.
* *Faults of Upload*: UploadResume has the claims that fail, since a new attempt
  follows; UploadOneNode has those undone by a reload, since it takes a second request
  in the process. The promise chain and the `.part` file meet a claim that rejects as
  they meet one that is answered: the chain moves on.
* *Status*: the code's intervals in ticks; two faults, one that changes what is true and
  one that delays how it is seen. `SettleTicks` 12 is the least that holds: a round that
  waits for a node that hangs (4), the pause (4), and such a round again (4).

`CHECK_DEADLOCK FALSE` everywhere: requests, transfers and clients are finite, and
when all are over the model stops, as an idle server does.

Fairness. `PolicyStore!FairSpec` is weak fairness of each request's own steps: the
event loop runs every ready callback, the disk answers (with an error, it may be), a
client finishes sending or disconnects, and the wait for the lock file ends by its time
limit. The arrival of requests, crashes and restarts are not fair. `Upload!FairSpec` is weak fairness of each handler and of each client's loop,
and of the arrival of a chunk only while the connection is open: a client that stays
sends what it announced. `Transfer!FairSpec` asks the same of the peer, of the
callbacks and of the disk; that a peer closes or is reset is never assumed.
`Download!FairSpec` is weak fairness of the client's loop and of the handlers together;
the user, the uploads and the faults are not fair. `Failover` and `Status` are checked
for safety only and have none: their time is explicit, and a tick waits for what is due.

The exceptions in `TransferEnds`, `SettlesUnlessStuck` and `DownloadEnds` are behaviours
of the code: a body of no bytes, a `.part` file on the node that is complete already,
and a connection that is over, by a reset or by an orderly end with nothing left to
read, before `receiveBytes` listens (`node.js` between the header and the body,
`client.js:264` while `.part` is truncated). `SettlesUnlessStuck` and `DownloadEnds` ask
for `<>[]`: a state that is only passed through satisfies neither.

## 4. Findings

1. **A confirmed grant is lost** (`policy.js:57`). `_save` awaits `mkdir` before it
   serialises `this._rules`; `reload` of another request of the process does not go
   through the queue and replaces it in between.
2. **A torn read opens every file** (`policy.js:50`). `policies.json` is written in
   place, and a reader that finds it truncated takes it for empty rules.
3. **A partial file gets the real name** (`storage.js:107`). The promise chain is per
   process, the `.part` file is shared by all nodes. A single node is enough when the
   attempts of a client overlap: the offset is compared with `.part` before the request
   enters the chain (`handlers.js:52`), an older attempt ahead in the chain empties
   `.part`, and the `truncate` of the later one extends the file with zeros up to its
   offset. (`MCUploadTwoNodes.cfg` with `Nodes = {n1}`, `MaxAttempts = 3`,
   `Faults = {"drop", "overlap"}` and four inodes shows it.)
4. **One crash ends an upload** (`client.js:143`). The STAT of every round is outside
   the `try`, so a refused connection to a node that the balancer still offers ends the
   upload at once, with three attempts left and two nodes healthy. A node that dies
   before its reply does the same to uploads and downloads (`client.js:180`): the orderly
   end of the connection gives null, which is thrown as a refusal and not retried.
   `flow.md:207-221`, `decision.md:164-173` and `client.js:6-9` say otherwise. The passing
   run of `Failover` has what is left of the promise: no client runs out of attempts.

Behaviours that the models have and that no run shows on its own; a property names each
as its exception, or no property speaks of it. Of the first four the texts of the
repository say something else, at the places given.

* An upload that is complete hangs (`protocol.js:135`, against `flow.md:207-212`).
  `receiveBytes` resolves only when a chunk arrives. When a node died between the last
  byte and the rename, the next attempt has nothing to send, and both sides wait for
  ever with the name's chain blocked: `Stuck` in `SettlesUnlessStuck`. (`Upload` with
  `Nodes = {n1}`, `Sources = {x}`, `Faults = {"crash"}` and the property
  `\A s \in Sources : <>Settled(s)` shows it.)
* A connection that is over before `receiveBytes` listens is never noticed
  (`node.js:86`, against `flow.md:168-190`): the "unheard" of `TransferEnds`,
  `SettlesUnlessStuck` and `DownloadEnds`.
* A download that resumes after the file was replaced joins two versions
  (`client.js:259`), and so does the size that is sent before the stream is open
  (`handlers.js:110`), against `flow.md:114-115`: `touched` in `RenamedIsWhole`.
* A status write under way at a shutdown renames its file after the removal
  (`monitor.js:135`, against the comment at `monitor.js:143`). No property forbids it; by
  `DeadTurnsRed` the page shows such a node red after `STALE_AFTER`.
* The lock file stays when its `close` or `rm` fails (`policy.js:88-90`, a `finally` that
  is there to prevent just that): excepted in `NoOrphanLock`. The waiters get past it
  (`RequestsSettle`).
* A stored file may have no owner: a kill between `finalize` and `claim`
  (`handlers.js:89`), a claim that fails, or one that finding 1 loses.
* Two waiters that time out on the same lock file can both enter the section
  (`policy.js:106`), which is why mutual exclusion is claimed only where nobody dies,
  waits beyond the limit or fails to remove the file.
* A download whose file vanishes after `download.started` is neither completed nor
  aborted, and stays in the table of live transfers (`CountersAddUp`,
  `LiveListExplained`); the end of one of two downloads with the same key hides the
  other.
* With a node that hangs a round of pings takes as long as the balancer's file may be
  old, and its badge flickers (`dashboard.js:103`): excepted in `DashboardIsRight`.

## 5. The proofs

All theorems hold for every value of the constants that satisfies the named
assumptions of the modules.

**PolicyStoreProofs.** `TypeCorrect`; `NodeSerialCorrect` under all faults, by the
invariant that a running request is the head of its node's queue; and `LockIsReleased`
under all faults: a lock file names its creator, which is in the section, died in it, or
could not remove the file. `LockExcludes` assumes `TimelyHolders` (no crash, no wait
beyond the limit, no failing operation on the lock file; errors on the rules are
allowed), since otherwise a waiter removes a lock file that is in use: the invariant
identifies the lock file's content with the one request in the section.
`PolicyIsAtomic` assumes `QuietNodes` (no two requests share a process, no faults): the
invariant says that whoever is in the section has, in `this._rules`, its mutation
applied to what is on the disk; the two steps of a save map to one step of
`AtomicRules` and a stutter. `GrantsAreKept` and `OneOwnerPerFile` are proved on top of
it: their invariants (`OutcomeInv`, `GrantInv`) speak of outcomes and of the abstract
rules only, so each follows from the steps of `AtomicRules` and not again from those of
the lock. Finding 1 shows that the assumption is needed.

**UploadProofs.** `TypeCorrect`; `ChainSerialCorrect` under all faults, by the same
argument about the head of the chain.
`ResumedFileIsWhole` and `ResumePointIsExact` assume `OneAtATime` (one local file,
attempts that do not overlap) and hold under drops, resets and crashes at every step.
The invariant: at most one attempt is alive, `.part` is always a prefix of the local
file, the open stream's position is its length, and a handler in `finalize` holds a
complete one. `StoredFileImplemented` follows from it: what `rename` promotes is the
local file, and it finds no stored file in its way. Finding 3 shows that the
assumption is needed, on several nodes and on one.

**UploadOneNodeProofs.** The complementary case: `OneNode`, with any number of clients
that upload different files under one name, attempts that overlap, and every fault.
The promise chain is now all that keeps the requests apart. `FilesInv` is the inductive
invariant: the request inside the chain finds at each stage what the stage before left
(the length of `.part` after the truncate and after each chunk, its full length before
`rename`, no stored file between `rm` and `rename`), and nobody holds an open stream
outside `receiveBytes`. `OneInside`, from the head of the chain, gives that a step of
one request disturbs no other. From it follow `ResumePointReported`,
`FinalizeFindsPart` and `OneNodeStoresWholes`: what gets the real name has full length
and does not change. It is the length only: finding 3 shows that the content may have a
hole. `ConfirmedFileStays` assumes `NoCrash` as well (a node may die of a stream error, but
is not killed): a kill between `rm` and `rename` breaks it.

**DownloadProofs.** All under every fault and any sequence of replacements.
`TypeCorrect`; `ResumePointIsExact`, by an invariant of the loop: while an attempt runs,
its offset is no more than the length of `.part`, and while it receives, `.part` ends
where the next chunk goes, so that a chunk neither leaves a hole nor lands on a
position it does not belong to, in whatever version it comes from. `RenamedFileIsWhole`, by the invariant that as long as nothing was
touched `.part` is a prefix of one version, the stream under way is on that version,
and `total` is its size. `CountersAddUpAlways` and `LiveListExplainedAlways` account
for every step of a handler in the counters of its node, with the cardinality of the
requests that it serves. All of them hold for every behaviour of `StoredFile`, because
the stored file of `Download` is one: it is changed by the actions of that module only.

**StatusProofs.** `TypeCorrect`; `DeadTurnsRedAlways`, by the invariant that no
snapshot and no status file is younger than the time since the process was last up.
`DashboardSettles` assumes
`IntervalsSuffice`: a write is no slower than `STALE_AFTER`, `STALE_AFTER` is longer
than the health interval, and `SettleTicks` leaves room for two rounds of pings with a
pause between them. (In the code a write may take 2 ticks, the health interval and a
ping 4, `STALE_AFTER` 8: 12 is enough, and with 11 TLC finds a counterexample.)
`MonitorInv` bounds the age of every snapshot of a node that runs, and
the time a node that does not run may still be shown; `RegistryInv` bounds how long ago
each answer in a round, and each entry of the registry, was true, by where the round
stands and by the time to the next.

**TransferProofs.** All five safety properties of the run, from one invariant:
`TypeOK`, where `next` stands in each phase, the file is the body so far, and the
pause: while `receiveBytes` listens, the socket is paused only with a drain to come.

**FailoverProofs.** `TypeCorrect`; `DeadIsDroppedAlways`, by the invariant that for a
dead node that is still offered the time since its death and the time to the next
round add up to at most the interval, with what a ping under way may carry;
`BurstIsSpreadAlways` directly from the choice of the least loaded node.
`AttemptsOutlastCrash` assumes `RetriesOutlast`: one crash at most, and pauses between
the attempts that add up to more than the health interval (in the code three of 1500 ms
against 2000 ms). `RetryInv` counts: as long as the dead node is offered, the time a
client has spent in pauses since the crash is no more than the time since the crash,
which `DeadInv` bounds. So a client whose last attempt fails would have waited longer
than the node can be offered. The theorem is about attempts only; that a crash may end
a transfer in two other ways is finding 4.

Only model-checked are the liveness properties, `RequestsSettle`, `SettlesUnlessStuck`,
`TransferEnds` and `DownloadEnds`: the prover has no fairness reasoning and no `ENABLED`. Every invariant and every refinement that a
passing run checks is stated by a theorem, under the assumption named above.
No module uses a `RECURSIVE` operator, so nothing is kept from the prover by one.

## 6. What is not modelled, and why

* The contents of JSON messages, formatting, console output and progress events:
  no property is about them. A header that is not JSON ends a request as one that is
  too long does.
* `safeName`: the models speak of one name.
* `Failover` and `Status` are not composed: a node that hangs without dying is only in
  `Status`, a client's retries only in `Failover`. A balancer that names no node at all
  is not in `Upload` and `Download`.
* An orderly shutdown is a crash to the modules of the transfers: their sockets are cut
  after up to a second.
* Two runs of a download at once on the same local target, and an upload whose name
  ends in `.part`.
* The dashboard's list of files, its totals and merged events, and the monitor's list
  of recent events and progress of an entry: they are computed from what others wrote
  and decide nothing. The monitor treats the events of uploads as those of downloads.
* `delete()` of the storage has no caller.
* The configuration, the start script and the benchmark, which are constants, a
  launcher and a load generator.

## 7. Plan

Done: the policy with its refinement, the upload path, the protocol, the balancer with
the retry loops, then the download with the monitor's events, the stored file as the
abstract specification between upload and download, and the status files with the
dashboard's badges; each with its theorems. The order is that of what a user loses when
it is wrong: owners, grants and the bytes of a file first, what the page shows last.

The proofs cover every safety property the runs check.

Next, in order:

1. The registry's figures against the true connections (`pending` cleared by an older
   answer), and nodes that hang in `Failover`.
2. Runs for the behaviours of section 4 that deserve one: the upload that is complete and
   hangs, and the waiters that remove each other's lock file (`policy.js:106`).
3. Proofs about what these add, and the safety cores of the liveness properties: that a
   state in which nothing more can happen is one that the property allows.
