------------------------------ MODULE Failover ------------------------------
(***************************************************************************)
(* How a client gets away from a node that dies: the health loop and the   *)
(* choice of src/src/balancer/balancer.js, the connection counters of      *)
(* src/src/server/node.js, and the retry loops of src/src/client/client.js *)
(* (upload, download), with what is inside and what is outside their `try`. *)
(*                                                                         *)
(* Time counts in ticks.  A message takes less than a tick, a transfer any *)
(* number of ticks; a tick passes only when nobody has a message to handle *)
(* and no timer is due.  The bytes of a transfer are in Upload.            *)
(***************************************************************************)
EXTENDS Naturals, FiniteSets

CONSTANTS
  Nodes,
  NoNode,
  Clients,
  Operation,    \* Operation[c]: "upload" or "download"
  MaxAttempts,  \* RETRIES + 1
  PauseTicks,   \* RETRY_PAUSE
  HealthTicks,  \* HEALTH_INTERVAL
  MaxCrashes    \* bound on the number of node crashes

ASSUME OperationAssumption == Operation \in [Clients -> {"upload", "download"}]
ASSUME TimingAssumption ==
  /\ PauseTicks \in Nat \ {0} /\ HealthTicks \in Nat \ {0}
  /\ MaxAttempts \in Nat \ {0} /\ MaxCrashes \in Nat
ASSUME NodesAssumption == IsFiniteSet(Clients) /\ NoNode \notin Nodes

VARIABLES
  up,        \* up[n]: the process runs
  deadFor,   \* ticks since it died (no further than HealthTicks + 1)
  crashes,
  alive, active, pending,   \* the entries of NodeRegistry
  ping,      \* ping[n]: the health check of n in this round
  timer,     \* ticks until the next round
  client,    \* where each client is
  target,    \* the node it was told, until it is done with it
  link,      \* its connection still stands
  attempt,   \* its loop variable
  left,      \* ticks left of its pause
  burst      \* history: the nodes handed out since the last answer to a ping

vars == <<up, deadFor, crashes, alive, active, pending, ping, timer, client, target,
          link, attempt, left, burst>>
process  == <<up, deadFor, crashes>>
registry == <<alive, active, pending, ping, timer, burst>>
clients  == <<client, target, link, attempt, left>>

Connected == {"statAsked", "asked", "moving"}   \* between connect and close
Instant   == {"stat", "statDial", "statAsked", "pick", "dial", "asked"}
\* "noReply": refused for want of an answer; "thrown": an error left the loop.
Outcomes  == {"done", "refused", "noReply", "failed", "thrown"}
Places    == {"idle", "moving", "paused"} \cup Instant \cup Outcomes

Silent == [state |-> "none", alive |-> FALSE, active |-> 0]

Move(c, place) == client' = [client EXCEPT ![c] = place]

\* The first health round is over, and all nodes answered.
Init ==
  /\ up = [n \in Nodes |-> TRUE] /\ deadFor = [n \in Nodes |-> 0] /\ crashes = 0
  /\ alive = [n \in Nodes |-> TRUE] /\ active = [n \in Nodes |-> 0]
  /\ pending = [n \in Nodes |-> 0]
  /\ ping = [n \in Nodes |-> Silent] /\ timer = HealthTicks
  /\ client = [c \in Clients |-> "idle"]
  /\ target = [c \in Clients |-> NoNode]
  /\ link = [c \in Clients |-> FALSE]
  /\ attempt = [c \in Clients |-> 1] /\ left = [c \in Clients |-> 0]
  /\ burst = {}

(***************************************************************************)
(* NodeRegistry.pick().                                                    *)
(***************************************************************************)
\* (mutant: the clients handed out since the last ping do not count)
LoadWithoutPending(n) == active[n]

Load(n) == active[n] + pending[n]

\* A tie, which the code breaks by `served`, is broken either way.
Best == {n \in Nodes : alive[n] /\ \A m \in Nodes : alive[m] => Load(n) <= Load(m)}

\* "no healthy node available" is a refusal, and pickNode() is outside the try.
Where(c) ==
  /\ client[c] \in {"stat", "pick"}
  /\ \/ \E n \in Best :
          /\ target'  = [target EXCEPT ![c] = n]
          /\ pending' = [pending EXCEPT ![n] = @ + 1]
          /\ burst'   = burst \cup {n}
          /\ Move(c, IF client[c] = "stat" THEN "statDial" ELSE "dial")
     \/ /\ Best = {}
        /\ Move(c, "refused")
        /\ UNCHANGED <<target, pending, burst>>
  /\ UNCHANGED <<process, alive, active, ping, timer, link, attempt, left>>

(***************************************************************************)
(* The client's loop.                                                      *)
(***************************************************************************)
\* A round of the loop; only upload() asks for the state first.
Begin(c) == Move(c, IF Operation[c] = "upload" THEN "stat" ELSE "pick")

Start(c) ==
  /\ client[c] = "idle"
  /\ Begin(c)
  /\ UNCHANGED <<process, registry, target, link, attempt, left>>

\* (mutant: two attempts less)
LastAttemptTooEarly(c) == attempt[c] + 2 >= MaxAttempts

LastAttempt(c) == attempt[c] >= MaxAttempts

\* socket.destroy(); `node` goes out of scope.
Release(c) ==
  /\ link'   = [link EXCEPT ![c] = FALSE]
  /\ target' = [target EXCEPT ![c] = NoNode]

\* The catch of the loop.
Retry(c) ==
  IF LastAttempt(c)
    THEN Move(c, "failed") /\ UNCHANGED left
    ELSE Move(c, "paused") /\ left' = [left EXCEPT ![c] = PauseTicks]

Wake(c) ==
  /\ client[c] = "paused" /\ left[c] = 0
  /\ attempt' = [attempt EXCEPT ![c] = @ + 1]
  /\ Begin(c)
  /\ UNCHANGED <<process, registry, target, link, left>>

\* connect(): a dead node refuses.  _remoteState() is outside the try.
Dial(c) ==
  /\ client[c] \in {"statDial", "dial"}
  /\ IF up[target[c]]
       THEN /\ link' = [link EXCEPT ![c] = TRUE]
            /\ Move(c, IF client[c] = "dial" THEN "asked" ELSE "statAsked")
            /\ UNCHANGED <<target, left>>
       ELSE /\ Release(c)
            /\ IF client[c] = "dial" THEN Retry(c)
                                     ELSE Move(c, "thrown") /\ UNCHANGED left
  /\ UNCHANGED <<process, registry, attempt>>

\* The node answers the header, or the whole body has been confirmed.
Answer(c) ==
  /\ client[c] \in Connected /\ link[c]
  /\ \/ client[c] = "statAsked" /\ Move(c, "pick") /\ Release(c)
     \/ client[c] = "asked" /\ Move(c, "moving") /\ UNCHANGED <<link, target>>
     \/ client[c] = "asked" /\ Move(c, "refused") /\ Release(c)
     \/ client[c] = "moving" /\ Move(c, "done") /\ Release(c)
  /\ UNCHANGED <<process, registry, attempt, left>>

Lost(c) == ~link[c]

\* The node died: the client sees an orderly end or a reset.  readJsonLine
\* turns the first into null, which is taken for a refusal (or an empty state).
Broken(c) ==
  /\ client[c] \in Connected /\ Lost(c)
  /\ \/ client[c] \in {"asked", "moving"} /\ Retry(c)
     \/ client[c] = "asked" /\ Move(c, "noReply") /\ UNCHANGED left
     \/ client[c] = "statAsked" /\ Move(c, "pick") /\ UNCHANGED left
     \/ client[c] = "statAsked" /\ Move(c, "thrown") /\ UNCHANGED left
  /\ Release(c)
  /\ UNCHANGED <<process, registry, attempt>>

(***************************************************************************)
(* checkAll(): every node is pinged at once, each entry is updated when its *)
(* answer is there, and the timer is set when all are.                      *)
(***************************************************************************)
\* (mutant: the end of a ping is counted, though its begin is not)
ActiveCountAfterPing(n) ==
  Cardinality({c \in Clients : client[c] \in Connected /\ link[c] /\ target[c] = n}) - 1

\* NodeContext.activeCount(): pings do not count.
ActiveCount(n) ==
  Cardinality({c \in Clients : client[c] \in Connected /\ link[c] /\ target[c] = n})

SendPings ==
  /\ timer = 0
  /\ \A n \in Nodes : ping[n].state = "none"
  /\ ping' = [n \in Nodes |-> [Silent EXCEPT !.state = "sent"]]
  /\ UNCHANGED <<process, clients, alive, active, pending, timer, burst>>

Pong(n) ==
  /\ ping[n].state = "sent"
  /\ ping' = [ping EXCEPT ![n] = [state |-> "back", alive |-> up[n],
                                  active |-> IF up[n] THEN ActiveCount(n) ELSE 0]]
  /\ UNCHANGED <<process, clients, alive, active, pending, timer, burst>>

\* (mutant: a node that does not answer is kept)
AliveAfterOptimistic(n) == alive[n] \/ ping[n].alive

AliveAfter(n) == ping[n].alive

\* The guesses are forgotten only when the node answered.
Update(n) ==
  /\ ping[n].state = "back"
  /\ alive'   = [alive EXCEPT ![n] = AliveAfter(n)]
  /\ active'  = [active EXCEPT ![n] = ping[n].active]
  /\ pending' = IF ping[n].alive THEN [pending EXCEPT ![n] = 0] ELSE pending
  /\ ping'    = [ping EXCEPT ![n] = Silent]
  /\ timer'   = IF \A m \in Nodes \ {n} : ping[m].state = "none" THEN HealthTicks
                                                                 ELSE timer
  /\ burst'   = {}
  /\ UNCHANGED <<process, clients>>

(***************************************************************************)
(* Processes and time.                                                     *)
(***************************************************************************)
Crash(n) ==
  /\ up[n] /\ crashes < MaxCrashes
  /\ crashes' = crashes + 1
  /\ up' = [up EXCEPT ![n] = FALSE]
  /\ link' = [c \in Clients |-> link[c] /\ target[c] # n]
  /\ UNCHANGED <<deadFor, registry, client, target, attempt, left>>

Restart(n) ==
  /\ ~up[n]
  /\ up' = [up EXCEPT ![n] = TRUE]
  /\ deadFor' = [deadFor EXCEPT ![n] = 0]
  /\ UNCHANGED <<crashes, registry, clients>>

Quiet ==
  /\ timer > 0
  /\ \A n \in Nodes : ping[n].state = "none"
  /\ \A c \in Clients :
       /\ client[c] \notin Instant
       /\ client[c] = "moving" => link[c]
       /\ client[c] = "paused" => left[c] > 0

Tick ==
  /\ Quiet
  /\ timer' = timer - 1
  /\ left' = [c \in Clients |-> IF client[c] = "paused" THEN left[c] - 1 ELSE left[c]]
  /\ deadFor' = [n \in Nodes |-> IF up[n] \/ deadFor[n] > HealthTicks
                                   THEN deadFor[n] ELSE deadFor[n] + 1]
  /\ UNCHANGED <<up, crashes, alive, active, pending, ping, burst, client, target,
                 link, attempt>>

Step(c) == Where(c) \/ Wake(c) \/ Dial(c) \/ Answer(c) \/ Broken(c)

Next ==
  \/ \E c \in Clients : Start(c) \/ Step(c)
  \/ SendPings \/ Tick
  \/ \E n \in Nodes : Pong(n) \/ Update(n) \/ Crash(n) \/ Restart(n)

Spec == Init /\ [][Next]_vars

-----------------------------------------------------------------------------
(***************************************************************************)
(* Properties.                                                             *)
(***************************************************************************)
\* Every variable has the shape the code gives it; no counter goes below 0.
TypeOK ==
  /\ up \in [Nodes -> BOOLEAN] /\ deadFor \in [Nodes -> Nat] /\ crashes \in Nat
  /\ alive \in [Nodes -> BOOLEAN]
  /\ active \in [Nodes -> Nat] /\ pending \in [Nodes -> Nat]
  /\ ping \in [Nodes -> [state : {"none", "sent", "back"}, alive : BOOLEAN,
                         active : Nat]]
  /\ timer \in 0 .. HealthTicks
  /\ client \in [Clients -> Places] /\ target \in [Clients -> Nodes \cup {NoNode}]
  /\ link \in [Clients -> BOOLEAN]
  /\ attempt \in [Clients -> 1 .. MaxAttempts] /\ left \in [Clients -> 0 .. PauseTicks]
  /\ burst \subseteq Nodes

\* A node that died is not offered any more once a health interval has passed,
\* whatever pings were under way when it died.
DeadIsDropped ==
  \A n \in Nodes : (~up[n] /\ deadFor[n] > HealthTicks) => ~alive[n]

\* Clients that arrive together are spread: since the last ping came back, no
\* node was handed out that had two connections more than another one.
BurstIsSpread ==
  \A n, m \in Nodes :
    (alive[n] /\ alive[m] /\ n \in burst) =>
      active[n] + pending[n] <= active[m] + pending[m] + 1

\* The four attempts are enough for the death of one node: wherever the client
\* was and whatever the balancer knew, none runs out of them.
AttemptsSuffice == \A c \in Clients : client[c] # "failed"

\* What the documents promise: the death of one node ends no transfer.  The
\* code breaks it, since the STAT of a round is outside the `try` of upload(),
\* and an answer that did not come is taken for a refusal.
CrashIsSurvived == \A c \in Clients : client[c] \notin {"failed", "thrown", "noReply"}
=============================================================================
