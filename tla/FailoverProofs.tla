--------------------------- MODULE FailoverProofs ---------------------------
(***************************************************************************)
(* Theorems about Failover, for every number of nodes, clients and         *)
(* attempts and every choice of the two intervals; that the attempts   *)
(* suffice is said of one crash, and of pauses that outlast a health round.*)
(***************************************************************************)
EXTENDS Failover, FiniteSetTheorems, TLAPS

\* A client pauses only when it has an attempt left.
PauseInv == \A c \in Clients : client[c] = "paused" => attempt[c] < MaxAttempts

InRound == \E m \in Nodes : ping[m].state # "none"

\* What the balancer knows of a dead node is as old as the last round at most:
\* the time it has been dead and the time to the next round add up to no more
\* than the interval.  A round takes no time, so a node whose answer is in or
\* whose entry is updated in this round died in this round.
DeadInv ==
  /\ \A n \in Nodes : up[n] => deadFor[n] = 0
  /\ \A n \in Nodes : (~up[n] /\ alive[n]) => deadFor[n] + timer <= HealthTicks
  /\ InRound => timer = 0
  /\ \A n \in Nodes :
       (InRound /\ ping[n].state = "none" /\ alive[n] /\ ~up[n]) => deadFor[n] = 0
  /\ \A n \in Nodes :
       (ping[n].state = "back" /\ ping[n].alive /\ ~up[n]) => deadFor[n] = 0

Pings == [state : {"none", "sent", "back"}, alive : BOOLEAN, active : Nat]

(***************************************************************************)
(* Type correctness.                                                       *)
(***************************************************************************)
LEMMA ActiveCountType == ASSUME NEW n PROVE ActiveCount(n) \in Nat
<1> DEFINE S == {c \in Clients : client[c] \in Connected /\ link[c] /\ target[c] = n}
<1>1. IsFiniteSet(S)
  BY NodesAssumption, FS_Subset
<1>2. QED
  BY <1>1, FS_CardinalityType DEF ActiveCount

LEMMA MoveType ==
  ASSUME TypeOK, NEW c \in Clients, NEW place \in Places, Move(c, place)
  PROVE  client' \in [Clients -> Places]
BY DEF TypeOK, Move

LEMMA BeginType ==
  ASSUME TypeOK, PauseInv, NEW c \in Clients, Begin(c)
  PROVE  /\ client' \in [Clients -> Places]
         /\ \A d \in Clients : client'[d] = "paused" => (d # c /\ client[d] = "paused")
BY DEF TypeOK, Begin, Move, Places, Instant

LEMMA RetryType ==
  ASSUME TypeOK, PauseInv, NEW c \in Clients, Retry(c), UNCHANGED attempt
  PROVE  /\ client' \in [Clients -> Places]
         /\ left' \in [Clients -> 0 .. PauseTicks]
         /\ PauseInv'
<1>1. CASE LastAttempt(c)
  BY <1>1 DEF Retry, Move, TypeOK, Places, Outcomes, PauseInv
<1>2. CASE ~LastAttempt(c)
  <2>1. attempt[c] < MaxAttempts /\ PauseTicks \in 0 .. PauseTicks
    BY <1>2, TimingAssumption DEF LastAttempt, TypeOK
  <2>2. QED
    BY <1>2, <2>1 DEF Retry, Move, TypeOK, Places, PauseInv
<1>3. QED
  BY <1>1, <1>2

LEMMA ReleaseType ==
  ASSUME TypeOK, NEW c \in Clients, Release(c)
  PROVE  /\ link' \in [Clients -> BOOLEAN]
         /\ target' \in [Clients -> Nodes \cup {NoNode}]
BY DEF TypeOK, Release

LEMMA MoveKeepsPause ==
  ASSUME TypeOK, PauseInv, NEW c \in Clients, NEW place \in Places \ {"paused"},
         Move(c, place), UNCHANGED attempt
  PROVE  PauseInv'
BY DEF TypeOK, PauseInv, Move

LEMMA TypeStep == ASSUME TypeOK, PauseInv, [Next]_vars PROVE TypeOK' /\ PauseInv'
<1> USE DEF process, registry, clients
<1>1. ASSUME NEW c \in Clients, Start(c) PROVE TypeOK' /\ PauseInv'
  <2>1. /\ client' \in [Clients -> Places]
        /\ \A d \in Clients : client'[d] = "paused" => (d # c /\ client[d] = "paused")
    BY <1>1, BeginType DEF Start
  <2>2. QED
    BY <1>1, <2>1 DEF Start, TypeOK, PauseInv
<1>2. ASSUME NEW c \in Clients, Where(c) PROVE TypeOK' /\ PauseInv'
  <2>1. CASE \E n \in Best : /\ target'  = [target EXCEPT ![c] = n]
                             /\ pending' = [pending EXCEPT ![n] = @ + 1]
                             /\ burst'   = burst \cup {n}
                             /\ Move(c, IF client[c] = "stat" THEN "statDial" ELSE "dial")
    <3>1. PICK n \in Nodes : /\ target'  = [target EXCEPT ![c] = n]
                             /\ pending' = [pending EXCEPT ![n] = @ + 1]
                             /\ burst'   = burst \cup {n}
                             /\ Move(c, IF client[c] = "stat" THEN "statDial" ELSE "dial")
      BY <2>1 DEF Best
    <3>2. (IF client[c] = "stat" THEN "statDial" ELSE "dial") \in Places \ {"paused"}
      BY DEF Places, Instant
    <3>3. client' \in [Clients -> Places] /\ PauseInv'
      BY <1>2, <3>1, <3>2, MoveType, MoveKeepsPause DEF Where
    <3>4. pending' \in [Nodes -> Nat] /\ target' \in [Clients -> Nodes \cup {NoNode}]
      BY <3>1 DEF TypeOK
    <3>5. QED
      BY <1>2, <3>1, <3>3, <3>4 DEF Where, TypeOK
  <2>2. CASE Move(c, "refused") /\ UNCHANGED <<target, pending, burst>>
    <3>1. client' \in [Clients -> Places] /\ PauseInv'
      BY <1>2, <2>2, MoveType, MoveKeepsPause DEF Where, Places, Outcomes
    <3>2. QED
      BY <1>2, <2>2, <3>1 DEF Where, TypeOK
  <2>3. QED
    BY <1>2, <2>1, <2>2 DEF Where
<1>3. ASSUME NEW c \in Clients, Wake(c) PROVE TypeOK' /\ PauseInv'
  <2>1. /\ client' \in [Clients -> Places]
        /\ \A d \in Clients : client'[d] = "paused" => (d # c /\ client[d] = "paused")
    BY <1>3, BeginType DEF Wake
  <2>2. attempt[c] + 1 \in 1 .. MaxAttempts
    BY <1>3, TimingAssumption DEF Wake, PauseInv, TypeOK
  <2>3. attempt' \in [Clients -> 1 .. MaxAttempts]
        /\ \A d \in Clients : d # c => attempt'[d] = attempt[d]
    BY <1>3, <2>2 DEF Wake, TypeOK
  <2>4. QED
    BY <1>3, <2>1, <2>3 DEF Wake, TypeOK, PauseInv
<1>4. ASSUME NEW c \in Clients, Dial(c) PROVE TypeOK' /\ PauseInv'
  <2>1. UNCHANGED <<process, registry, attempt>>
    BY <1>4 DEF Dial
  <2>2. CASE up[target[c]]
    <3>1. (IF client[c] = "dial" THEN "asked" ELSE "statAsked") \in Places \ {"paused"}
      BY DEF Places, Instant
    <3>2. client' \in [Clients -> Places] /\ PauseInv'
      BY <1>4, <2>2, <3>1, MoveType, MoveKeepsPause DEF Dial
    <3>3. QED
      BY <1>4, <2>1, <2>2, <3>2 DEF Dial, TypeOK
  <2>3. CASE ~up[target[c]] /\ client[c] = "dial"
    <3>1. Release(c) /\ Retry(c)
      BY <1>4, <2>3 DEF Dial
    <3>2. QED
      BY <2>1, <3>1, ReleaseType, RetryType DEF TypeOK
  <2>4. CASE ~up[target[c]] /\ client[c] # "dial"
    <3>1. Release(c) /\ Move(c, "thrown") /\ UNCHANGED left
      BY <1>4, <2>4 DEF Dial
    <3>2. client' \in [Clients -> Places] /\ PauseInv'
      BY <2>1, <3>1, MoveType, MoveKeepsPause DEF Places, Outcomes
    <3>3. QED
      BY <2>1, <3>1, <3>2, ReleaseType DEF TypeOK
  <2>5. QED
    BY <2>2, <2>3, <2>4
<1>5. ASSUME NEW c \in Clients, Answer(c) PROVE TypeOK' /\ PauseInv'
  <2>1. UNCHANGED <<process, registry, attempt, left>>
    BY <1>5 DEF Answer
  <2>2. PICK place \in {"pick", "moving", "refused", "done"} : Move(c, place)
    BY <1>5 DEF Answer
  <2>3. client' \in [Clients -> Places] /\ PauseInv'
    BY <2>1, <2>2, MoveType, MoveKeepsPause DEF Places, Outcomes, Instant
  <2>4. /\ link' \in [Clients -> BOOLEAN]
        /\ target' \in [Clients -> Nodes \cup {NoNode}]
    BY <1>5, ReleaseType DEF Answer, TypeOK
  <2>5. QED
    BY <2>1, <2>3, <2>4 DEF TypeOK
<1>6. ASSUME NEW c \in Clients, Broken(c) PROVE TypeOK' /\ PauseInv'
  <2>1. UNCHANGED <<process, registry, attempt>> /\ Release(c)
    BY <1>6 DEF Broken
  <2>2. CASE Retry(c)
    BY <2>1, <2>2, ReleaseType, RetryType DEF TypeOK
  <2>3. CASE UNCHANGED left /\ \E place \in {"noReply", "pick", "thrown"} : Move(c, place)
    <3>1. client' \in [Clients -> Places] /\ PauseInv'
      BY <2>1, <2>3, MoveType, MoveKeepsPause DEF Places, Outcomes, Instant
    <3>2. QED
      BY <2>1, <2>3, <3>1, ReleaseType DEF TypeOK
  <2>4. QED
    BY <1>6, <2>2, <2>3 DEF Broken
<1>7. CASE SendPings
  <2>1. ping' \in [Nodes -> Pings]
    BY <1>7 DEF SendPings, Silent, Pings
  <2>2. QED
    BY <1>7, <2>1 DEF SendPings, TypeOK, PauseInv, Pings
<1>8. ASSUME NEW n \in Nodes, Pong(n) PROVE TypeOK' /\ PauseInv'
  <2>1. [state |-> "back", alive |-> up[n],
         active |-> IF up[n] THEN ActiveCount(n) ELSE 0] \in Pings
    BY ActiveCountType DEF TypeOK, Pings
  <2>2. ping' \in [Nodes -> Pings]
    BY <1>8, <2>1 DEF Pong, TypeOK, Pings
  <2>3. QED
    BY <1>8, <2>2 DEF Pong, TypeOK, PauseInv, Pings
<1>9. ASSUME NEW n \in Nodes, Update(n) PROVE TypeOK' /\ PauseInv'
  <2>1. ping[n] \in Pings /\ ping' \in [Nodes -> Pings]
    BY <1>9 DEF Update, TypeOK, Silent, Pings
  <2>2. /\ alive' \in [Nodes -> BOOLEAN] /\ active' \in [Nodes -> Nat]
        /\ pending' \in [Nodes -> Nat] /\ burst' \subseteq Nodes
    BY <1>9, <2>1 DEF Update, TypeOK, Pings, AliveAfter
  <2>3. timer' \in 0 .. HealthTicks
    BY <1>9, TimingAssumption DEF Update, TypeOK
  <2>4. QED
    BY <1>9, <2>1, <2>2, <2>3 DEF Update, TypeOK, PauseInv, Pings
<1>10. ASSUME NEW n \in Nodes, Crash(n) PROVE TypeOK' /\ PauseInv'
  <2>1. link' \in [Clients -> BOOLEAN]
    BY <1>10 DEF Crash, TypeOK
  <2>2. QED
    BY <1>10, <2>1 DEF Crash, TypeOK, PauseInv
<1>11. ASSUME NEW n \in Nodes, Restart(n) PROVE TypeOK' /\ PauseInv'
  BY <1>11 DEF Restart, TypeOK, PauseInv
<1>12. CASE Tick
  <2>1. timer' \in 0 .. HealthTicks
    BY <1>12, TimingAssumption DEF Tick, Quiet, TypeOK
  <2>2. left' \in [Clients -> 0 .. PauseTicks]
    BY <1>12, TimingAssumption DEF Tick, Quiet, TypeOK
  <2>3. deadFor' \in [Nodes -> Nat]
    BY <1>12 DEF Tick, TypeOK
  <2>4. QED
    BY <1>12, <2>1, <2>2, <2>3 DEF Tick, TypeOK, PauseInv
<1>13. CASE UNCHANGED vars
  BY <1>13 DEF vars, TypeOK, PauseInv
<1>14. QED
  BY <1>1, <1>2, <1>3, <1>4, <1>5, <1>6, <1>7, <1>8, <1>9, <1>10, <1>11, <1>12, <1>13
     DEF Next, Step

LEMMA TypeInit == ASSUME Init PROVE TypeOK /\ PauseInv
<1>1. TypeOK
  <2>1. 1 \in 1 .. MaxAttempts /\ 0 \in 0 .. PauseTicks /\ HealthTicks \in 0 .. HealthTicks
    BY TimingAssumption
  <2>2. Silent \in Pings
    BY DEF Silent, Pings
  <2>3. QED
    BY <2>1, <2>2 DEF Init, TypeOK, Places, Pings
<1>2. PauseInv
  BY DEF Init, PauseInv
<1>3. QED
  BY <1>1, <1>2

LEMMA Typed == Spec => [](TypeOK /\ PauseInv)
<1>1. Init => TypeOK /\ PauseInv
  BY TypeInit
<1>2. TypeOK /\ PauseInv /\ [Next]_vars => TypeOK' /\ PauseInv'
  BY TypeStep
<1>3. QED
  BY <1>1, <1>2, PTL DEF Spec

(***************************************************************************)
(* Dead nodes.                                                             *)
(***************************************************************************)
LEMMA DeadStep == ASSUME TypeOK, DeadInv, [Next]_vars PROVE DeadInv'
<1> USE DEF process, registry, clients
<1>1. CASE UNCHANGED <<process, alive, ping, timer>>
  BY <1>1 DEF DeadInv, InRound
<1>2. CASE SendPings
  <2>1. /\ timer = 0 /\ UNCHANGED <<up, deadFor, alive, timer>>
        /\ \A n \in Nodes : ping'[n].state = "sent"
    BY <1>2 DEF SendPings, Silent
  <2>2. QED
    BY <2>1 DEF DeadInv, InRound
<1>3. ASSUME NEW n \in Nodes, Pong(n) PROVE DeadInv'
  <2>1. /\ UNCHANGED <<up, deadFor, alive, timer>>
        /\ ping[n].state = "sent" /\ ping'[n].state = "back" /\ ping'[n].alive = up[n]
        /\ \A m \in Nodes \ {n} : ping'[m] = ping[m]
    BY <1>3 DEF Pong, TypeOK
  <2>2. QED
    BY <2>1 DEF DeadInv, InRound
<1>4. ASSUME NEW n \in Nodes, Update(n) PROVE DeadInv'
  <2>1. /\ UNCHANGED <<up, deadFor>>
        /\ ping[n].state = "back" /\ ping'[n].state = "none"
        /\ alive'[n] = ping[n].alive
        /\ \A m \in Nodes \ {n} : ping'[m] = ping[m] /\ alive'[m] = alive[m]
    BY <1>4 DEF Update, TypeOK, Silent, AliveAfter
  <2>2. InRound /\ timer = 0
    BY <2>1 DEF DeadInv, InRound
  <2>3. (alive'[n] /\ ~up[n]) => deadFor[n] = 0
    BY <2>1 DEF DeadInv
  <2>4. CASE \A m \in Nodes \ {n} : ping[m].state = "none"
    <3>1. \A m \in Nodes : ping'[m].state = "none"
      BY <2>1, <2>4
    <3>2. \A m \in Nodes : (alive'[m] /\ ~up[m]) => deadFor[m] = 0
      BY <2>1, <2>2, <2>3, <2>4 DEF DeadInv
    <3>3. timer' = HealthTicks /\ HealthTicks \in Nat
      BY <1>4, <2>4, TimingAssumption DEF Update
    <3>4. QED
      BY <2>1, <3>1, <3>2, <3>3 DEF DeadInv, InRound
  <2>5. CASE ~ \A m \in Nodes \ {n} : ping[m].state = "none"
    <3>1. timer' = 0
      BY <1>4, <2>2, <2>5 DEF Update
    <3>2. \A m \in Nodes : (~up[m] /\ alive'[m]) => deadFor[m] + 0 <= HealthTicks
      BY <2>1, <2>2, <2>3, TimingAssumption DEF DeadInv
    <3>3. QED
      BY <2>1, <2>2, <2>3, <3>1, <3>2 DEF DeadInv, InRound
  <2>6. QED
    BY <2>4, <2>5
<1>5. ASSUME NEW n \in Nodes, Crash(n) PROVE DeadInv'
  <2>1. /\ up[n] /\ ~up'[n] /\ \A m \in Nodes \ {n} : up'[m] = up[m]
        /\ UNCHANGED <<deadFor, alive, ping, timer>>
    BY <1>5 DEF Crash, TypeOK
  <2>2. deadFor[n] = 0 /\ deadFor[n] + timer <= HealthTicks
    BY <2>1, TimingAssumption DEF DeadInv, TypeOK
  <2>3. QED
    BY <2>1, <2>2 DEF DeadInv, InRound
<1>6. ASSUME NEW n \in Nodes, Restart(n) PROVE DeadInv'
  <2>1. /\ up'[n] /\ deadFor'[n] = 0
        /\ \A m \in Nodes \ {n} : up'[m] = up[m] /\ deadFor'[m] = deadFor[m]
        /\ UNCHANGED <<alive, ping, timer>>
    BY <1>6 DEF Restart, TypeOK
  <2>2. QED
    BY <2>1 DEF DeadInv, InRound
<1>7. CASE Tick
  <2>1. /\ UNCHANGED <<up, alive, ping>> /\ timer' = timer - 1 /\ timer \in Nat
        /\ \A n \in Nodes : ping[n].state = "none"
        /\ \A n \in Nodes : deadFor[n] \in Nat
        /\ \A n \in Nodes : deadFor'[n] = IF up[n] \/ deadFor[n] > HealthTicks
                                            THEN deadFor[n] ELSE deadFor[n] + 1
    BY <1>7 DEF Tick, Quiet, TypeOK
  <2>2. ASSUME NEW n \in Nodes, ~up[n], alive[n]
        PROVE  deadFor'[n] + timer' <= HealthTicks
    BY <2>1, <2>2, TimingAssumption DEF DeadInv
  <2>3. QED
    BY <2>1, <2>2 DEF DeadInv, InRound
<1>8. ASSUME NEW c \in Clients, Start(c) \/ Step(c)
      PROVE  UNCHANGED <<process, alive, ping, timer>>
  BY <1>8 DEF Start, Step, Where, Wake, Dial, Answer, Broken
<1>9. CASE UNCHANGED vars
  BY <1>1, <1>9 DEF vars
<1>10. QED
  BY <1>1, <1>2, <1>3, <1>4, <1>5, <1>6, <1>7, <1>8, <1>9 DEF Next

LEMMA DeadInvHolds == Spec => []DeadInv
<1>1. Init => DeadInv
  BY TimingAssumption DEF Init, DeadInv, InRound, Silent
<1>2. TypeOK /\ DeadInv /\ [Next]_vars => DeadInv'
  BY DeadStep
<1>3. QED
  BY <1>1, <1>2, Typed, PTL DEF Spec

(***************************************************************************)
(* Bursts.                                                                 *)
(***************************************************************************)
LEMMA BurstStep == ASSUME TypeOK, BurstIsSpread, [Next]_vars PROVE BurstIsSpread'
<1> USE DEF process, registry, clients
<1>1. CASE UNCHANGED <<alive, active, pending, burst>>
  BY <1>1 DEF BurstIsSpread
<1>2. ASSUME NEW c \in Clients, Where(c) PROVE BurstIsSpread'
  <2>1. CASE UNCHANGED <<target, pending, burst>>
    BY <1>1, <1>2, <2>1 DEF Where
  <2>2. CASE \E n \in Best : /\ pending' = [pending EXCEPT ![n] = @ + 1]
                             /\ burst'   = burst \cup {n}
    <3>1. PICK n \in Best : /\ pending' = [pending EXCEPT ![n] = @ + 1]
                            /\ burst'   = burst \cup {n}
      BY <2>2
    <3>2. UNCHANGED <<alive, active>>
      BY <1>2 DEF Where
    <3>3. /\ n \in Nodes /\ alive[n]
          /\ \A m \in Nodes : alive[m] => active[n] + pending[n] <= active[m] + pending[m]
      BY DEF Best, Load
    <3>4. /\ \A m \in Nodes : active[m] \in Nat /\ pending[m] \in Nat
          /\ pending'[n] = pending[n] + 1
          /\ \A m \in Nodes \ {n} : pending'[m] = pending[m]
      BY <3>1, <3>3 DEF TypeOK
    <3>5. ASSUME NEW k \in Nodes, NEW m \in Nodes, alive[k], alive[m],
                 k \in burst \cup {n}
          PROVE  active[k] + pending'[k] <= active[m] + pending'[m] + 1
      <4>1. pending'[m] \in Nat /\ pending'[m] >= pending[m]
        BY <3>4
      <4>2. CASE k = n
        <5>1. active[n] + pending[n] <= active[m] + pending[m]
          BY <3>3, <3>5
        <5>2. QED
          BY <3>3, <3>4, <4>1, <4>2, <5>1
      <4>3. CASE k # n
        <5>1. active[k] + pending[k] <= active[m] + pending[m] + 1
          BY <3>5, <4>3 DEF BurstIsSpread
        <5>2. QED
          BY <3>4, <4>1, <4>3, <5>1
      <4>4. QED
        BY <4>2, <4>3
    <3>6. QED
      BY <3>1, <3>2, <3>5 DEF BurstIsSpread
  <2>3. QED
    BY <1>2, <2>1, <2>2 DEF Where
<1>3. ASSUME NEW n \in Nodes, Update(n) PROVE BurstIsSpread'
  BY <1>3 DEF Update, BurstIsSpread
<1>4. ASSUME NEW n \in Nodes, Pong(n) \/ Crash(n) \/ Restart(n)
      PROVE  UNCHANGED <<alive, active, pending, burst>>
  BY <1>4 DEF Pong, Crash, Restart
<1>5. ASSUME NEW c \in Clients, Start(c) \/ Wake(c) \/ Dial(c) \/ Answer(c) \/ Broken(c)
      PROVE  UNCHANGED <<alive, active, pending, burst>>
  BY <1>5 DEF Start, Wake, Dial, Answer, Broken
<1>6. CASE SendPings \/ Tick \/ UNCHANGED vars
  BY <1>1, <1>6 DEF SendPings, Tick, vars
<1>7. QED
  BY <1>1, <1>2, <1>3, <1>4, <1>5, <1>6 DEF Next, Step

(***************************************************************************)
(* Theorems.                                                               *)
(***************************************************************************)
\* Every variable keeps the shape the code gives it; no load counter ever goes
\* below 0 and no client makes more than its attempts.
THEOREM TypeCorrect == Spec => []TypeOK
BY Typed, PTL

\* A dead node is offered for one health interval at most, whatever the two
\* intervals are and however pings, crashes and restarts fall.
THEOREM DeadIsDroppedAlways == Spec => []DeadIsDropped
<1>1. TypeOK /\ DeadInv => DeadIsDropped
  <2> SUFFICES ASSUME TypeOK, DeadInv, NEW n \in Nodes, ~up[n],
                      deadFor[n] > HealthTicks, alive[n]
               PROVE  FALSE
    BY DEF DeadIsDropped, TypeOK
  <2>1. deadFor[n] + timer <= HealthTicks
    BY DEF DeadInv
  <2>2. QED
    BY <2>1, TimingAssumption DEF TypeOK
<1>2. QED
  BY <1>1, Typed, DeadInvHolds, PTL

\* The least-connections choice with its count of clients handed out spreads
\* the clients of a burst over any number of nodes.
THEOREM BurstIsSpreadAlways == Spec => []BurstIsSpread
<1>1. Init => BurstIsSpread
  BY DEF Init, BurstIsSpread
<1>2. TypeOK /\ BurstIsSpread /\ [Next]_vars => BurstIsSpread'
  BY BurstStep
<1>3. QED
  BY <1>1, <1>2, Typed, PTL DEF Spec

(***************************************************************************)
(* One crash.  Only the node that died makes attempts fail, and it does so *)
(* while it is offered, for HealthTicks at most.  Every failed attempt but *)
(* the last was followed by a whole pause in that time.                    *)
(***************************************************************************)
\* The code has 3 * RETRY_PAUSE = 4500 ms against HEALTH_INTERVAL = 2000 ms.
RetriesOutlast ==
  MaxCrashes <= 1 /\ (MaxAttempts - 1) * PauseTicks > HealthTicks

\* How long a client has paused so far.
Spent(c) == (attempt[c] - 1) * PauseTicks
              + (IF client[c] = "paused" THEN PauseTicks - left[c] ELSE 0)

Dialling == {"statDial", "dial"}

RetryInv ==
  /\ crashes = 0 => /\ \A n \in Nodes : up[n]
                    /\ \A c \in Clients : attempt[c] = 1 /\ client[c] # "paused"
                    /\ \A c \in Clients : client[c] \in Connected => link[c]
  /\ \A n \in Nodes : (~up[n] /\ deadFor[n] <= HealthTicks) =>
       \A c \in Clients : Spent(c) <= deadFor[n]
  /\ \A c \in Clients :
       /\ client[c] \in Connected /\ ~link[c] => attempt[c] = 1
       /\ client[c] \in Dialling =>
            /\ target[c] \in Nodes
            /\ ~up[target[c]] => deadFor[target[c]] <= HealthTicks
  /\ AttemptsSuffice

LEMMA SpentAtFirst ==
  ASSUME TypeOK, NEW c \in Clients, attempt[c] = 1, client[c] # "paused"
  PROVE  Spent(c) = 0
BY TimingAssumption DEF Spent, TypeOK

LEMMA SpentType ==
  ASSUME TypeOK, NEW c \in Clients
  PROVE  Spent(c) \in Nat
<1>1. /\ attempt[c] - 1 \in Nat /\ PauseTicks \in Nat
      /\ left[c] \in Nat /\ left[c] <= PauseTicks
  BY TimingAssumption DEF TypeOK
<1>2. (attempt[c] - 1) * PauseTicks \in Nat
  BY <1>1
<1>3. QED
  BY <1>1, <1>2 DEF Spent

\* Where a client is moved to without a pause, no time is spent.
LEMMA SpentSame ==
  ASSUME TypeOK, NEW c \in Clients, UNCHANGED attempt, client[c] # "paused",
         client'[c] # "paused" \/ left'[c] = PauseTicks
  PROVE  Spent(c)' = Spent(c)
<1>1. (attempt[c] - 1) * PauseTicks \in Int
  BY TimingAssumption DEF TypeOK
<1>2. PauseTicks \in Nat
  BY TimingAssumption
<1>3. QED
  BY <1>1, <1>2 DEF Spent

\* What a step of one client has to keep.
LEMMA ClientStep ==
  ASSUME TypeOK, RetryInv, NEW c \in Clients,
         UNCHANGED process,
         \A d \in Clients \ {c} : /\ client'[d] = client[d] /\ attempt'[d] = attempt[d]
                                  /\ left'[d] = left[d] /\ link'[d] = link[d]
                                  /\ target'[d] = target[d],
         Spent(c)' = Spent(c),
         crashes = 0 => attempt'[c] = 1 /\ client'[c] # "paused",
         client'[c] \in Connected => link'[c],
         client'[c] \in Dialling => /\ target'[c] \in Nodes
                                    /\ ~up[target'[c]] => deadFor[target'[c]] <= HealthTicks,
         client'[c] # "failed"
  PROVE  RetryInv'
<1>1. \A d \in Clients : Spent(d)' = Spent(d)
  BY DEF Spent
<1>2. UNCHANGED <<up, deadFor, crashes>>
  BY DEF process
<1>3. AttemptsSuffice'
  BY DEF AttemptsSuffice, RetryInv
<1>4. (crashes = 0 => /\ \A n \in Nodes : up[n]
                      /\ \A d \in Clients : attempt[d] = 1 /\ client[d] # "paused"
                      /\ \A d \in Clients : client[d] \in Connected => link[d])'
  BY <1>2 DEF RetryInv
<1>5. (\A n \in Nodes : (~up[n] /\ deadFor[n] <= HealthTicks) =>
         \A d \in Clients : Spent(d) <= deadFor[n])'
  BY <1>1, <1>2 DEF RetryInv
<1>6. ASSUME NEW d \in Clients
      PROVE  (/\ client[d] \in Connected /\ ~link[d] => attempt[d] = 1
              /\ client[d] \in Dialling =>
                   /\ target[d] \in Nodes
                   /\ ~up[target[d]] => deadFor[target[d]] <= HealthTicks)'
  BY <1>2 DEF RetryInv
<1>7. QED
  BY <1>3, <1>4, <1>5, <1>6 DEF RetryInv

\* The catch of the loop while the dead node is still offered.
LEMMA RetryStep ==
  ASSUME TypeOK, NEW c \in Clients, Retry(c), UNCHANGED attempt,
         ~LastAttempt(c), client[c] # "paused"
  PROVE  client'[c] = "paused" /\ left'[c] = PauseTicks /\ Spent(c)' = Spent(c)
<1>1. client'[c] = "paused" /\ left'[c] = PauseTicks
  BY DEF Retry, Move, TypeOK
<1>2. QED
  BY <1>1, SpentSame

LEMMA RetryInvStep ==
  ASSUME RetriesOutlast, TypeOK, PauseInv, DeadInv, RetryInv, [Next]_vars
  PROVE  RetryInv'
<1> USE DEF clients
<1>a. MaxAttempts \in Nat \ {0, 1} /\ PauseTicks \in Nat \ {0} /\ HealthTicks \in Nat
  BY TimingAssumption DEF RetriesOutlast
<1>1. ASSUME NEW c \in Clients, Start(c) PROVE RetryInv'
  <2>1. /\ client[c] = "idle" /\ client'[c] \in {"stat", "pick"}
        /\ \A d \in Clients \ {c} : client'[d] = client[d]
        /\ UNCHANGED <<attempt, left, link, target, process>>
    BY <1>1 DEF Start, Begin, Move, TypeOK
  <2>2. Spent(c)' = Spent(c)
    BY <2>1, SpentSame
  <2>3. crashes = 0 => attempt'[c] = 1
    BY <2>1 DEF RetryInv
  <2>4. QED
    BY <2>1, <2>2, <2>3, ClientStep DEF Connected, Dialling
<1>2. ASSUME NEW c \in Clients, Where(c) PROVE RetryInv'
  <2>1. /\ client[c] \in {"stat", "pick"}
        /\ \/ client'[c] = "refused"
           \/ /\ client'[c] \in Dialling
              /\ client'[c] = "statDial" => client[c] = "stat"
              /\ target'[c] \in Best
        /\ \A d \in Clients \ {c} : client'[d] = client[d] /\ target'[d] = target[d]
        /\ UNCHANGED <<attempt, left, link, process>>
    BY <1>2 DEF Where, Move, TypeOK, Dialling
  <2>2. Spent(c)' = Spent(c)
    BY <2>1, SpentSame DEF Dialling
  <2>3. \A n \in Best : n \in Nodes /\ (~up[n] => deadFor[n] <= HealthTicks)
    BY <1>a DEF Best, DeadInv, TypeOK
  <2>4. crashes = 0 => attempt'[c] = 1
    BY <2>1 DEF RetryInv
  <2>5. QED
    BY <2>1, <2>2, <2>3, <2>4, ClientStep DEF Connected, Dialling
<1>3. ASSUME NEW c \in Clients, Wake(c) PROVE RetryInv'
  <2>1. /\ client[c] = "paused" /\ left[c] = 0 /\ client'[c] \in {"stat", "pick"}
        /\ attempt'[c] = attempt[c] + 1
        /\ \A d \in Clients \ {c} : client'[d] = client[d] /\ attempt'[d] = attempt[d]
        /\ UNCHANGED <<left, link, target, process>>
    BY <1>3 DEF Wake, Begin, Move, TypeOK
  <2>2. Spent(c)' = Spent(c)
    <3>1. attempt[c] \in Nat
      BY DEF TypeOK
    <3>2. attempt[c] * PauseTicks = (attempt[c] - 1) * PauseTicks + PauseTicks
      BY <1>a, <3>1
    <3>3. Spent(c)' = attempt[c] * PauseTicks
      BY <1>a, <2>1, <3>1 DEF Spent
    <3>4. Spent(c) = (attempt[c] - 1) * PauseTicks + PauseTicks
      BY <1>a, <2>1 DEF Spent
    <3>5. QED
      BY <3>2, <3>3, <3>4
  <2>3. crashes # 0
    BY <2>1 DEF RetryInv
  <2>4. QED
    BY <2>1, <2>2, <2>3, ClientStep DEF Connected, Dialling
<1>4. ASSUME NEW c \in Clients, Dial(c), up[target[c]] PROVE RetryInv'
  <2>1. /\ client[c] \in Dialling
        /\ link'[c]
        /\ client'[c] = IF client[c] = "dial" THEN "asked" ELSE "statAsked"
        /\ \A d \in Clients \ {c} : client'[d] = client[d] /\ link'[d] = link[d]
        /\ UNCHANGED <<attempt, left, target, process>>
    BY <1>4 DEF Dial, Move, TypeOK, Dialling
  <2>2. Spent(c)' = Spent(c)
    BY <2>1, SpentSame DEF Dialling
  <2>3. crashes = 0 => attempt'[c] = 1
    BY <2>1 DEF RetryInv
  <2>4. QED
    BY <2>1, <2>2, <2>3, ClientStep DEF Dialling
<1>5. ASSUME NEW c \in Clients, Dial(c), ~up[target[c]] PROVE RetryInv'
  <2>1. /\ client[c] \in Dialling
        /\ \A d \in Clients \ {c} : link'[d] = link[d] /\ target'[d] = target[d]
        /\ UNCHANGED <<attempt, process>>
    BY <1>5 DEF Dial, Release, Dialling, TypeOK
  <2>2. /\ target[c] \in Nodes /\ deadFor[target[c]] <= HealthTicks
        /\ Spent(c) <= deadFor[target[c]] /\ deadFor[target[c]] \in Nat
        /\ crashes # 0
    BY <1>5, <2>1 DEF RetryInv, TypeOK
  <2>3. CASE client[c] = "dial"
    <3>1. Retry(c)
      BY <1>5, <2>3 DEF Dial
    <3>2. ~LastAttempt(c)
      <4>0. attempt[c] \in Nat /\ attempt[c] <= MaxAttempts
        BY <1>a DEF TypeOK
      <4>1. SUFFICES ASSUME attempt[c] = MaxAttempts PROVE FALSE
        BY <1>a, <4>0 DEF LastAttempt
      <4>2. Spent(c) = (MaxAttempts - 1) * PauseTicks
        BY <1>a, <2>3, <4>1 DEF Spent
      <4>3. (MaxAttempts - 1) * PauseTicks \in Nat
        BY <1>a
      <4>4. QED
        BY <1>a, <2>2, <4>2, <4>3 DEF RetriesOutlast
    <3>3. client'[c] = "paused" /\ Spent(c)' = Spent(c)
      BY <2>1, <2>3, <3>1, <3>2, RetryStep
    <3>4. \A d \in Clients \ {c} : client'[d] = client[d] /\ left'[d] = left[d]
      BY <3>1, <3>2 DEF Retry, Move, TypeOK
    <3>5. QED
      BY <2>1, <2>2, <3>3, <3>4, ClientStep DEF Connected, Dialling
  <2>4. CASE client[c] = "statDial"
    <3>1. Move(c, "thrown") /\ UNCHANGED left
      BY <1>5, <2>4 DEF Dial
    <3>2. client'[c] = "thrown" /\ \A d \in Clients \ {c} : client'[d] = client[d]
      BY <3>1 DEF Move, TypeOK
    <3>3. Spent(c)' = Spent(c)
      BY <2>1, <2>4, <3>2, SpentSame
    <3>4. QED
      BY <2>1, <2>2, <3>1, <3>2, <3>3, ClientStep DEF Connected, Dialling
  <2>5. QED
    BY <2>1, <2>3, <2>4 DEF Dialling
<1>6. ASSUME NEW c \in Clients, Answer(c) PROVE RetryInv'
  <2>1. /\ client[c] \in Connected /\ link[c]
        /\ client'[c] \in {"pick", "refused", "done"}
             \/ (client'[c] = "moving" /\ link'[c])
        /\ \A d \in Clients \ {c} : /\ client'[d] = client[d] /\ link'[d] = link[d]
                                    /\ target'[d] = target[d]
        /\ UNCHANGED <<attempt, left, process>>
    BY <1>6 DEF Answer, Move, Release, TypeOK
  <2>2. Spent(c)' = Spent(c)
    BY <2>1, SpentSame DEF Connected
  <2>3. crashes = 0 => attempt'[c] = 1
    BY <2>1 DEF RetryInv
  <2>4. QED
    BY <2>1, <2>2, <2>3, ClientStep DEF Connected, Dialling
<1>7. ASSUME NEW c \in Clients, Broken(c) PROVE RetryInv'
  <2>1. /\ client[c] \in Connected /\ ~link[c]
        /\ \A d \in Clients \ {c} : link'[d] = link[d] /\ target'[d] = target[d]
        /\ UNCHANGED <<attempt, process>>
    BY <1>7 DEF Broken, Lost, Release, TypeOK
  <2>2. attempt[c] = 1 /\ crashes # 0
    BY <2>1 DEF RetryInv
  <2>3. CASE Retry(c)
    <3>1. ~LastAttempt(c)
      BY <1>a, <2>2 DEF LastAttempt
    <3>2. client'[c] = "paused" /\ Spent(c)' = Spent(c)
      BY <2>1, <2>3, <3>1, RetryStep DEF Connected
    <3>3. \A d \in Clients \ {c} : client'[d] = client[d] /\ left'[d] = left[d]
      BY <2>3, <3>1 DEF Retry, Move, TypeOK
    <3>4. QED
      BY <2>1, <2>2, <3>2, <3>3, ClientStep DEF Connected, Dialling
  <2>4. CASE UNCHANGED left /\ \/ Move(c, "noReply") \/ Move(c, "pick")
                               \/ client[c] = "statAsked" /\ Move(c, "thrown")
    <3>1. /\ \/ client'[c] \in {"noReply", "pick"}
             \/ client[c] = "statAsked" /\ client'[c] = "thrown"
          /\ \A d \in Clients \ {c} : client'[d] = client[d]
      BY <2>4 DEF Move, TypeOK
    <3>2. Spent(c)' = Spent(c)
      BY <2>1, <3>1, SpentSame DEF Connected
    <3>3. QED
      BY <2>1, <2>2, <2>4, <3>1, <3>2, ClientStep DEF Connected, Dialling
  <2>5. QED
    BY <1>7, <2>3, <2>4 DEF Broken
<1>8. CASE UNCHANGED <<process, clients>>
  BY <1>8 DEF process, RetryInv, Spent, AttemptsSuffice
<1>9. ASSUME NEW n \in Nodes, Crash(n) PROVE RetryInv'
  <2>1. crashes = 0 /\ crashes' # 0
    BY <1>9, TimingAssumption DEF Crash, RetriesOutlast, TypeOK
  <2>2. UNCHANGED <<deadFor, client, target, attempt, left>>
    BY <1>9 DEF Crash
  <2>3. \A m \in Nodes : deadFor[m] = 0
    BY <2>1 DEF RetryInv, DeadInv
  <2>4. \A c \in Clients : Spent(c)' = Spent(c) /\ Spent(c) = 0
    BY <2>1, <2>2, SpentAtFirst DEF Spent, RetryInv
  <2>5. QED
    BY <1>a, <2>1, <2>2, <2>3, <2>4 DEF RetryInv, AttemptsSuffice
<1>10. ASSUME NEW n \in Nodes, Restart(n) PROVE RetryInv'
  <2>1. /\ ~up[n] /\ up'[n] /\ deadFor'[n] = 0
        /\ \A m \in Nodes \ {n} : up'[m] = up[m] /\ deadFor'[m] = deadFor[m]
        /\ UNCHANGED <<crashes, clients>>
    BY <1>10 DEF Restart, TypeOK
  <2>2. crashes # 0
    BY <2>1 DEF RetryInv
  <2>3. \A c \in Clients : Spent(c)' = Spent(c)
    BY <2>1 DEF Spent
  <2>4. QED
    BY <2>1, <2>2, <2>3 DEF RetryInv, AttemptsSuffice
<1>11. CASE Tick
  <2>1. /\ UNCHANGED <<up, crashes, client, target, link, attempt>>
        /\ \A c \in Clients : client[c] \notin Dialling
        /\ \A c \in Clients : left'[c] = IF client[c] = "paused" THEN left[c] - 1
                                                                 ELSE left[c]
        /\ \A n \in Nodes : deadFor'[n] = IF up[n] \/ deadFor[n] > HealthTicks
                                            THEN deadFor[n] ELSE deadFor[n] + 1
    BY <1>11 DEF Tick, Quiet, Instant, Dialling
  <2>2. ASSUME NEW c \in Clients
        PROVE  Spent(c)' \in {Spent(c), Spent(c) + 1} /\ Spent(c) \in Nat
    <3>1. (attempt[c] - 1) * PauseTicks \in Int /\ left[c] \in Int
      BY <1>a DEF TypeOK
    <3>2. Spent(c)' \in {Spent(c), Spent(c) + 1}
      BY <1>a, <2>1, <3>1 DEF Spent
    <3>3. QED
      BY <3>2, SpentType
  <2>3. ASSUME NEW n \in Nodes, ~up[n], deadFor'[n] <= HealthTicks, NEW c \in Clients
        PROVE  Spent(c)' <= deadFor'[n]
    <3>1. deadFor[n] \in Nat
      BY DEF TypeOK
    <3>2. deadFor[n] <= HealthTicks /\ deadFor'[n] = deadFor[n] + 1
      BY <1>a, <2>1, <2>3, <3>1
    <3>3. Spent(c) <= deadFor[n]
      BY <2>3, <3>2 DEF RetryInv
    <3>4. QED
      BY <2>2, <3>1, <3>2, <3>3
  <2>4. QED
    BY <2>1, <2>3 DEF RetryInv, AttemptsSuffice
<1>12. ASSUME NEW n \in Nodes, Pong(n) \/ Update(n) PROVE UNCHANGED <<process, clients>>
  BY <1>12 DEF Pong, Update
<1>13. SendPings => UNCHANGED <<process, clients>>
  BY DEF SendPings
<1>14. CASE UNCHANGED vars
  BY <1>8, <1>14 DEF vars, process
<1>15. QED
  BY <1>1, <1>2, <1>3, <1>4, <1>5, <1>6, <1>7, <1>8, <1>9, <1>10, <1>11, <1>12, <1>13,
     <1>14 DEF Next, Step

\* Whenever the pauses between the attempts outlast the health interval, the
\* death of one node makes no client run out of attempts, for any number of nodes
\* and clients: the attempts that fail fall into the time in which the dead node
\* is offered.
THEOREM AttemptsOutlastCrash ==
  ASSUME RetriesOutlast
  PROVE  Spec => []AttemptsSuffice
<1>1. Init => RetryInv
  BY DEF Init, RetryInv, AttemptsSuffice, Connected, Dialling
<1>2. RetryInv => AttemptsSuffice
  BY DEF RetryInv
<1>3. QED
  BY <1>1, <1>2, RetryInvStep, Typed, DeadInvHolds, PTL DEF Spec
=============================================================================
