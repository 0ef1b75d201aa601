---------------------------- MODULE StatusProofs ----------------------------
(***************************************************************************)
(* Theorems about Status, for every number of nodes and every choice of    *)
(* the intervals.                                                          *)
(***************************************************************************)
EXTENDS Status, TLAPS

(***************************************************************************)
(* Type correctness.                                                       *)
(***************************************************************************)
LEMMA OldType == Old \in Nat /\ Old = StaleTicks + 1
BY TicksAssumption DEF Old

LEMMA OlderType ==
  ASSUME NEW age \in Ages
  PROVE  /\ Older(age) \in Ages
         /\ age # NoFile => Older(age) \in 0 .. Old
BY OldType, NoFileAssumption DEF Older, Ages

LEMMA LessType == ASSUME NEW k \in Nat PROVE Less(k) \in Nat /\ Less(k) <= k
BY DEF Less

LEMMA InitType == Init => TypeOK
<1> SUFFICES ASSUME Init PROVE TypeOK
  OBVIOUS
<1>1. alive \in [Nodes -> BOOLEAN] /\ NoFile \in Ages
  BY DEF Init, Ages
<1>2. health \in [age : Ages, alive : [Nodes -> BOOLEAN]]
  BY <1>1 DEF Init
<1>3. off \in [Nodes -> 0 .. Old]
  BY OldType DEF Init
<1>4. 0 \in 0 .. HealthTicks /\ 0 \in 0 .. PingTicks
  BY TicksAssumption
<1>5. asked \subseteq Nodes
  BY DEF Init
<1>6. QED
  BY <1>1, <1>2, <1>3, <1>4, <1>5 DEF Init, TypeOK

LEMMA NodeStepType ==
  ASSUME TypeOK, NEW n \in Nodes, NodeStep(n)
  PROVE  TypeOK'
<1>0. NoFile \in Ages /\ 0 \in Ages /\ 0 \in 0 .. Old
  BY OldType DEF Ages
<1>1. CASE WriteStatus(n)
  BY <1>0, <1>1, TicksAssumption DEF WriteStatus, TypeOK, registry
<1>2. CASE RenameStatus(n)
  BY <1>0, <1>2 DEF RenameStatus, TypeOK, registry
<1>3. CASE WriteFails(n)
  BY <1>0, <1>3 DEF WriteFails, Fault, TypeOK, registry
<1>4. CASE Start(n)
  BY <1>0, <1>4, TicksAssumption DEF Start, TypeOK, registry
<1>5. CASE Kill(n)
  BY <1>0, <1>5 DEF Kill, Fault, TypeOK, registry
<1>6. CASE Hang(n)
  BY <1>0, <1>6 DEF Hang, Fault, TypeOK, registry
<1>7. CASE Resume(n)
  BY <1>0, <1>7 DEF Resume, TypeOK, registry
<1>8. CASE Stop(n)
  BY <1>0, <1>8, TicksAssumption DEF Stop, Fault, TypeOK, registry
<1>9. CASE Exit(n)
  BY <1>0, <1>9 DEF Exit, TypeOK, registry
<1>10. QED
  BY <1>1, <1>2, <1>3, <1>4, <1>5, <1>6, <1>7, <1>8, <1>9 DEF NodeStep

LEMMA BalancerStepType ==
  ASSUME TypeOK, BalancerStep
  PROVE  TypeOK'
<1>0. 0 \in Ages /\ 0 \in 0 .. HealthTicks /\ 0 \in 0 .. PingTicks
       /\ HealthTicks \in 0 .. HealthTicks /\ PingTicks \in 0 .. PingTicks
  BY OldType, TicksAssumption DEF Ages
<1>1. CASE StartBalancer
  BY <1>0, <1>1 DEF StartBalancer, AliveAtFirst, TypeOK, monitors
<1>2. CASE KillBalancer
  <2>1. asked' \subseteq Nodes
    BY <1>2 DEF KillBalancer
  <2>2. faults' \in Nat /\ steady' \in Nat /\ left' \in 0 .. PingTicks
    BY <1>0, <1>2 DEF KillBalancer, Fault, TypeOK
  <2>3. balancer' = FALSE /\ pinging' = FALSE
    BY <1>2 DEF KillBalancer
  <2>4. UNCHANGED <<monitors, btimer, alive, health>>
    BY <1>2 DEF KillBalancer
  <2>5. QED
    BY <2>1, <2>2, <2>3, <2>4 DEF TypeOK, monitors
<1>3. CASE PingAll
  <2>1. alive' = [n \in Nodes |-> IF n \in asked' THEN alive[n] ELSE (proc[n] = "up")]
    BY <1>3 DEF PingAll
  <2>2. alive' \in [Nodes -> BOOLEAN]
    BY <2>1 DEF TypeOK
  <2>3. asked' \subseteq Nodes
    BY <1>3 DEF PingAll
  <2>4. pinging' = TRUE /\ left' \in 0 .. PingTicks
    BY <1>0, <1>3 DEF PingAll
  <2>5. UNCHANGED <<monitors, balancer, btimer, health, faults, steady>>
    BY <1>3 DEF PingAll
  <2>6. QED
    BY <2>2, <2>3, <2>4, <2>5 DEF TypeOK, monitors
<1>4. CASE EndRound
  <2>1. faults' \in Nat /\ steady' \in Nat
    BY <1>4 DEF EndRound, Fault, TypeOK
  <2>2. health' \in [age : Ages, alive : [Nodes -> BOOLEAN]]
    BY <1>0, <1>4 DEF EndRound, TypeOK
  <2>3. pinging' = FALSE /\ left' = 0 /\ btimer' = HealthTicks
    BY <1>4 DEF EndRound
  <2>4. UNCHANGED <<monitors, balancer, asked, alive>>
    BY <1>4 DEF EndRound
  <2>5. QED
    BY <1>0, <2>1, <2>2, <2>3, <2>4 DEF TypeOK, monitors
<1>5. ASSUME NEW n \in Nodes, Answer(n) PROVE TypeOK'
  <2>1. alive' = [alive EXCEPT ![n] = (proc[n] = "up")]
    BY <1>5 DEF Answer
  <2>2. alive' \in [Nodes -> BOOLEAN]
    BY <2>1 DEF TypeOK
  <2>3. QED
    BY <1>0, <1>5, <2>2 DEF Answer, TypeOK, monitors
<1>6. QED
  BY <1>1, <1>2, <1>3, <1>4, <1>5 DEF BalancerStep

LEMMA TickType ==
  ASSUME TypeOK, Tick
  PROVE  TypeOK'
<1>1. /\ timer' \in [Nodes -> Nat]
      /\ temp' \in [Nodes -> Ages] /\ file' \in [Nodes -> Ages]
  BY LessType, OlderType DEF Tick, TypeOK
<1>2. off' \in [Nodes -> 0 .. Old]
  <2>1. ASSUME NEW n \in Nodes PROVE Older(off[n]) \in 0 .. Old
    BY OldType, OlderType, NoFileAssumption DEF TypeOK, Ages
  <2>2. QED
    BY <2>1, OldType DEF Tick, TypeOK
<1>3. btimer' \in 0 .. HealthTicks /\ left' \in 0 .. PingTicks
  BY LessType, TicksAssumption DEF Tick, TypeOK
<1>4. health' \in [age : Ages, alive : [Nodes -> BOOLEAN]]
  BY OlderType DEF Tick, TypeOK
<1>5. faults' \in Nat /\ steady' \in Nat
  BY DEF Tick, Fault, TypeOK
<1>6. QED
  BY <1>1, <1>2, <1>3, <1>4, <1>5 DEF Tick, TypeOK

LEMMA NextType == TypeOK /\ [Next]_vars => TypeOK'
<1> SUFFICES ASSUME TypeOK, [Next]_vars PROVE TypeOK'
  OBVIOUS
<1>1. CASE UNCHANGED vars
  BY <1>1 DEF TypeOK, vars, monitors, registry
<1>2. QED
  BY <1>1, NodeStepType, BalancerStepType, TickType DEF Next

\* Every variable keeps its shape, and no timer runs below 0.
THEOREM TypeCorrect == Spec => []TypeOK
BY InitType, NextType, PTL DEF Spec

(***************************************************************************)
(* A killed node turns red.                                                *)
(***************************************************************************)
\* The snapshot in a status file was taken while its process was up, and so
\* was the one that is being written: neither is fresher than the process.
NotFresher(age, n) == age # NoFile => off[n] <= age

AgeInv == \A n \in Nodes : NotFresher(file[n], n) /\ NotFresher(temp[n], n)

\* What being up means for the clock.
UpInv == \A n \in Nodes : proc[n] = "up" => off[n] = 0

LEMMA OlderKeepsOrder ==
  ASSUME NEW a \in 0 .. Old, NEW b \in 0 .. Old, a <= b
  PROVE  Older(a) <= Older(b)
BY OldType, NoFileAssumption DEF Older

LEMMA AgeStep ==
  ASSUME TypeOK, AgeInv, UpInv, [Next]_vars
  PROVE  AgeInv' /\ UpInv'
<1>1. CASE UNCHANGED vars \/ BalancerStep
  BY <1>1 DEF AgeInv, UpInv, NotFresher, vars, monitors, BalancerStep,
              StartBalancer, KillBalancer, PingAll, EndRound, Answer
<1>2. ASSUME NEW n \in Nodes, NodeStep(n) PROVE AgeInv' /\ UpInv'
  <2> USE DEF AgeInv, UpInv, NotFresher, TypeOK
  <2>1. CASE WriteStatus(n)
    BY <2>1, NoFileAssumption DEF WriteStatus
  <2>2. CASE RenameStatus(n)
    BY <2>2 DEF RenameStatus
  <2>3. CASE WriteFails(n)
    BY <2>3 DEF WriteFails
  <2>4. CASE Start(n) \/ Resume(n)
    <3>1. \A m \in Nodes : (file[m] # NoFile => file[m] >= 0)
                             /\ (temp[m] # NoFile => temp[m] >= 0)
      BY OldType DEF Ages
    <3>2. QED
      BY <2>4, <3>1 DEF Start, Resume
  <2>5. CASE Kill(n) \/ Hang(n) \/ Exit(n)
    BY <2>5 DEF Kill, Hang, Exit
  <2>6. CASE Stop(n)
    BY <2>6 DEF Stop
  <2>7. QED
    BY <1>2, <2>1, <2>2, <2>3, <2>4, <2>5, <2>6 DEF NodeStep
<1>3. CASE Tick
  <2>1. ASSUME NEW n \in Nodes PROVE off'[n] = 0 \/ off'[n] = Older(off[n])
    BY <1>3 DEF Tick
  <2>2. ASSUME NEW n \in Nodes PROVE proc'[n] = "up" => off'[n] = 0
    BY <1>3 DEF Tick
  <2>3. ASSUME NEW n \in Nodes, NEW age \in Ages, NotFresher(age, n)
        PROVE  Older(age) # NoFile => off'[n] <= Older(age)
    <3>1. CASE age = NoFile
      BY <3>1 DEF Older
    <3>2. CASE age # NoFile
      <4>1. age \in 0 .. Old /\ off[n] \in 0 .. Old /\ off[n] <= age
        BY <2>3, <3>2 DEF NotFresher, Ages, TypeOK
      <4>2. Older(off[n]) <= Older(age) /\ Older(age) \in 0 .. Old
        BY <3>2, <4>1, OlderKeepsOrder, OlderType
      <4>3. QED
        BY <2>1, <4>2
    <3>3. QED
      BY <3>1, <3>2
  <2>4. ASSUME NEW n \in Nodes
        PROVE  /\ file'[n] = Older(file[n]) /\ temp'[n] = Older(temp[n])
               /\ file[n] \in Ages /\ temp[n] \in Ages
    BY <1>3 DEF Tick, TypeOK
  <2>5. QED
    BY <2>2, <2>3, <2>4 DEF AgeInv, UpInv, NotFresher
<1>4. QED
  BY <1>1, <1>2, <1>3 DEF Next

\* For any number of nodes and any intervals, a node that has not run for
\* STALE_AFTER is not shown UP, whatever the balancer says of it.
THEOREM DeadTurnsRedAlways == Spec => []DeadTurnsRed
<1>1. Init => AgeInv /\ UpInv
  BY DEF Init, AgeInv, UpInv, NotFresher
<1>2. TypeOK /\ AgeInv => DeadTurnsRed
  BY TicksAssumption, OldType, NoFileAssumption
     DEF TypeOK, AgeInv, NotFresher, DeadTurnsRed, ShownUp, Stale, Ages
<1>3. QED
  BY <1>1, <1>2, AgeStep, TypeCorrect, PTL DEF Spec

(***************************************************************************)
(* The dashboard is right once things have settled.  The intervals must    *)
(* leave room: a status file is written and balancer.json is written more  *)
(* often than STALE_AFTER, and the time to settle covers STALE_AFTER and   *)
(* two rounds of pings with a pause between them, the first of which began *)
(* too early to know.  In ticks of 500 ms the code has 2, 4, 4 and 8, so   *)
(* that it settles within 12.                                              *)
(***************************************************************************)
IntervalsSuffice ==
  /\ WriteTicks <= StaleTicks /\ HealthTicks < StaleTicks
  /\ StaleTicks <= SettleTicks
  /\ 2 * PingTicks + HealthTicks <= SettleTicks

\* A process that is not up has been gone for as long as nothing has happened,
\* or for longer than anybody counts.
OffInv == \A n \in Nodes : proc[n] # "up" => off[n] = Old \/ steady <= off[n]

TimerInv == \A n \in Nodes : proc[n] \in {"up", "hung"} => timer[n] <= WriteTicks

\* A snapshot that is older than a tick was held up by a slow disk or a hang.
SnapshotInv ==
  \A n \in Nodes : proc[n] = "up" /\ temp[n] # NoFile => temp[n] = 0 \/ steady = 0

\* When the next snapshot of a node is in its file, at the latest.
Due(n) == IF temp[n] = NoFile THEN timer[n] ELSE 0

FileInv ==
  \A n \in Nodes : proc[n] = "up" =>
    \/ steady + Due(n) <= WriteTicks
    \/ file[n] # NoFile /\ file[n] + Due(n) <= WriteTicks

MonitorInv == OffInv /\ TimerInv /\ SnapshotInv /\ FileInv

\* A step of a node leaves the balancer alone, and starts the settling anew
\* unless it is an ordinary write.
LEMMA NodeStepEffect ==
  ASSUME NEW n \in Nodes, NodeStep(n)
  PROVE  UNCHANGED registry /\ (steady' = 0 \/ UNCHANGED <<proc, steady>>)
BY DEF NodeStep, WriteStatus, RenameStatus, WriteFails, Start, Kill, Hang, Resume,
       Stop, Exit, Fault, registry

LEMMA BalancerStepEffect ==
  ASSUME BalancerStep
  PROVE  UNCHANGED monitors /\ (steady' = 0 \/ steady' = steady)
BY DEF BalancerStep, StartBalancer, KillBalancer, PingAll, EndRound, Answer, Fault

LEMMA TickEffect ==
  ASSUME TypeOK, Tick
  PROVE  /\ Quiet /\ UNCHANGED <<proc, balancer, asked, pinging, alive>>
         /\ steady' <= steady + 1
         /\ steady' # 0 => WritesDone
BY TicksAssumption DEF Tick, TypeOK, Fault

LEMMA OlderByOne ==
  ASSUME NEW age \in 0 .. Old
  PROVE  Older(age) \in 0 .. Old /\ Older(age) <= age + 1
         /\ (Older(age) = Old \/ Older(age) = age + 1)
BY OldType, NoFileAssumption DEF Older

LEMMA MonitorStep ==
  ASSUME TypeOK, MonitorInv, [Next]_vars
  PROVE  MonitorInv'
<1> USE DEF MonitorInv, OffInv, TimerInv, SnapshotInv, FileInv, Due
<1>n. NoFile \notin Nat
  BY NoFileAssumption
<1>w. WriteTicks \in Nat \ {0} /\ Old \in Nat /\ steady \in Nat
  BY TicksAssumption, OldType DEF TypeOK
<1>a. \A m \in Nodes : /\ timer[m] \in Nat /\ off[m] \in 0 .. Old
                       /\ temp[m] = NoFile \/ temp[m] \in 0 .. Old
                       /\ file[m] = NoFile \/ file[m] \in 0 .. Old
  BY DEF TypeOK, Ages
<1>1. CASE UNCHANGED vars
  BY <1>1 DEF vars, monitors
<1>2. CASE BalancerStep
  <2>1. UNCHANGED <<proc, timer, temp, file, off>> /\ (steady' = 0 \/ steady' = steady)
    BY <1>2, BalancerStepEffect DEF monitors
  <2>2. FileInv'
    BY <2>1, <1>a, <1>w
  <2>3. QED
    BY <2>1, <2>2, <1>a, <1>w
<1>3. ASSUME NEW n \in Nodes, NodeStep(n) PROVE MonitorInv'
  <2> DEFINE other(m) == UNCHANGED <<proc[m], timer[m], temp[m], file[m], off[m]>>
  <2>1. CASE WriteStatus(n)
    <3>1. /\ UNCHANGED <<proc, file, off, steady>> /\ timer[n] = 0
          /\ timer' = [timer EXCEPT ![n] = WriteTicks]
          /\ temp'[n] = IF temp[n] = NoFile THEN 0 ELSE temp[n]
          /\ \A m \in Nodes : m # n => temp'[m] = temp[m]
      BY <2>1 DEF WriteStatus, TypeOK
    <3>2. temp'[n] # NoFile
      BY <3>1, <1>n
    <3>3. OffInv' /\ TimerInv'
      BY <3>1, <1>w, <1>a DEF TypeOK
    <3>4. SnapshotInv'
      BY <3>1
    <3>5. \A m \in Nodes : Due(m)' = Due(m)
      BY <3>1, <3>2 DEF TypeOK
    <3>6. FileInv'
      BY <3>1, <3>5
    <3>7. QED
      BY <3>3, <3>4, <3>6
  <2>2. CASE RenameStatus(n)
    <3>1. /\ UNCHANGED <<proc, timer, off, steady>> /\ temp[n] # NoFile
          /\ file' = [file EXCEPT ![n] = temp[n]]
          /\ temp' = [temp EXCEPT ![n] = NoFile]
      BY <2>2 DEF RenameStatus
    <3>2. OffInv' /\ TimerInv' /\ SnapshotInv'
      BY <3>1 DEF TypeOK
    <3>3. proc[n] = "up" => (temp[n] = 0 \/ steady = 0) /\ timer[n] <= WriteTicks
      BY <3>1
    <3>4. FileInv'
      BY <3>1, <3>3, <1>a, <1>w DEF TypeOK
    <3>5. QED
      BY <3>2, <3>4
  <2>3. CASE steady' = 0
    <3>1. \A m \in Nodes : off'[m] \in Nat /\ timer'[m] \in Nat
      BY <1>3, NodeStepType DEF TypeOK
    <3>2. OffInv' /\ SnapshotInv'
      BY <2>3, <3>1
    <3>3. TimerInv'
      BY <1>3, <1>a, <1>w
      DEF NodeStep, WriteStatus, RenameStatus, WriteFails, Start, Kill, Hang,
          Resume, Stop, Exit, TypeOK
    <3>4. FileInv'
      BY <2>3, <3>1, <3>3, <1>w
    <3>5. QED
      BY <3>2, <3>3, <3>4
  <2>4. QED
    BY <1>3, <2>1, <2>2, <2>3
    DEF NodeStep, WriteFails, Start, Kill, Hang, Resume, Stop, Exit, Fault
<1>4. CASE Tick
  <2>1. /\ Quiet /\ proc' = proc /\ steady' <= steady + 1
        /\ steady' # 0 => WritesDone
    BY <1>4, TickEffect
  <2>2. steady' \in Nat
    BY <1>4, TickType DEF TypeOK
  <2>3. ASSUME NEW m \in Nodes
        PROVE  /\ timer'[m] = IF proc[m] \in {"up", "stopping"}
                                THEN Less(timer[m]) ELSE timer[m]
               /\ temp'[m] = Older(temp[m]) /\ file'[m] = Older(file[m])
               /\ proc[m] # "up" => off'[m] = Older(off[m])
    BY <1>4 DEF Tick
  <2>4. \A m \in Nodes : proc[m] = "up" =>
          timer[m] > 0 /\ timer'[m] = timer[m] - 1
    BY <2>1, <2>3, <1>a DEF Quiet, Less
  <2>5. OffInv'
    <3> SUFFICES ASSUME NEW m \in Nodes, proc[m] # "up"
                 PROVE  off'[m] = Old \/ steady' <= off'[m]
      BY <2>1
    <3>1. off'[m] = Old \/ off'[m] = off[m] + 1
      BY <2>3, <1>a, OlderByOne
    <3>2. off[m] = Old => off'[m] = Old
      BY <2>3, <1>a, OldType DEF Older
    <3>3. QED
      BY <3>1, <3>2, <2>1, <2>2, <1>a, <1>w
  <2>6. TimerInv'
    BY <2>1, <2>3, <2>4, <1>a, <1>w
  <2>7. \A m \in Nodes : proc[m] = "up" /\ steady' # 0 =>
          temp[m] = NoFile /\ temp'[m] = NoFile
    BY <2>1, <2>3 DEF WritesDone, Older
  <2>8. SnapshotInv'
    BY <2>1, <2>7
  <2>9. FileInv'
    <3> SUFFICES ASSUME NEW m \in Nodes, proc[m] = "up"
                 PROVE  \/ steady' + Due(m)' <= WriteTicks
                        \/ file'[m] # NoFile /\ file'[m] + Due(m)' <= WriteTicks
      BY <2>1
    <3>1. CASE steady' = 0
      BY <3>1, <2>4, <1>a, <1>w
    <3>2. CASE steady' # 0
      <4>1. Due(m) = timer[m] /\ Due(m)' = timer[m] - 1 /\ timer[m] > 0
        BY <2>4, <2>7, <3>2
      <4>2. CASE steady + Due(m) <= WriteTicks
        <5>1. steady + timer[m] <= WriteTicks
          BY <4>1, <4>2
        <5>2. steady' + (timer[m] - 1) <= WriteTicks
          BY <5>1, <2>1, <2>2, <1>a, <1>w
        <5>3. QED
          BY <4>1, <5>2
      <4>3. CASE file[m] # NoFile /\ file[m] + Due(m) <= WriteTicks
        <5>1. file'[m] \in 0 .. Old /\ file'[m] <= file[m] + 1
          BY <4>3, <2>3, <1>a, OlderByOne
        <5>2. QED
          BY <4>1, <4>3, <5>1, <1>a, <1>w, <1>n
      <4>4. QED
        BY <4>2, <4>3
    <3>3. QED
      BY <3>1, <3>2
  <2>10. QED
    BY <2>5, <2>6, <2>8, <2>9
<1>5. QED
  BY <1>1, <1>2, <1>3, <1>4 DEF Next
\* Two clocks that have run, or will run, for no longer than that together.
Within(k, l, limit) == k + l <= limit

LEMMA WithinFromStart ==
  \A l, limit \in Nat : l <= limit => Within(0, l, limit)
BY DEF Within

\* One clock goes on by at most a tick, and the other is a tick nearer to its end.
LEMMA WithinTick ==
  \A k, l, k1, l1, limit \in Nat :
    (Within(k, l, limit) /\ k1 <= k + 1 /\ l > 0 /\ l1 = l - 1) => Within(k1, l1, limit)
BY DEF Within

LEMMA WithinMore ==
  \A k, l, limit, extra \in Nat : Within(k, l, limit) =>
    k <= limit /\ Within(k, extra, limit + extra)
BY DEF Within

\* A round that began before the last event is over within a ping; then comes
\* the pause, and the next round sees every node as it is.
RoundRight  == \A n \in Nodes : proc[n] = "up" => alive[n] \/ n \in asked
HealthRight == health.age # NoFile /\ \A n \in Nodes : proc[n] = "up" => health.alive[n]

\* When a round is over that began before, the pause after it, and the next round.
FirstPause == PingTicks + HealthTicks
LastRound  == FirstPause + PingTicks

RoundInv ==
  balancer =>
    IF pinging
      THEN \/ Within(steady, left, PingTicks)
           \/ RoundRight /\ (HealthRight \/ Within(steady, left, LastRound))
      ELSE HealthRight \/ Within(steady, btimer, FirstPause)

\* Without a hanging node a round takes no time, so balancer.json is as old as
\* the pause is long; without a balancer it is as old as the last event.
NobodyHangs == \A n \in Nodes : proc[n] # "hung"

HealthInv ==
  /\ pinging => balancer /\ btimer = 0
  /\ balancer /\ NobodyHangs =>
       \/ Within(steady, btimer, HealthTicks)
       \/ health.age # NoFile /\ Within(health.age, btimer, HealthTicks)
  /\ ~balancer /\ health.age # NoFile => health.age = Old \/ steady <= health.age

RegistryInv == RoundInv /\ HealthInv

LEMMA RegistryStep ==
  ASSUME TypeOK, RegistryInv, [Next]_vars
  PROVE  RegistryInv'
<1>n. NoFile \notin Nat
  BY NoFileAssumption
<1>h. /\ HealthTicks \in Nat \ {0} /\ PingTicks \in Nat \ {0} /\ Old \in Nat
      /\ steady \in Nat /\ left \in Nat /\ btimer \in Nat
  BY TicksAssumption, OldType DEF TypeOK
<1>a. health.age = NoFile \/ health.age \in 0 .. Old
  BY DEF TypeOK, Ages
<1>p. TypeOK'
  BY NextType
<1>g. /\ steady' \in Nat /\ left' \in Nat /\ btimer' \in Nat
      /\ left' <= PingTicks /\ btimer' <= HealthTicks
  BY <1>p, TicksAssumption DEF TypeOK
<1>b. health'.age = NoFile \/ health'.age \in 0 .. Old
  BY <1>p DEF TypeOK, Ages
<1>f. FirstPause \in Nat /\ LastRound \in Nat /\ HealthTicks <= FirstPause
  BY <1>h DEF FirstPause, LastRound
<1>1. ASSUME UNCHANGED registry, UNCHANGED <<proc, steady>>
      PROVE  RegistryInv'
  BY <1>1 DEF RegistryInv, RoundInv, RoundRight, HealthRight, HealthInv,
              NobodyHangs, registry
<1>2. ASSUME steady' = 0, pinging' => balancer' /\ btimer' = 0
      PROVE  RegistryInv'
  <2>1. btimer' <= FirstPause
    BY <1>f, <1>g, <1>h
  <2>2. /\ Within(steady', left', PingTicks)
        /\ Within(steady', btimer', FirstPause)
        /\ Within(steady', btimer', HealthTicks)
    BY <1>2, <1>f, <1>g, <1>h, <2>1, WithinFromStart
  <2>3. steady' <= health'.age \/ health'.age = NoFile
    BY <1>2, <1>b, <1>h
  <2>4. RoundInv' /\ HealthInv'
    BY <1>2, <2>2, <2>3 DEF RoundInv, HealthInv
  <2>5. QED
    BY <2>4 DEF RegistryInv
<1>3. ASSUME NEW n \in Nodes, NodeStep(n) PROVE RegistryInv'
  <2>1. UNCHANGED registry /\ (steady' = 0 \/ UNCHANGED <<proc, steady>>)
    BY <1>3, NodeStepEffect
  <2>2. pinging' => balancer' /\ btimer' = 0
    BY <2>1 DEF RegistryInv, HealthInv, registry
  <2>3. QED
    BY <1>1, <1>2, <2>1, <2>2
<1>4. CASE StartBalancer
  BY <1>2, <1>4 DEF StartBalancer, RegistryInv, HealthInv
<1>5. CASE KillBalancer
  BY <1>2, <1>5 DEF KillBalancer, Fault
<1>6. CASE PingAll
  <2>1. /\ balancer /\ balancer' /\ ~pinging /\ pinging' = TRUE /\ left' = PingTicks
        /\ btimer = 0 /\ UNCHANGED <<proc, btimer, health, steady>>
    BY <1>6 DEF PingAll, monitors
  <2>2. RoundRight'
    <3>1. /\ asked' = {n \in Nodes : proc[n] = "hung"}
          /\ alive' = [n \in Nodes |-> IF n \in asked' THEN alive[n]
                                                      ELSE (proc[n] = "up")]
      BY <1>6 DEF PingAll
    <3>2. QED
      BY <2>1, <3>1 DEF RoundRight
  <2>3. HealthRight \/ Within(steady', left', LastRound)
    <3>1. HealthRight \/ Within(steady, btimer, FirstPause)
      BY <2>1 DEF RegistryInv, RoundInv
    <3>2. Within(steady, btimer, FirstPause) => Within(steady, PingTicks, LastRound)
      BY <1>f, <1>h, WithinMore DEF LastRound
    <3>3. QED
      BY <2>1, <3>1, <3>2
  <2>4. HealthRight => HealthRight'
    BY <2>1 DEF HealthRight
  <2>5. RoundInv'
    BY <2>1, <2>2, <2>3, <2>4 DEF RoundInv
  <2>6. HealthInv'
    BY <2>1 DEF RegistryInv, HealthInv, NobodyHangs
  <2>7. QED
    BY <2>5, <2>6 DEF RegistryInv
<1>7. ASSUME NEW n \in Nodes, Answer(n) PROVE RegistryInv'
  <2>1. UNCHANGED <<proc, balancer, btimer, pinging, left, health, steady>>
    BY <1>7 DEF Answer, monitors
  <2>2. RoundRight => RoundRight'
    <3>1. asked' = asked \ {n} /\ alive' = [alive EXCEPT ![n] = (proc[n] = "up")]
      BY <1>7 DEF Answer
    <3>2. QED
      BY <2>1, <3>1 DEF RoundRight, TypeOK
  <2>3. HealthRight => HealthRight'
    BY <2>1 DEF HealthRight
  <2>4. RoundInv'
    BY <2>1, <2>2, <2>3 DEF RegistryInv, RoundInv
  <2>5. HealthInv'
    BY <2>1 DEF RegistryInv, HealthInv, NobodyHangs
  <2>6. QED
    BY <2>4, <2>5 DEF RegistryInv
<1>8. CASE EndRound
  <2>1. /\ pinging /\ asked = {} /\ pinging' = FALSE /\ btimer' = HealthTicks
        /\ UNCHANGED <<proc, balancer, alive>>
    BY <1>8 DEF EndRound, monitors
  <2>2. CASE steady' = 0
    BY <1>2, <2>1, <2>2
  <2>3. CASE health' = [age |-> 0, alive |-> alive] /\ steady' = steady
    <3>1. health'.age = 0 /\ health'.alive = alive
      BY <2>3
    <3>2. RoundRight => HealthRight'
      BY <2>1, <3>1, <1>n DEF RoundRight, HealthRight
    <3>3. balancer /\ (Within(steady, left, PingTicks) \/ RoundRight)
      BY <2>1 DEF RegistryInv, HealthInv, RoundInv
    <3>4. Within(steady, left, PingTicks) => Within(steady, HealthTicks, FirstPause)
      BY <1>h, WithinMore DEF FirstPause
    <3>5. RoundInv'
      BY <2>1, <2>3, <3>2, <3>3, <3>4 DEF RoundInv
    <3>6. Within(0, HealthTicks, HealthTicks)
      BY <1>h, WithinFromStart
    <3>7. HealthInv'
      BY <2>1, <3>1, <3>3, <3>6, <1>n DEF HealthInv
    <3>8. QED
      BY <3>5, <3>7 DEF RegistryInv
  <2>4. QED
    BY <1>8, <2>2, <2>3 DEF EndRound, Fault
<1>9. CASE Tick
  <2>1. /\ Quiet /\ UNCHANGED <<proc, balancer, asked, pinging, alive>>
        /\ steady' <= steady + 1
    BY <1>9, TickEffect
  <2>2. /\ btimer' = (IF balancer /\ ~pinging THEN Less(btimer) ELSE btimer)
        /\ left' = Less(left)
    BY <1>9 DEF Tick
  <2>3. /\ health' = [health EXCEPT !.age = Older(@)]
        /\ health'.age = Older(health.age) /\ health'.alive = health.alive
    BY <1>9 DEF Tick, TypeOK
  <2>4. balancer =>
          IF pinging THEN left > 0 /\ left' = left - 1 /\ ~NobodyHangs
                     ELSE btimer > 0 /\ btimer' = btimer - 1
    <3>1. CASE balancer /\ pinging
      <4>1. left # 0 /\ \E m \in asked : proc[m] = "hung"
        BY <2>1, <3>1 DEF Quiet, TimedOut
      <4>2. QED
        BY <4>1, <2>2, <3>1, <1>h DEF Less, NobodyHangs, TypeOK
    <3>2. CASE balancer /\ ~pinging
      BY <2>1, <2>2, <3>2, <1>h DEF Quiet, Less
    <3>3. QED
      BY <3>1, <3>2
  <2>5. /\ health.age = NoFile => health'.age = NoFile
        /\ health.age # NoFile =>
             /\ health'.age # NoFile /\ health'.age <= health.age + 1
             /\ health'.age = Old \/ health'.age = health.age + 1
    BY <2>3, <1>a, <1>h, <1>n, OlderByOne DEF Older
  <2>6. (RoundRight => RoundRight') /\ (HealthRight => HealthRight')
    BY <2>1, <2>3, <2>5 DEF RoundRight, HealthRight
  <2>7. RoundInv'
    <3>1. CASE balancer /\ pinging
      <4>1. \A limit \in Nat : Within(steady, left, limit) => Within(steady', left', limit)
        BY <3>1, <2>1, <2>4, <1>g, <1>h, WithinTick
      <4>2. QED
        BY <3>1, <4>1, <2>1, <2>6, <1>f, <1>h DEF RegistryInv, RoundInv
    <3>2. CASE balancer /\ ~pinging
      <4>1. Within(steady, btimer, FirstPause) => Within(steady', btimer', FirstPause)
        BY <3>2, <2>1, <2>4, <1>f, <1>g, <1>h, WithinTick
      <4>2. QED
        BY <3>2, <4>1, <2>1, <2>6 DEF RegistryInv, RoundInv
    <3>3. CASE ~balancer
      BY <3>3, <2>1 DEF RoundInv
    <3>4. QED
      BY <3>1, <3>2, <3>3
  <2>8. HealthInv'
    <3>1. pinging' => balancer' /\ btimer' = 0
      BY <2>1, <2>2 DEF RegistryInv, HealthInv
    <3>2. balancer' /\ NobodyHangs' =>
            \/ Within(steady', btimer', HealthTicks)
            \/ health'.age # NoFile /\ Within(health'.age, btimer', HealthTicks)
      <4> SUFFICES ASSUME balancer, NobodyHangs
                   PROVE  \/ Within(steady', btimer', HealthTicks)
                          \/ health'.age # NoFile /\ Within(health'.age, btimer', HealthTicks)
        BY <2>1 DEF NobodyHangs
      <4>1. btimer > 0 /\ btimer' = btimer - 1
        BY <2>4
      <4>2. CASE Within(steady, btimer, HealthTicks)
        BY <4>1, <4>2, <2>1, <1>g, <1>h, WithinTick
      <4>3. CASE health.age # NoFile /\ Within(health.age, btimer, HealthTicks)
        <5>1. /\ health.age \in Nat /\ health'.age \in Nat /\ health'.age # NoFile
              /\ health'.age <= health.age + 1
          BY <4>3, <2>5, <1>a, <1>b, <1>h
        <5>2. QED
          BY <4>1, <4>3, <5>1, <1>g, <1>h, WithinTick
      <4>4. QED
        BY <4>2, <4>3 DEF RegistryInv, HealthInv
    <3>3. ~balancer' /\ health'.age # NoFile =>
            health'.age = Old \/ steady' <= health'.age
      <4> SUFFICES ASSUME ~balancer, health.age # NoFile
                   PROVE  health'.age = Old \/ steady' <= health'.age
        BY <2>1, <2>5
      <4>1. health.age = Old => health'.age = Old
        BY <2>3, <1>a, <1>h DEF Older
      <4>2. health.age = Old \/ steady <= health.age
        BY DEF RegistryInv, HealthInv
      <4>3. QED
        BY <4>1, <4>2, <2>1, <2>5, <1>a, <1>b, <1>g, <1>h
    <3>4. QED
      BY <3>1, <3>2, <3>3 DEF HealthInv
  <2>9. QED
    BY <2>7, <2>8 DEF RegistryInv
<1>10. CASE UNCHANGED vars
  BY <1>1, <1>10 DEF vars, monitors
<1>11. QED
  BY <1>3, <1>4, <1>5, <1>6, <1>7, <1>8, <1>9, <1>10 DEF Next, BalancerStep

\* For any number of nodes and any intervals that leave room: when nothing has
\* happened to processes and disks for SettleTicks, exactly the nodes that run
\* are shown UP, whatever was killed, stopped, hung, blinded or slow before, and
\* the badge of the balancer is right.
THEOREM DashboardSettles ==
  ASSUME IntervalsSuffice
  PROVE  Spec => []DashboardIsRight
<1>1. Init => AgeInv /\ UpInv
  BY DEF Init, AgeInv, UpInv, NotFresher
<1>2. Init => MonitorInv /\ RegistryInv
  BY DEF Init, MonitorInv, OffInv, TimerInv, SnapshotInv, FileInv, RegistryInv,
     RoundInv, HealthInv
<1>3. TypeOK /\ AgeInv /\ MonitorInv /\ RegistryInv => DashboardIsRight
  <2> SUFFICES ASSUME TypeOK, AgeInv, MonitorInv, RegistryInv, steady > SettleTicks
               PROVE  /\ \A n \in Nodes : proc[n] = "up" /\ balancer => ShownUp(n)
                      /\ \A n \in Nodes : proc[n] # "up" => ~ShownUp(n)
                      /\ balancer /\ NobodyHangs => BalancerShown
                      /\ ~balancer => ~BalancerShown
    BY DEF DashboardIsRight, NobodyHangs
  <2>n. NoFile \notin Nat
    BY NoFileAssumption
  <2>h. /\ WriteTicks \in Nat /\ HealthTicks \in Nat /\ PingTicks \in Nat
        /\ StaleTicks \in Nat /\ SettleTicks \in Nat /\ Old = StaleTicks + 1
        /\ steady \in Nat /\ left \in Nat /\ btimer \in Nat
        /\ FirstPause \in Nat /\ LastRound \in Nat
    BY TicksAssumption, OldType DEF TypeOK, FirstPause, LastRound
  <2>s. /\ steady > WriteTicks /\ steady > HealthTicks /\ steady > PingTicks
        /\ steady > FirstPause /\ steady > LastRound /\ steady >= Old
    BY <2>h DEF IntervalsSuffice, FirstPause, LastRound
  <2>a. health.age = NoFile \/ health.age \in 0 .. Old
    BY DEF TypeOK, Ages
  <2>1. ASSUME NEW n \in Nodes, proc[n] = "up", balancer PROVE ShownUp(n)
    <3>1. HealthRight
      BY <2>1, <2>h, <2>s, WithinMore DEF RegistryInv, RoundInv
    <3>2. file[n] # NoFile /\ file[n] <= StaleTicks
      <4>1. Due(n) \in Nat /\ (file[n] = NoFile \/ file[n] \in Nat)
        BY <2>h DEF Due, TypeOK, Ages
      <4>2. file[n] # NoFile /\ file[n] <= WriteTicks
        BY <2>1, <2>h, <2>s, <4>1 DEF MonitorInv, FileInv
      <4>3. QED
        BY <2>h, <4>1, <4>2 DEF IntervalsSuffice
    <3>3. ~(file[n] > StaleTicks)
      BY <2>h, <3>2 DEF TypeOK, Ages
    <3>4. QED
      BY <2>1, <3>1, <3>2, <3>3 DEF ShownUp, Reachable, HealthRight, Stale
  <2>2. ASSUME NEW n \in Nodes, proc[n] # "up" PROVE ~ShownUp(n)
    <3>1. off[n] \in 0 .. Old
      BY DEF TypeOK
    <3>2. off[n] = Old
      BY <2>2, <2>h, <2>s, <3>1 DEF MonitorInv, OffInv
    <3>3. file[n] = NoFile \/ (file[n] \in Nat /\ Old <= file[n])
      BY <3>2 DEF AgeInv, NotFresher, TypeOK, Ages
    <3>4. Stale(n)
      BY <2>h, <3>3 DEF Stale
    <3>5. QED
      BY <3>4 DEF ShownUp
  <2>3. ASSUME balancer, NobodyHangs PROVE BalancerShown
    <3>1. health.age # NoFile /\ Within(health.age, btimer, HealthTicks)
      BY <2>3, <2>h, <2>s, WithinMore DEF RegistryInv, HealthInv
    <3>2. health.age \in Nat /\ health.age <= HealthTicks
      BY <2>a, <2>h, <3>1, WithinMore
    <3>3. QED
      BY <2>h, <3>1, <3>2 DEF BalancerShown, IntervalsSuffice
  <2>4. ASSUME ~balancer PROVE ~BalancerShown
    <3>1. health.age # NoFile => health.age \in Nat /\ Old <= health.age
      BY <2>4, <2>a, <2>h, <2>s DEF RegistryInv, HealthInv
    <3>2. QED
      BY <2>h, <3>1 DEF BalancerShown
  <2>5. QED
    BY <2>1, <2>2, <2>3, <2>4
<1>4. QED
  BY <1>1, <1>2, <1>3, AgeStep, MonitorStep, RegistryStep, TypeCorrect, PTL DEF Spec
=============================================================================
