------------------------------- MODULE Status -------------------------------
(***************************************************************************)
(* What the dashboard shows of the nodes and of the balancer: the status   *)
(* files of src/src/server/monitor.js, the balancer.json of                *)
(* src/src/balancer/balancer.js, the shutdown of src/src/server/node.js,   *)
(* and collectStatus() of src/src/dashboard/dashboard.js.                  *)
(*                                                                         *)
(* Time counts in ticks.  The age of a file is the age of its `updated`    *)
(* field; ages stop at Old.  A write takes less than a tick unless the     *)
(* disk is slow.                                                           *)
(***************************************************************************)
EXTENDS Naturals, FiniteSets

CONSTANTS
  Nodes,
  WriteTicks,   \* WRITE_INTERVAL_MS
  ExitTicks,    \* how long a shutdown may take
  HealthTicks,  \* HEALTH_INTERVAL
  PingTicks,    \* PING_TIMEOUT_MS
  StaleTicks,   \* STALE_AFTER
  SettleTicks,  \* how long the dashboard may be wrong after a change
  Faults,       \* what the environment may do, a subset of FaultKinds
  MaxFaults,    \* bound on the number of faults
  NoFile

\* "kill":    a node process dies
\* "stop":    a node process is asked to end (SIGINT, SIGTERM)
\* "hang":    a node process stands still for a while
\* "blind":   the balancer process dies
\* "slow":    a write of a status file takes a tick longer
\* "ioerror": a write fails
FaultKinds == {"kill", "stop", "hang", "blind", "slow", "ioerror"}

ASSUME TicksAssumption ==
  /\ WriteTicks \in Nat \ {0} /\ ExitTicks \in Nat \ {0}
  /\ HealthTicks \in Nat \ {0} /\ PingTicks \in Nat \ {0}
  /\ StaleTicks \in Nat /\ SettleTicks \in Nat /\ MaxFaults \in Nat
ASSUME StatusFaultsAssumption == Faults \subseteq FaultKinds
ASSUME NoFileAssumption == NoFile \notin Nat

VARIABLES
  proc,      \* a node process: "up", "hung", "stopping" or "down"
  timer,     \* ticks until its next writeStatus(), or until it exits
  temp,      \* age of the snapshot in node_<id>.json.tmp while _writing
  file,      \* age of node_<id>.json
  off,       \* ticks since the process was last up
  balancer,  \* the balancer runs
  btimer,    \* ticks until its next round
  asked,     \* the nodes that have not answered the ping of this round
  pinging,   \* a round is under way
  left,      \* ticks until its pings time out
  alive,     \* the entries of NodeRegistry
  health,    \* balancer.json: its age, and what it says of the nodes
  faults,
  steady     \* history: ticks since anything happened to a process or a disk

monitors  == <<proc, timer, temp, file, off>>
registry  == <<balancer, btimer, asked, pinging, left, alive, health>>
vars      == <<monitors, registry, faults, steady>>

Old == StaleTicks + 1
Older(age) == IF age = NoFile \/ age >= Old THEN age ELSE age + 1

Init ==
  /\ proc  = [n \in Nodes |-> "down"]
  /\ timer = [n \in Nodes |-> 0]
  /\ temp  = [n \in Nodes |-> NoFile] /\ file = [n \in Nodes |-> NoFile]
  /\ off   = [n \in Nodes |-> Old]
  /\ balancer = FALSE /\ btimer = 0
  /\ asked = {} /\ pinging = FALSE /\ left = 0
  /\ alive  = [n \in Nodes |-> FALSE]
  /\ health = [age |-> NoFile, alive |-> alive]
  /\ faults = 0 /\ steady = 0

Fault(kind) ==
  /\ kind \in Faults /\ faults < MaxFaults
  /\ faults' = faults + 1 /\ steady' = 0

(***************************************************************************)
(* The monitor of a node.                                                  *)
(***************************************************************************)
\* The interval fires; writeStatus() takes its snapshot, or skips a beat.
WriteStatus(n) ==
  /\ proc[n] = "up" /\ timer[n] = 0
  /\ timer' = [timer EXCEPT ![n] = WriteTicks]
  /\ temp'  = IF temp[n] = NoFile THEN [temp EXCEPT ![n] = 0] ELSE temp
  /\ UNCHANGED <<proc, file, off, registry, faults, steady>>

\* The rename; a shutdown does not wait for it and does not prevent it.
RenameStatus(n) ==
  /\ proc[n] \in {"up", "stopping"} /\ temp[n] # NoFile
  /\ file' = [file EXCEPT ![n] = temp[n]]
  /\ temp' = [temp EXCEPT ![n] = NoFile]
  /\ UNCHANGED <<proc, timer, off, registry, faults, steady>>

\* An update is missed.
WriteFails(n) ==
  /\ proc[n] \in {"up", "stopping"} /\ temp[n] # NoFile
  /\ Fault("ioerror")
  /\ temp' = [temp EXCEPT ![n] = NoFile]
  /\ UNCHANGED <<proc, timer, file, off, registry>>

(***************************************************************************)
(* The life of a node process.                                             *)
(***************************************************************************)
Start(n) ==
  /\ proc[n] = "down"
  /\ proc'  = [proc EXCEPT ![n] = "up"]
  /\ timer' = [timer EXCEPT ![n] = WriteTicks]
  /\ temp'  = [temp EXCEPT ![n] = NoFile]
  /\ off'   = [off EXCEPT ![n] = 0]
  /\ steady' = 0
  /\ UNCHANGED <<file, registry, faults>>

Kill(n) ==
  /\ proc[n] \in {"up", "hung", "stopping"}
  /\ Fault("kill")
  /\ proc' = [proc EXCEPT ![n] = "down"]
  /\ temp' = [temp EXCEPT ![n] = NoFile]
  /\ UNCHANGED <<timer, file, off, registry>>

Hang(n) ==
  /\ proc[n] = "up"
  /\ Fault("hang")
  /\ proc' = [proc EXCEPT ![n] = "hung"]
  /\ UNCHANGED <<timer, temp, file, off, registry>>

Resume(n) ==
  /\ proc[n] = "hung"
  /\ proc' = [proc EXCEPT ![n] = "up"]
  /\ off'  = [off EXCEPT ![n] = 0]
  /\ steady' = 0
  /\ UNCHANGED <<timer, temp, file, registry, faults>>

\* shutdown(): removeStatusFile(), and no more connections.
Stop(n) ==
  /\ proc[n] = "up"
  /\ Fault("stop")
  /\ proc'  = [proc EXCEPT ![n] = "stopping"]
  /\ timer' = [timer EXCEPT ![n] = ExitTicks]
  /\ file'  = [file EXCEPT ![n] = NoFile]
  /\ UNCHANGED <<temp, off, registry>>

\* The last connection is closed, or the second is over.
Exit(n) ==
  /\ proc[n] = "stopping"
  /\ proc' = [proc EXCEPT ![n] = "down"]
  /\ temp' = [temp EXCEPT ![n] = NoFile]
  /\ steady' = 0
  /\ UNCHANGED <<timer, file, off, registry, faults>>

(***************************************************************************)
(* The balancer: a round of pings, then balancer.json, then the pause.     *)
(***************************************************************************)
\* (mutant: an entry does not say yet)
AliveAtFirstUnset(n) == NoFile

AliveAtFirst(n) == FALSE

StartBalancer ==
  /\ ~balancer
  /\ balancer' = TRUE
  /\ btimer' = 0
  /\ alive' = [n \in Nodes |-> AliveAtFirst(n)]
  /\ steady' = 0
  /\ UNCHANGED <<monitors, asked, pinging, left, health, faults>>

KillBalancer ==
  /\ balancer
  /\ Fault("blind")
  /\ balancer' = FALSE /\ asked' = {} /\ pinging' = FALSE /\ left' = 0
  /\ UNCHANGED <<monitors, btimer, alive, health>>

\* A node that runs answers, one that does not refuses, one that hangs accepts.
PingAll ==
  /\ balancer /\ ~pinging /\ btimer = 0
  /\ pinging' = TRUE /\ left' = PingTicks
  /\ asked' = {n \in Nodes : proc[n] = "hung"}
  /\ alive' = [n \in Nodes |-> IF n \in asked' THEN alive[n] ELSE proc[n] = "up"]
  /\ UNCHANGED <<monitors, balancer, btimer, health, faults, steady>>

\* (mutant: no setTimeout())
TimedOutNever == FALSE

TimedOut == left = 0

\* It answers after all, is killed, or the ping times out.
Answer(n) ==
  /\ n \in asked
  /\ proc[n] # "hung" \/ TimedOut
  /\ asked' = asked \ {n}
  /\ alive' = [alive EXCEPT ![n] = proc[n] = "up"]
  /\ UNCHANGED <<monitors, balancer, btimer, pinging, left, health, faults, steady>>

EndRound ==
  /\ pinging /\ asked = {}
  /\ pinging' = FALSE /\ left' = 0
  /\ btimer' = HealthTicks
  /\ \/ /\ health' = [age |-> 0, alive |-> alive]
        /\ UNCHANGED <<faults, steady>>
     \/ Fault("ioerror") /\ UNCHANGED health
  /\ UNCHANGED <<monitors, balancer, asked, alive>>

(***************************************************************************)
(* Time.                                                                   *)
(***************************************************************************)
Quiet ==
  /\ \A n \in Nodes : proc[n] \in {"up", "stopping"} => timer[n] > 0
  /\ balancer => IF pinging THEN ~TimedOut /\ asked # {}
                                /\ \A n \in asked : proc[n] = "hung"
                            ELSE btimer > 0

WritesDone == \A n \in Nodes : proc[n] \in {"up", "stopping"} => temp[n] = NoFile

Less(ticks) == IF ticks = 0 THEN 0 ELSE ticks - 1

Tick ==
  /\ Quiet
  /\ \/ /\ WritesDone
        /\ steady' = IF steady > SettleTicks THEN steady ELSE steady + 1
        /\ UNCHANGED faults
     \/ ~WritesDone /\ Fault("slow")
  /\ timer' = [n \in Nodes |-> IF proc[n] \in {"up", "stopping"}
                                 THEN Less(timer[n]) ELSE timer[n]]
  /\ temp' = [n \in Nodes |-> Older(temp[n])]
  /\ file' = [n \in Nodes |-> Older(file[n])]
  /\ off'  = [n \in Nodes |-> IF proc[n] = "up" THEN 0 ELSE Older(off[n])]
  /\ btimer' = IF balancer /\ ~pinging THEN Less(btimer) ELSE btimer
  /\ left' = Less(left)
  /\ health' = [health EXCEPT !.age = Older(@)]
  /\ UNCHANGED <<proc, balancer, asked, pinging, alive>>

NodeStep(n) ==
  \/ WriteStatus(n) \/ RenameStatus(n) \/ WriteFails(n)
  \/ Start(n) \/ Kill(n) \/ Hang(n) \/ Resume(n) \/ Stop(n) \/ Exit(n)

BalancerStep ==
  \/ StartBalancer \/ KillBalancer \/ PingAll \/ EndRound
  \/ \E n \in Nodes : Answer(n)

Next == Tick \/ BalancerStep \/ \E n \in Nodes : NodeStep(n)

Spec == Init /\ [][Next]_vars

(***************************************************************************)
(* collectStatus(), and the badges of the page.                            *)
(***************************************************************************)
\* (mutant: any file will do)
StaleIfAbsent(n) == file[n] = NoFile

Stale(n) == file[n] = NoFile \/ file[n] > StaleTicks

Reachable(n) == health.age # NoFile /\ health.alive[n]
ShownUp(n)   == Reachable(n) /\ ~Stale(n)

BalancerShown == health.age # NoFile /\ health.age < StaleTicks

-----------------------------------------------------------------------------
(***************************************************************************)
(* Properties.                                                             *)
(***************************************************************************)
Ages == (0 .. Old) \cup {NoFile}

\* Every variable has the shape the code gives it.
TypeOK ==
  /\ proc \in [Nodes -> {"up", "hung", "stopping", "down"}]
  /\ timer \in [Nodes -> Nat]
  /\ temp \in [Nodes -> Ages] /\ file \in [Nodes -> Ages]
  /\ off \in [Nodes -> 0 .. Old]
  /\ balancer \in BOOLEAN /\ btimer \in 0 .. HealthTicks
  /\ asked \subseteq Nodes /\ pinging \in BOOLEAN /\ left \in 0 .. PingTicks
  /\ alive \in [Nodes -> BOOLEAN]
  /\ health \in [age : Ages, alive : [Nodes -> BOOLEAN]]
  /\ faults \in Nat /\ steady \in Nat

\* A killed node turns red on its own: one that has not run for STALE_AFTER is
\* not shown UP, also when the balancer is dead, when a write was under way at
\* its end, or when the disk was slow.
DeadTurnsRed == \A n \in Nodes : ShownUp(n) => off[n] <= StaleTicks

\* When nothing has happened to processes and disks for a while, the dashboard
\* is right: with a balancer, exactly the nodes that run are UP; without one,
\* no other node is.  The balancer's own badge is right unless a node hangs,
\* because a round then takes as long as STALE_AFTER.
DashboardIsRight ==
  steady > SettleTicks =>
    /\ \A n \in Nodes : proc[n] = "up" /\ balancer => ShownUp(n)
    /\ \A n \in Nodes : proc[n] # "up" => ~ShownUp(n)
    /\ balancer /\ (\A n \in Nodes : proc[n] # "hung") => BalancerShown
    /\ ~balancer => ~BalancerShown
=============================================================================
