SPECIFICATION Spec
CONSTANTS
  n1 = n1
  n2 = n2
  Nodes = {n1, n2}
  WriteTicks = 2
  ExitTicks = 2
  HealthTicks = 4
  PingTicks = 4
  StaleTicks = 8
  SettleTicks = 12
  Faults = {"kill", "stop", "hang", "blind", "slow", "ioerror"}
  MaxFaults = 2
  NoFile = NoFile
INVARIANTS TypeOK DeadTurnsRed DashboardIsRight
SYMMETRY NodeSymmetry
CHECK_DEADLOCK FALSE
