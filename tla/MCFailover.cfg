SPECIFICATION Spec
CONSTANTS
  n1 = n1
  n2 = n2
  n3 = n3
  c1 = c1
  c2 = c2
  Nodes = {n1, n2, n3}
  NoNode = NoNode
  Clients = {c1, c2}
  Operation <- Mixed
  MaxAttempts = 4
  PauseTicks = 3
  HealthTicks = 4
  MaxCrashes = 1
INVARIANTS TypeOK DeadIsDropped BurstIsSpread AttemptsSuffice
SYMMETRY NodeSymmetry
CHECK_DEADLOCK FALSE
