SPECIFICATION FairSpec
CONSTANTS
  n1 = n1
  n2 = n2
  x = x
  y = y
  alice = alice
  bob = bob
  Nodes = {n1, n2}
  Sources = {x}
  Size <- Chunks
  User <- AllAlice
  Users = {alice, bob}
  Writers = {}
  MaxAttempts = 3
  Faults = {"drop", "reset", "crash", "noclaim"}
  Inodes = {1, 2, 3, 4}
  None = None
  Hole = Hole
INVARIANTS TypeOK FinalIsWhole ResumeIsExact
PROPERTY SettlesUnlessStuck
CHECK_DEADLOCK FALSE
