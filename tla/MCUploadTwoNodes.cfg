SPECIFICATION Spec
CONSTANTS
  n1 = n1
  n2 = n2
  x = x
  y = y
  alice = alice
  bob = bob
  Nodes = {n1, n2}
  Sources = {x}
  Size <- Chunks
  User <- AllAlice
  Users = {alice, bob}
  Writers = {}
  MaxAttempts = 2
  Faults = {"drop", "overlap"}
  Inodes = {1, 2, 3, 4}
  None = None
  Hole = Hole
INVARIANTS FinalIsWhole
CHECK_DEADLOCK FALSE
