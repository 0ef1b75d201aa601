SPECIFICATION Spec
CONSTANTS
  n1 = n1
  n2 = n2
  x = x
  y = y
  alice = alice
  bob = bob
  Nodes = {n1}
  Sources = {x, y}
  Size <- Chunks
  User <- TwoUsers
  Users = {alice, bob}
  Writers = {bob}
  MaxAttempts = 2
  Faults = {"drop", "overlap", "ioerror", "reload"}
  Inodes = {1, 2, 3, 4}
  None = None
  Hole = Hole
INVARIANTS ChainSerial AbortIsResumePoint CompleteOnDisk ConfirmedStays
PROPERTY StoredAsWhole
CHECK_DEADLOCK FALSE
