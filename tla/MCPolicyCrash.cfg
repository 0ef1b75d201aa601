SPECIFICATION FairSpec
CONSTANTS
  n1 = n1
  n2 = n2
  n3 = n3
  n4 = n4
  alice = alice
  bob = bob
  carol = carol
  f = f
  g = g
  Nodes = {n1, n2}
  Users = {alice, bob, carol}
  Files = {f, g}
  NoRule = NoRule
  Torn = Torn
  Free = Free
  InitRules <- AliceOwnsF
  Requests <- CrashWithQueue
  Faults = {"crash", "slow", "ioerror", "lockerror"}
  MaxCrashes = 1
INVARIANTS NodeSerial NoOrphanLock
PROPERTY RequestsSettle
CHECK_DEADLOCK FALSE
