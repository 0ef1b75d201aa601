SPECIFICATION Spec
CONSTANTS
  n1 = n1
  n2 = n2
  n3 = n3
  n4 = n4
  alice = alice
  bob = bob
  carol = carol
  f = f
  g = g
  Nodes = {n1, n2, n3, n4}
  Users = {alice, bob, carol}
  Files = {f, g}
  NoRule = NoRule
  Torn = Torn
  Free = Free
  InitRules <- AliceOwnsF
  Requests <- StrangerUploads
  Faults = {}
  MaxCrashes = 0
INVARIANT OnlyWritersOverwrite
CHECK_DEADLOCK FALSE
