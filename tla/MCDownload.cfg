SPECIFICATION FairSpec
CONSTANTS
  n1 = n1
  v1 = v1
  v2 = v2
  Nodes = {n1}
  Versions = {v1, v2}
  Size <- Sizes
  MaxAttempts = 2
  MaxRuns = 2
  MaxFaults = 1
  Faults = {"drop", "crash"}
  None = None
  Hole = Hole
INVARIANTS TypeOK PartIsExact RenamedIsWhole CountersAddUp LiveListExplained
PROPERTY DownloadEnds
CHECK_DEADLOCK FALSE
