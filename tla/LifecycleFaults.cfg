CONSTANTS
  l1 = l1
  l2 = l2
  l3 = l3
  None = None
  Launches <- TwoLaunches
  Retention = 0
  MaxRank = 2
  Platform = "darwin"
  Faults = {"late error", "interrupt", "signal"}
SPECIFICATION FairSpec
CHECK_DEADLOCK FALSE
INVARIANTS
  RunningKept
PROPERTIES
  LaunchSettles
  TeardownEnds
